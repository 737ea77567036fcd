---------------------------- MODULE LedgerProofs ----------------------------
(***************************************************************************)
(* Proofs about MarketLedger and LedgerPurge: the tables keep their form   *)
(* (LedgerTyped), and with it the blocks hold what was issued, the rows of *)
(* the rounds describe the blocks, no proof of retrievability is lost, and *)
(* agreements go round.                                                    *)
(* What is computed along a sequence is shown by a least counterexample.   *)
(***************************************************************************)
EXTENDS LedgerPurge, FiniteSetTheorems, WellFoundedInduction, NaturalsInduction, TLAPS

-----------------------------------------------------------------------------
(* Numbers, sums and flattened sequences.  What a recursive function       *)
(* computes is shown by a least counterexample.                            *)

LessNat == {p \in Nat \X Nat : p[1] < p[2]}

\* A nonempty set of natural numbers has a least member.
LEMMA LeastNumber ==
    ASSUME NEW T, T \subseteq Nat, T # {}
    PROVE  \E n \in T : \A m \in T : ~(m < n)
<1>1. IsWellFoundedOn(LessNat, Nat)
  BY NatLessThanWellFounded DEF OpToRel, LessNat
<1>2. PICK n \in T : \A m \in T : ~(<<m, n>> \in LessNat)
  BY <1>1, WFMin
<1>3. \A m \in T : ~(m < n)
  BY <1>2 DEF LessNat
<1> QED  BY <1>3

\* If every number up to N that fails has a predecessor that fails, none does.
LEMMA NoLeastFailure ==
    ASSUME NEW N \in Nat, NEW T, T \subseteq 0..N, 0 \notin T,
           \A n \in T : n # 0 => n - 1 \in T
    PROVE  T = {}
<1> SUFFICES ASSUME T # {} PROVE FALSE
  OBVIOUS
<1>0. T \subseteq Nat
  OBVIOUS
<1>1. PICK n \in T : \A m \in T : ~(m < n)
  BY <1>0, LeastNumber
<1>2. n - 1 \in T /\ n - 1 < n
  BY <1>0, <1>1
<1> QED  BY <1>1, <1>2

\* A bounded nonempty set of numbers has its maximum as a member.
LEMMA MaxOfBounded ==
    ASSUME NEW N \in Nat, NEW S, S \subseteq 0..N, S # {}
    PROVE  Max(S) \in S /\ \A n \in S : n <= Max(S)
<1> DEFINE T == {N - n : n \in S}
<1>1. PICK t \in T : \A m \in T : ~(m < t)
  <2>1. \A n \in S : n \in Nat /\ N - n \in Nat
    OBVIOUS
  <2>2. T \subseteq Nat
    BY <2>1
  <2>3. T # {}
    <3>1. PICK n \in S : TRUE
      OBVIOUS
    <3>2. N - n \in T
      OBVIOUS
    <3> QED  BY <3>2
  <2> HIDE DEF T
  <2> QED  BY <2>2, <2>3, LeastNumber
<1>2. PICK n \in S : t = N - n
  BY <1>1
<1>3. \A m \in S : n >= m
  <2> TAKE m \in S
  <2>1. ~(N - m < t)
    <3>1. N - m \in T
      OBVIOUS
    <3> QED  BY <1>1, <3>1
  <2>2. m \in Int /\ n \in Int
    <3> HIDE DEF T
    <3> QED  OBVIOUS
  <2> HIDE DEF T
  <2> QED  BY <1>2, <2>1, <2>2
<1> QED  BY <1>2, <1>3 DEF Max

\* The first n elements of s.
First(s, n) == [i \in 1..n |-> s[i]]

\* f[i] is the sum of the first i numbers of s.
Sums(f, s) ==
    /\ f \in [0..Len(s) -> Int]
    /\ f[0] = 0
    /\ \A i \in 1..Len(s) : f[i] = f[i - 1] + s[i]

LEMMA SumsExist ==
    ASSUME NEW s \in Seq(Int)
    PROVE  \E f : Sums(f, s)
<1> DEFINE Up(f, n) == /\ f \in [0..n -> Int] /\ f[0] = 0
                       /\ \A i \in 1..n : f[i] = f[i - 1] + s[i]
           T == {n \in 0..Len(s) : ~ \E f : Up(f, n)}
<1>1. 0 \notin T
  <2>1. Up([i \in 0..0 |-> 0], 0)
    OBVIOUS
  <2> QED  BY <2>1
<1>2. ASSUME NEW n \in T, n # 0, n - 1 \notin T PROVE FALSE
  <2>1. n \in 1..Len(s) /\ n - 1 \in 0..Len(s)
    BY <1>2
  <2>2. PICK f : Up(f, n - 1)
    BY <1>2, <2>1
  <2> DEFINE g == [i \in 0..n |-> IF i = n THEN f[n - 1] + s[n] ELSE f[i]]
  <2>3. s[n] \in Int
    BY <2>1
  <2>4. f[n - 1] \in Int
    BY <2>1, <2>2
  <2>5. g \in [0..n -> Int] /\ g[0] = 0
    BY <2>1, <2>2, <2>3, <2>4
  <2>6. ASSUME NEW i \in 1..n PROVE g[i] = g[i - 1] + s[i]
    BY <2>1, <2>2
  <2>7. Up(g, n)
    BY <2>5, <2>6
  <2> QED  BY <1>2, <2>7
<1>3. T = {}
  <2>1. Len(s) \in Nat /\ T \subseteq 0..Len(s)
    OBVIOUS
  <2> HIDE DEF T
  <2> QED  BY <2>1, <1>1, <1>2, NoLeastFailure
<1>4. \E f : Up(f, Len(s))
  BY <1>3
<1> QED  BY <1>4 DEF Sums

LEMMA SumsUnique ==
    ASSUME NEW s \in Seq(Int), NEW f, NEW g, Sums(f, s), Sums(g, s)
    PROVE  \A i \in 0..Len(s) : f[i] = g[i]
<1> DEFINE T == {n \in 0..Len(s) : f[n] # g[n]}
<1>1. 0 \notin T
  BY DEF Sums
<1>2. ASSUME NEW n \in T, n # 0 PROVE n - 1 \in T
  BY <1>2 DEF Sums
<1>3. T = {}
  <2>1. Len(s) \in Nat /\ T \subseteq 0..Len(s)
    OBVIOUS
  <2> HIDE DEF T
  <2> QED  BY <2>1, <1>1, <1>2, NoLeastFailure
<1> QED  BY <1>3

LEMMA TotalIs ==
    ASSUME NEW s \in Seq(Int), NEW f, Sums(f, s)
    PROVE  Total(s) = f[Len(s)]
<1> DEFINE g == CHOOSE g : g = [i \in 0..Len(s) |-> IF i = 0 THEN 0 ELSE g[i - 1] + s[i]]
<1>1. f = [i \in 0..Len(s) |-> IF i = 0 THEN 0 ELSE f[i - 1] + s[i]]
  BY DEF Sums
<1>2. g = [i \in 0..Len(s) |-> IF i = 0 THEN 0 ELSE g[i - 1] + s[i]]
  BY <1>1
<1>3. Total(s) = g[Len(s)]
  BY DEF Total
<1> HIDE DEF g
<1> DEFINE T == {n \in 0..Len(s) : f[n] # g[n]}
<1>4. 0 \notin T
  BY <1>2 DEF Sums
<1>5. ASSUME NEW n \in T, n # 0 PROVE n - 1 \in T
  <2>1. n \in 1..Len(s) /\ n - 1 \in 0..Len(s)
    BY <1>5
  <2>2. g[n] = g[n - 1] + s[n] /\ f[n] = f[n - 1] + s[n]
    BY <1>2, <2>1, <1>5 DEF Sums
  <2> QED  BY <2>1, <2>2
<1>6. T = {}
  <2>1. Len(s) \in Nat /\ T \subseteq 0..Len(s)
    OBVIOUS
  <2> HIDE DEF T
  <2> QED  BY <2>1, <1>4, <1>5, NoLeastFailure
<1>7. Len(s) \in 0..Len(s)
  OBVIOUS
<1> QED  BY <1>3, <1>6, <1>7

\* The sum of a prefix and of the next longer one.
LEMMA TotalStep ==
    ASSUME NEW s \in Seq(Int)
    PROVE  /\ \A n \in 0..Len(s) : First(s, n) \in Seq(Int) /\ Total(First(s, n)) \in Int
           /\ Total(First(s, 0)) = 0
           /\ \A n \in 1..Len(s) : Total(First(s, n)) = Total(First(s, n - 1)) + s[n]
           /\ First(s, Len(s)) = s
           /\ Total(s) \in Int
<1>1. PICK f : Sums(f, s)
  BY SumsExist
<1>2. ASSUME NEW n \in 0..Len(s)
      PROVE  First(s, n) \in Seq(Int) /\ Total(First(s, n)) = f[n]
  <2> DEFINE p == First(s, n)
             g == [i \in 0..n |-> f[i]]
  <2>1. p \in Seq(Int) /\ Len(p) = n /\ \A i \in 1..n : p[i] = s[i]
    BY DEF First
  <2>2. Sums(g, p)
    <3> HIDE DEF p
    <3>0. n \in Nat /\ \A i \in 0..n : i \in 0..Len(s)
      OBVIOUS
    <3>a. \A i \in 0..n : f[i] \in Int
      BY <1>1, <3>0 DEF Sums
    <3>b. 0 \in 0..n /\ f[0] = 0
      BY <1>1, <3>0 DEF Sums
    <3>1. g \in [0..n -> Int] /\ g[0] = 0
      BY <3>a, <3>b
    <3>2. \A i \in 1..n : g[i] = g[i - 1] + p[i]
      BY <1>1, <2>1 DEF Sums
    <3> QED  BY <3>1, <3>2, <2>1 DEF Sums
  <2>3. Total(p) = g[n]
    <3> HIDE DEF p, g
    <3> QED  BY <2>1, <2>2, TotalIs
  <2> QED  BY <2>1, <2>3
<1>3. First(s, Len(s)) = s
  BY DEF First
<1>4. Len(s) \in 0..Len(s) /\ 0 \in 0..Len(s)
  OBVIOUS
<1>5. \A n \in 0..Len(s) : f[n] \in Int
  BY <1>1 DEF Sums
<1>6. \A n \in 1..Len(s) : n - 1 \in 0..Len(s) /\ n \in 0..Len(s) /\ f[n] = f[n - 1] + s[n]
  BY <1>1 DEF Sums
<1>7. Total(s) \in Int
  BY <1>2, <1>3, <1>4, <1>5
<1>8. Total(First(s, 0)) = 0
  BY <1>1, <1>2, <1>4 DEF Sums
<1>9. \A n \in 1..Len(s) : Total(First(s, n)) = Total(First(s, n - 1)) + s[n]
  BY <1>2, <1>6
<1>10. \A n \in 0..Len(s) : First(s, n) \in Seq(Int) /\ Total(First(s, n)) \in Int
  BY <1>2, <1>5
<1> QED  BY <1>3, <1>7, <1>8, <1>9, <1>10

LEMMA TotalOfNone ==
    Total(<<>>) = 0
<1>1. <<>> \in Seq(Int) /\ First(<<>>, 0) = <<>>
  BY DEF First
<1> QED  BY <1>1, TotalStep

LEMMA TotalAppend ==
    ASSUME NEW s \in Seq(Int), NEW x \in Int
    PROVE  Total(Append(s, x)) = Total(s) + x
<1> DEFINE t == Append(s, x)
<1>1. t \in Seq(Int) /\ Len(t) = Len(s) + 1 /\ t[Len(s) + 1] = x
  OBVIOUS
<1>2. First(t, Len(s)) = s
  BY DEF First
<1> HIDE DEF t
<1>3. First(t, Len(t)) = t /\ Len(t) \in 1..Len(t) /\ Len(t) - 1 = Len(s)
  BY <1>1, TotalStep
<1>4. Total(First(t, Len(t))) = Total(First(t, Len(t) - 1)) + t[Len(t)]
  BY <1>1, <1>3, TotalStep
<1> QED  BY <1>1, <1>2, <1>3, <1>4 DEF t

LEMMA TotalConcat ==
    ASSUME NEW s \in Seq(Int), NEW t \in Seq(Int)
    PROVE  Total(s \o t) = Total(s) + Total(t)
<1> DEFINE u == s \o t
           T == {n \in 0..Len(t) : Total(First(u, Len(s) + n)) # Total(s) + Total(First(t, n))}
<1>0. /\ u \in Seq(Int) /\ Len(u) = Len(s) + Len(t)
      /\ \A i \in 1..Len(s) : u[i] = s[i]
      /\ \A i \in 1..Len(t) : u[Len(s) + i] = t[i]
      /\ Len(s) \in Nat /\ Len(t) \in Nat
  OBVIOUS
<1>a. First(u, Len(s)) = s
  BY <1>0 DEF First
<1> HIDE DEF u
<1>1. 0 \notin T
  <2>1. Total(First(t, 0)) = 0 /\ Total(s) \in Int
    BY TotalStep
  <2> QED  BY <1>0, <1>a, <2>1
<1>2. ASSUME NEW n \in T, n # 0 PROVE n - 1 \in T
  <2>1. n \in 1..Len(t) /\ Len(s) + n \in 1..Len(u) /\ n - 1 \in 0..Len(t)
    BY <1>2, <1>0
  <2>2. Total(First(t, n)) = Total(First(t, n - 1)) + t[n]
    BY <2>1, TotalStep
  <2>3. Total(First(u, Len(s) + n)) = Total(First(u, Len(s) + n - 1)) + u[Len(s) + n]
    <3> DEFINE m == Len(s) + n
    <3>1. m \in 1..Len(u)
      BY <2>1
    <3> HIDE DEF m
    <3>2. Total(First(u, m)) = Total(First(u, m - 1)) + u[m]
      BY <3>1, <1>0, TotalStep
    <3> QED  BY <3>2 DEF m
  <2>4. Len(s) + n - 1 = Len(s) + (n - 1) /\ Len(s) + n - 1 \in 0..Len(u)
    BY <2>1, <1>0
  <2>5. Total(First(u, Len(s) + n - 1)) \in Int /\ Total(First(t, n - 1)) \in Int
        /\ Total(s) \in Int
    BY <2>1, <2>4, <1>0, TotalStep
  <2>6. u[Len(s) + n] = t[n] /\ t[n] \in Int
    BY <2>1, <1>0
  <2>7. Total(First(u, Len(s) + n)) # Total(s) + Total(First(t, n))
    BY <1>2
  <2>8. Total(First(u, Len(s) + n - 1)) # Total(s) + Total(First(t, n - 1))
    BY <2>2, <2>3, <2>5, <2>6, <2>7
  <2> QED  BY <2>1, <2>4, <2>8
<1>3. T = {}
  <2>1. Len(t) \in Nat /\ T \subseteq 0..Len(t)
    BY <1>0
  <2> HIDE DEF T
  <2> QED  BY <2>1, <1>1, <1>2, NoLeastFailure
<1>4. Total(First(u, Len(s) + Len(t))) = Total(s) + Total(First(t, Len(t)))
  <2>1. Len(t) \in 0..Len(t)
    BY <1>0
  <2> QED  BY <1>3, <2>1
<1>5. First(u, Len(u)) = u /\ First(t, Len(t)) = t
  BY <1>0, TotalStep
<1> QED  BY <1>0, <1>4, <1>5 DEF u

\* Sums are added place by place.
LEMMA TotalPlus ==
    ASSUME NEW s \in Seq(Int), NEW t \in Seq(Int), NEW u \in Seq(Int),
           Len(t) = Len(s), Len(u) = Len(s), \A i \in 1..Len(s) : u[i] = s[i] + t[i]
    PROVE  Total(u) = Total(s) + Total(t)
<1> DEFINE T == {n \in 0..Len(s) : Total(First(u, n)) # Total(First(s, n)) + Total(First(t, n))}
<1>1. 0 \notin T
  BY TotalStep
<1>2. ASSUME NEW n \in T, n # 0 PROVE n - 1 \in T
  <2>1. n \in 1..Len(s) /\ n - 1 \in 0..Len(s)
    BY <1>2
  <2>2. /\ Total(First(s, n)) = Total(First(s, n - 1)) + s[n]
        /\ Total(First(t, n)) = Total(First(t, n - 1)) + t[n]
        /\ Total(First(u, n)) = Total(First(u, n - 1)) + u[n]
        /\ Total(First(s, n - 1)) \in Int
        /\ Total(First(t, n - 1)) \in Int
        /\ Total(First(u, n - 1)) \in Int
    BY <2>1, TotalStep
  <2>3. s[n] \in Int /\ t[n] \in Int /\ u[n] = s[n] + t[n]
    BY <2>1
  <2>4. Total(First(u, n)) # Total(First(s, n)) + Total(First(t, n))
    BY <1>2
  <2>5. Total(First(u, n - 1)) # Total(First(s, n - 1)) + Total(First(t, n - 1))
    <3> DEFINE a == Total(First(s, n - 1))
               b == Total(First(t, n - 1))
               c == Total(First(u, n - 1))
               x == s[n]
               y == t[n]
    <3>1. a \in Int /\ b \in Int /\ c \in Int /\ x \in Int /\ y \in Int
      BY <2>2, <2>3
    <3>2. c + (x + y) # (a + x) + (b + y)
      BY <2>2, <2>3, <2>4
    <3> HIDE DEF a, b, c, x, y, T
    <3>3. c # a + b
      BY <3>1, <3>2
    <3> QED  BY <3>3 DEF a, b, c
  <2> QED  BY <2>1, <2>5
<1>3. T = {}
  <2>1. Len(s) \in Nat /\ T \subseteq 0..Len(s)
    OBVIOUS
  <2> HIDE DEF T
  <2> QED  BY <2>1, <1>1, <1>2, NoLeastFailure
<1>4. Total(First(u, Len(s))) = Total(First(s, Len(s))) + Total(First(t, Len(s)))
  BY <1>3
<1> QED  BY <1>4, TotalStep

\* A sequence that is zero but for one place.
LEMMA TotalOfOne ==
    ASSUME NEW s \in Seq(Int), NEW k \in 1..Len(s), \A i \in 1..Len(s) : i # k => s[i] = 0
    PROVE  Total(s) = s[k]
<1> DEFINE T == {n \in 0..Len(s) : Total(First(s, n)) # IF n < k THEN 0 ELSE s[k]}
<1>1. 0 \notin T
  BY TotalStep
<1>2. ASSUME NEW n \in T, n # 0 PROVE n - 1 \in T
  <2>1. n \in 1..Len(s) /\ n - 1 \in 0..Len(s)
    BY <1>2
  <2>2. /\ Total(First(s, n)) = Total(First(s, n - 1)) + s[n]
        /\ Total(First(s, n - 1)) \in Int
    BY <2>1, TotalStep
  <2>3. s[n] \in Int /\ s[k] \in Int
    BY <2>1
  <2>4. Total(First(s, n)) # IF n < k THEN 0 ELSE s[k]
    BY <1>2
  <2> QED  BY <2>1, <2>2, <2>3, <2>4
<1>3. T = {}
  <2>1. Len(s) \in Nat /\ T \subseteq 0..Len(s)
    OBVIOUS
  <2> HIDE DEF T
  <2> QED  BY <2>1, <1>1, <1>2, NoLeastFailure
<1>4. Total(First(s, Len(s))) = s[k]
  BY <1>3
<1> QED  BY <1>4, TotalStep

LEMMA TotalOfZeros ==
    ASSUME NEW s \in Seq(Int), \A i \in 1..Len(s) : s[i] = 0
    PROVE  Total(s) = 0
<1>1. CASE Len(s) = 0
  <2>1. s = <<>>
    BY <1>1
  <2> QED  BY <2>1, TotalOfNone
<1>2. CASE Len(s) # 0
  <2>1. 1 \in 1..Len(s) /\ s[1] = 0
    BY <1>2
  <2> QED  BY <2>1, TotalOfOne
<1> QED  BY <1>1, <1>2

-----------------------------------------------------------------------------
(* Flattened sequences.                                                    *)

\* f[i] is the concatenation of the first i members of ss.
Flats(f, ss, X) ==
    /\ f \in [1..Len(ss) -> Seq(X)]
    /\ \A i \in 1..Len(ss) : f[i] = IF i = 1 THEN ss[1] ELSE f[i - 1] \o ss[i]

LEMMA FlatsExist ==
    ASSUME NEW X, NEW ss \in Seq(Seq(X))
    PROVE  \E f : Flats(f, ss, X)
<1> DEFINE Up(f, n) ==
              /\ f \in [1..n -> Seq(X)]
              /\ \A i \in 1..n : f[i] = IF i = 1 THEN ss[1] ELSE f[i - 1] \o ss[i]
           T == {n \in 0..Len(ss) : ~ \E f : Up(f, n)}
<1>1. 0 \notin T
  <2>1. Up([i \in 1..0 |-> <<>>], 0)
    OBVIOUS
  <2> QED  BY <2>1
<1>2. ASSUME NEW n \in T, n # 0, n - 1 \notin T PROVE FALSE
  <2>1. n \in 1..Len(ss) /\ n - 1 \in 0..Len(ss)
    BY <1>2
  <2>2. PICK f : Up(f, n - 1)
    BY <1>2, <2>1
  <2> DEFINE e == IF n = 1 THEN ss[1] ELSE f[n - 1] \o ss[n]
             g == [i \in 1..n |-> IF i = n THEN e ELSE f[i]]
  <2>3. ss[n] \in Seq(X)
    BY <2>1
  <2>4. n # 1 => f[n - 1] \in Seq(X)
    BY <2>1, <2>2
  <2>5. e \in Seq(X)
    BY <2>3, <2>4
  <2>6. \A i \in 1..n : i # n => i \in 1..(n - 1) /\ f[i] \in Seq(X)
    BY <2>1, <2>2
  <2>7. g \in [1..n -> Seq(X)]
    BY <2>5, <2>6
  <2>8. ASSUME NEW i \in 1..n
        PROVE  g[i] = IF i = 1 THEN ss[1] ELSE g[i - 1] \o ss[i]
    <3>1. i # 1 => i - 1 \in 1..n /\ i - 1 # n /\ g[i - 1] = f[i - 1]
      BY <2>1
    <3>2. CASE i = n
      BY <3>1, <3>2
    <3>3. CASE i # n
      <4>1. i \in 1..(n - 1)
        BY <2>1, <3>3
      <4>2. f[i] = IF i = 1 THEN ss[1] ELSE f[i - 1] \o ss[i]
        BY <2>2, <4>1
      <4> QED  BY <3>1, <3>3, <4>2
    <3> QED  BY <3>2, <3>3
  <2>9. Up(g, n)
    BY <2>7, <2>8
  <2> QED  BY <1>2, <2>9
<1>3. T = {}
  <2>1. Len(ss) \in Nat /\ T \subseteq 0..Len(ss)
    OBVIOUS
  <2> HIDE DEF T
  <2> QED  BY <2>1, <1>1, <1>2, NoLeastFailure
<1>4. \E f : Up(f, Len(ss))
  <2>1. Len(ss) \in 0..Len(ss)
    OBVIOUS
  <2> QED  BY <1>3, <2>1
<1> QED  BY <1>4 DEF Flats

LEMMA FlattenIs ==
    ASSUME NEW X, NEW ss \in Seq(Seq(X)), NEW f, Flats(f, ss, X), Len(ss) # 0
    PROVE  FlattenSeq(ss) = f[Len(ss)]
<1> DEFINE g == CHOOSE g : g = [i \in 1..Len(ss) |-> IF i = 1 THEN ss[i] ELSE g[i - 1] \o ss[i]]
<1>1. f = [i \in 1..Len(ss) |-> IF i = 1 THEN ss[i] ELSE f[i - 1] \o ss[i]]
  BY DEF Flats
<1>2. g = [i \in 1..Len(ss) |-> IF i = 1 THEN ss[i] ELSE g[i - 1] \o ss[i]]
  BY <1>1
<1>3. FlattenSeq(ss) = g[Len(ss)]
  BY DEF FlattenSeq
<1> HIDE DEF g
<1> DEFINE T == {n \in 0..Len(ss) : n # 0 /\ f[n] # g[n]}
<1>4. 0 \notin T
  OBVIOUS
<1>5. ASSUME NEW n \in T, n # 0 PROVE n - 1 \in T
  <2>1. n \in 1..Len(ss) /\ n - 1 \in 0..Len(ss) /\ f[n] # g[n]
    BY <1>5
  <2>2. /\ g[n] = IF n = 1 THEN ss[n] ELSE g[n - 1] \o ss[n]
        /\ f[n] = IF n = 1 THEN ss[n] ELSE f[n - 1] \o ss[n]
    BY <1>2, <2>1 DEF Flats
  <2>3. n # 1 /\ f[n - 1] # g[n - 1]
    BY <2>1, <2>2
  <2> QED  BY <2>1, <2>3
<1>6. T = {}
  <2>1. Len(ss) \in Nat /\ T \subseteq 0..Len(ss)
    OBVIOUS
  <2> HIDE DEF T
  <2> QED  BY <2>1, <1>4, <1>5, NoLeastFailure
<1>7. Len(ss) \in 0..Len(ss)
  OBVIOUS
<1> QED  BY <1>3, <1>6, <1>7

\* A prefix and the next longer one, flattened.
LEMMA FlattenStep ==
    ASSUME NEW X, NEW ss \in Seq(Seq(X))
    PROVE  /\ \A n \in 0..Len(ss) : FlattenSeq(First(ss, n)) \in Seq(X)
           /\ FlattenSeq(First(ss, 0)) = <<>>
           /\ \A n \in 1..Len(ss) :
                 FlattenSeq(First(ss, n)) = FlattenSeq(First(ss, n - 1)) \o ss[n]
           /\ First(ss, Len(ss)) = ss
<1>1. PICK f : Flats(f, ss, X)
  BY FlatsExist
<1>2. ASSUME NEW n \in 1..Len(ss)
      PROVE  FlattenSeq(First(ss, n)) = f[n]
  <2> DEFINE p == First(ss, n)
             g == [i \in 1..n |-> f[i]]
  <2>1. p \in Seq(Seq(X)) /\ Len(p) = n /\ \A i \in 1..n : p[i] = ss[i]
    BY DEF First
  <2>2. Flats(g, p, X)
    <3> HIDE DEF p
    <3>0. n \in Nat /\ \A i \in 1..n : i \in 1..Len(ss)
      OBVIOUS
    <3>a. \A i \in 1..n : f[i] \in Seq(X)
      BY <1>1, <3>0 DEF Flats
    <3>1. g \in [1..n -> Seq(X)]
      BY <3>a
    <3>2. ASSUME NEW i \in 1..n
          PROVE  g[i] = IF i = 1 THEN p[1] ELSE g[i - 1] \o p[i]
      <4>1. f[i] = IF i = 1 THEN ss[1] ELSE f[i - 1] \o ss[i]
        BY <1>1, <3>0 DEF Flats
      <4>2. p[i] = ss[i] /\ (i # 1 => i - 1 \in 1..n)
        BY <2>1
      <4> QED  BY <4>1, <4>2
    <3> QED  BY <3>1, <3>2, <2>1 DEF Flats
  <2>3. FlattenSeq(p) = g[n]
    <3> HIDE DEF p, g
    <3> QED  BY <2>1, <2>2, FlattenIs
  <2> QED  BY <2>3
<1>3. First(ss, Len(ss)) = ss
  BY DEF First
<1>4. FlattenSeq(First(ss, 0)) = <<>>
  BY DEF First, FlattenSeq
<1>5. \A n \in 1..Len(ss) : f[n] \in Seq(X)
  BY <1>1 DEF Flats
<1>6. ASSUME NEW n \in 1..Len(ss)
      PROVE  FlattenSeq(First(ss, n)) = FlattenSeq(First(ss, n - 1)) \o ss[n]
  <2>1. f[n] = IF n = 1 THEN ss[1] ELSE f[n - 1] \o ss[n]
    BY <1>1 DEF Flats
  <2>2. ss[n] \in Seq(X)
    OBVIOUS
  <2>3. CASE n = 1
    <3>1. FlattenSeq(First(ss, n - 1)) = <<>>
      BY <1>4, <2>3
    <3> QED  BY <1>2, <2>1, <2>2, <2>3, <3>1
  <2>4. CASE n # 1
    <3>1. n - 1 \in 1..Len(ss)
      BY <2>4
    <3> QED  BY <1>2, <2>1, <2>4, <3>1
  <2> QED  BY <2>3, <2>4
<1>7. ASSUME NEW n \in 0..Len(ss)
      PROVE  FlattenSeq(First(ss, n)) \in Seq(X)
  <2>1. CASE n = 0
    <3>1. <<>> \in Seq(X)
      OBVIOUS
    <3> QED  BY <1>4, <2>1, <3>1
  <2>2. CASE n # 0
    <3>1. n \in 1..Len(ss)
      BY <2>2
    <3> QED  BY <1>2, <1>5, <3>1
  <2> QED  BY <2>1, <2>2
<1> QED  BY <1>3, <1>4, <1>6, <1>7

LEMMA FlattenAppend ==
    ASSUME NEW X, NEW ss \in Seq(Seq(X)), NEW x \in Seq(X)
    PROVE  /\ FlattenSeq(Append(ss, x)) = FlattenSeq(ss) \o x
           /\ FlattenSeq(ss) \in Seq(X)
<1> DEFINE t == Append(ss, x)
<1>1. t \in Seq(Seq(X)) /\ Len(t) = Len(ss) + 1 /\ t[Len(ss) + 1] = x
  OBVIOUS
<1>2. First(t, Len(ss)) = ss
  BY DEF First
<1> HIDE DEF t
<1>3. First(t, Len(t)) = t /\ Len(t) \in 1..Len(t) /\ Len(t) - 1 = Len(ss)
  BY <1>1 DEF First
<1>4. FlattenSeq(First(t, Len(t))) = FlattenSeq(First(t, Len(t) - 1)) \o t[Len(t)]
  BY <1>1, <1>3, FlattenStep
<1>5. FlattenSeq(ss) \in Seq(X)
  <2>1. First(ss, Len(ss)) = ss /\ Len(ss) \in 0..Len(ss)
    BY DEF First
  <2> QED  BY <2>1, FlattenStep
<1> QED  BY <1>1, <1>2, <1>3, <1>4, <1>5 DEF t


-----------------------------------------------------------------------------
(* Queues.                                                                 *)

RowOf(S) == [rowid : Nat \ {0}, tx : S]

\* The rows of a queue of members of S: rowids grow.
Queue(S) ==
    {q \in Seq(RowOf(S)) : \A i, j \in 1..Len(q) : i < j => q[i].rowid < q[j].rowid}

LEMMA SameSeq ==
    ASSUME NEW X, NEW s \in Seq(X), NEW t \in Seq(X), Len(s) = Len(t),
           \A i \in 1..Len(s) : s[i] = t[i]
    PROVE  s = t
OBVIOUS

LEMMA Joined ==
    ASSUME NEW X, NEW s \in Seq(X), NEW t \in Seq(X)
    PROVE  /\ s \o t \in Seq(X) /\ Len(s \o t) = Len(s) + Len(t)
           /\ Len(s) \in Nat /\ Len(t) \in Nat
           /\ \A i \in 1..Len(s) : (s \o t)[i] = s[i]
           /\ \A i \in (Len(s) + 1)..(Len(s) + Len(t)) :
                 (s \o t)[i] = t[i - Len(s)] /\ i - Len(s) \in 1..Len(t)
OBVIOUS

\* The transactions of rows.
LEMMA TxsOfRows ==
    ASSUME NEW S, NEW q \in Seq(RowOf(S)), NEW n \in 0..Len(q)
    PROVE  /\ [i \in 1..n |-> q[i].tx] \in Seq(S)
           /\ Len([i \in 1..n |-> q[i].tx]) = n
           /\ \A i \in 1..n : [j \in 1..n |-> q[j].tx][i] = q[i].tx
           /\ \A i \in 1..Len(q) : q[i].tx \in S /\ q[i].rowid \in Nat \ {0}
           /\ Len(q) \in Nat /\ n \in Nat
<1>1. \A i \in 1..Len(q) : q[i] \in RowOf(S)
  OBVIOUS
<1>2. \A i \in 1..Len(q) : q[i].tx \in S /\ q[i].rowid \in Nat \ {0}
  BY <1>1 DEF RowOf
<1>3. n \in Nat /\ Len(q) \in Nat /\ \A i \in 1..n : i \in 1..Len(q)
  OBVIOUS
<1> QED  BY <1>2, <1>3

LEMMA TxsOfQueue ==
    ASSUME NEW S, NEW q \in Seq(RowOf(S))
    PROVE  /\ Queued(q) \in Seq(S)
           /\ Len(Queued(q)) = Len(q) /\ Len(q) \in Nat
           /\ \A i \in 1..Len(q) : Queued(q)[i] = q[i].tx
           /\ \A i \in 1..Len(q) : q[i].tx \in S /\ q[i].rowid \in Nat \ {0}
<1>1. Len(q) \in 0..Len(q)
  OBVIOUS
<1> QED  BY <1>1, TxsOfRows DEF Queued

LEMMA InsertedRows ==
    ASSUME NEW S, NEW q \in Queue(S), NEW rows \in Seq(S)
    PROVE  /\ InsertRows(q, rows) \in Queue(S)
           /\ Len(InsertRows(q, rows)) = Len(q) + Len(rows)
           /\ Queued(InsertRows(q, rows)) = Queued(q) \o rows
           /\ Queued(q) \in Seq(S)
<1> DEFINE next == NextRowId(q)
           new == [i \in 1..Len(rows) |-> [rowid |-> next + i - 1, tx |-> rows[i]]]
           t == InsertRows(q, rows)
<1>1. q \in Seq(RowOf(S))
  BY DEF Queue
<1>a. \A i, j \in 1..Len(q) : i < j => q[i].rowid < q[j].rowid
  BY DEF Queue
<1>b. /\ Queued(q) \in Seq(S) /\ Len(Queued(q)) = Len(q) /\ Len(q) \in Nat
      /\ \A i \in 1..Len(q) : Queued(q)[i] = q[i].tx
      /\ \A i \in 1..Len(q) : q[i].tx \in S /\ q[i].rowid \in Nat \ {0}
  BY <1>1, TxsOfQueue
<1>2. next \in Nat \ {0} /\ \A i \in 1..Len(q) : q[i].rowid < next
  <2>1. CASE q = <<>>
    BY <2>1 DEF NextRowId
  <2>2. CASE q # <<>>
    <3>1. Len(q) \in 1..Len(q)
      BY <1>1, <2>2
    <3>2. next = q[Len(q)].rowid + 1
      BY <2>2 DEF NextRowId, Last
    <3> HIDE DEF next
    <3>3. ASSUME NEW i \in 1..Len(q) PROVE q[i].rowid <= q[Len(q)].rowid
      <4>1. i = Len(q) \/ i < Len(q)
        BY <1>b
      <4>2. q[i].rowid \in Nat /\ q[Len(q)].rowid \in Nat
        BY <1>b, <3>1
      <4>3. i < Len(q) => q[i].rowid < q[Len(q)].rowid
        BY <1>a, <3>1
      <4> QED  BY <4>1, <4>2, <4>3
    <3> QED  BY <1>b, <3>1, <3>2, <3>3
  <2> QED  BY <2>1, <2>2
<1>4. t = q \o new
  BY DEF InsertRows
<1> HIDE DEF next
<1>3. /\ new \in Seq(RowOf(S)) /\ Len(new) = Len(rows) /\ Len(rows) \in Nat
      /\ \A i \in 1..Len(rows) : new[i].rowid = next + i - 1 /\ new[i].tx = rows[i]
  <2>1. \A i \in 1..Len(rows) : [rowid |-> next + i - 1, tx |-> rows[i]] \in RowOf(S)
    BY <1>2 DEF RowOf
  <2>2. Len(rows) \in Nat
    OBVIOUS
  <2> QED  BY <2>1, <2>2
<1> HIDE DEF t, new
<1>5. /\ t \in Seq(RowOf(S)) /\ Len(t) = Len(q) + Len(rows)
      /\ \A i \in 1..Len(q) : t[i] = q[i]
      /\ \A i \in (Len(q) + 1)..(Len(q) + Len(rows)) :
            t[i] = new[i - Len(q)] /\ i - Len(q) \in 1..Len(rows)
  <2>1. new \in Seq(RowOf(S)) /\ Len(new) = Len(rows)
    BY <1>3
  <2>2. /\ q \o new \in Seq(RowOf(S)) /\ Len(q \o new) = Len(q) + Len(new)
        /\ \A i \in 1..Len(q) : (q \o new)[i] = q[i]
        /\ \A i \in (Len(q) + 1)..(Len(q) + Len(new)) :
              (q \o new)[i] = new[i - Len(q)] /\ i - Len(q) \in 1..Len(new)
    BY <1>1, <2>1, Joined
  <2> QED  BY <1>4, <2>1, <2>2
<1>6. \A i \in (Len(q) + 1)..(Len(q) + Len(rows)) :
          t[i].rowid = next + (i - Len(q)) - 1 /\ t[i].tx = rows[i - Len(q)]
  BY <1>3, <1>5
<1>c. \A i \in 1..Len(t) : i \in Nat /\ t[i].rowid \in Nat
                            /\ (i \in 1..Len(q) \/ i \in (Len(q) + 1)..(Len(q) + Len(rows)))
  <2>1. \A i \in 1..Len(t) : t[i].rowid \in Nat
    BY <1>5, TxsOfQueue
  <2> QED  BY <2>1, <1>5, <1>b, <1>3
<1>7. ASSUME NEW i \in 1..Len(t), NEW j \in 1..Len(t), i < j
      PROVE  t[i].rowid < t[j].rowid
  <2>0. i \in Nat /\ j \in Nat /\ Len(q) \in Nat /\ Len(rows) \in Nat
    BY <1>c, <1>b, <1>3
  <2>1. CASE j \in 1..Len(q)
    <3>1. i \in 1..Len(q)
      BY <2>0, <2>1, <1>7
    <3>2. q[i].rowid < q[j].rowid
      BY <3>1, <2>1, <1>7, <1>a
    <3> QED  BY <1>5, <2>1, <3>1, <3>2
  <2>2. CASE i \in 1..Len(q) /\ j \in (Len(q) + 1)..(Len(q) + Len(rows))
    <3>1. t[i].rowid < next
      BY <2>2, <1>2, <1>5
    <3>2. t[j].rowid = next + (j - Len(q)) - 1
      BY <2>2, <1>6
    <3>3. t[i].rowid \in Nat /\ next \in Nat /\ j - Len(q) >= 1 /\ j - Len(q) \in Nat
      BY <2>0, <2>2, <1>c, <1>2
    <3> HIDE DEF next
    <3> QED  BY <3>1, <3>2, <3>3
  <2>3. CASE i \in (Len(q) + 1)..(Len(q) + Len(rows)) /\ j \in (Len(q) + 1)..(Len(q) + Len(rows))
    <3>1. t[i].rowid = next + (i - Len(q)) - 1 /\ t[j].rowid = next + (j - Len(q)) - 1
      BY <2>3, <1>6
    <3> QED  BY <2>0, <3>1, <1>2, <1>7
  <2>4. i \in (Len(q) + 1)..(Len(q) + Len(rows)) => j \in (Len(q) + 1)..(Len(q) + Len(rows))
    BY <2>0, <1>5, <1>7
  <2> QED  BY <1>c, <2>1, <2>2, <2>3, <2>4
<1>8. t \in Queue(S)
  BY <1>5, <1>7 DEF Queue
<1>10. Queued(t) = Queued(q) \o rows
  <2>1. /\ Queued(t) \in Seq(S) /\ Len(Queued(t)) = Len(q) + Len(rows)
        /\ \A i \in 1..Len(t) : Queued(t)[i] = t[i].tx
    BY <1>5, TxsOfQueue
  <2> DEFINE u == Queued(q) \o rows
  <2>2. /\ u \in Seq(S) /\ Len(u) = Len(q) + Len(rows)
        /\ \A i \in 1..Len(q) : u[i] = q[i].tx
        /\ \A i \in (Len(q) + 1)..(Len(q) + Len(rows)) : u[i] = rows[i - Len(q)]
    <3> DEFINE w == Queued(q)
    <3>1. w \in Seq(S) /\ Len(w) = Len(q) /\ \A i \in 1..Len(q) : w[i] = q[i].tx
      BY <1>b
    <3> HIDE DEF w
    <3>2. /\ w \o rows \in Seq(S) /\ Len(w \o rows) = Len(w) + Len(rows)
          /\ \A i \in 1..Len(w) : (w \o rows)[i] = w[i]
          /\ \A i \in (Len(w) + 1)..(Len(w) + Len(rows)) : (w \o rows)[i] = rows[i - Len(w)]
      BY <3>1, Joined
    <3>3. u = w \o rows
      BY DEF w
    <3> HIDE DEF u
    <3> QED  BY <3>1, <3>2, <3>3
  <2> HIDE DEF u
  <2>3. ASSUME NEW i \in 1..Len(t) PROVE Queued(t)[i] = u[i]
    <3>1. CASE i \in 1..Len(q)
      BY <2>1, <2>2, <3>1, <1>5
    <3>2. CASE i \in (Len(q) + 1)..(Len(q) + Len(rows))
      BY <2>1, <2>2, <3>2, <1>6
    <3> QED  BY <1>c, <3>1, <3>2
  <2>4. Queued(t) = u
    BY <2>1, <2>2, <2>3, <1>5, SameSeq
  <2> QED  BY <2>4 DEF u
<1> QED  BY <1>5, <1>8, <1>b, <1>10 DEF t

\* A queue without its first n rows.
LEMMA RestOfQueue ==
    ASSUME NEW S, NEW q \in Queue(S), NEW n \in 0..Len(q)
    PROVE  /\ WithoutFirst(q, n) \in Queue(S)
           /\ Len(WithoutFirst(q, n)) = Len(q) - n
           /\ \A i \in 1..(Len(q) - n) : WithoutFirst(q, n)[i] = q[i + n]
           /\ [i \in 1..n |-> q[i].tx] \in Seq(S)
           /\ Queued(q) = [i \in 1..n |-> q[i].tx] \o Queued(WithoutFirst(q, n))
<1> DEFINE t == WithoutFirst(q, n)
           head == [i \in 1..n |-> q[i].tx]
<1>1. q \in Seq(RowOf(S))
  BY DEF Queue
<1>a. \A i, j \in 1..Len(q) : i < j => q[i].rowid < q[j].rowid
  BY DEF Queue
<1>b. Len(q) \in Nat /\ n \in Nat /\ n <= Len(q)
  BY <1>1
<1>2. t \in Seq(RowOf(S)) /\ Len(t) = Len(q) - n /\ \A i \in 1..(Len(q) - n) : t[i] = q[i + n]
  BY <1>1 DEF WithoutFirst
<1> HIDE DEF t
<1>3. ASSUME NEW i \in 1..Len(t), NEW j \in 1..Len(t), i < j
      PROVE  t[i].rowid < t[j].rowid
  <2>1. i + n \in 1..Len(q) /\ j + n \in 1..Len(q) /\ i + n < j + n
    BY <1>b, <1>2, <1>3
  <2>2. q[i + n].rowid < q[j + n].rowid
    BY <1>a, <2>1
  <2> QED  BY <1>2, <2>2
<1>4. t \in Queue(S)
  BY <1>2, <1>3 DEF Queue
<1>5. head \in Seq(S) /\ Len(head) = n /\ \A i \in 1..n : head[i] = q[i].tx
  BY <1>1, TxsOfRows
<1>6. Queued(t) \in Seq(S) /\ Len(Queued(t)) = Len(q) - n
      /\ \A i \in 1..(Len(q) - n) : Queued(t)[i] = q[i + n].tx
  BY <1>2, TxsOfQueue
<1>7. Queued(q) \in Seq(S) /\ Len(Queued(q)) = Len(q)
      /\ \A i \in 1..Len(q) : Queued(q)[i] = q[i].tx
  BY <1>1, TxsOfQueue
<1> HIDE DEF head
<1> DEFINE u == head \o Queued(t)
<1>8. /\ u \in Seq(S) /\ Len(u) = Len(q)
      /\ \A i \in 1..n : u[i] = head[i]
      /\ \A i \in (n + 1)..Len(q) : u[i] = Queued(t)[i - n] /\ i - n \in 1..(Len(q) - n)
  <2>1. /\ u \in Seq(S) /\ Len(u) = n + (Len(q) - n)
        /\ \A i \in 1..n : u[i] = head[i]
        /\ \A i \in (n + 1)..(n + (Len(q) - n)) :
              u[i] = Queued(t)[i - n] /\ i - n \in 1..(Len(q) - n)
    BY <1>5, <1>6, Joined
  <2>2. n + (Len(q) - n) = Len(q)
    BY <1>b
  <2> QED  BY <2>1, <2>2
<1> HIDE DEF u
<1>9. ASSUME NEW i \in 1..Len(q) PROVE Queued(q)[i] = u[i]
  <2>0. i \in Nat /\ (i \in 1..n \/ i \in (n + 1)..Len(q))
    BY <1>b
  <2>1. CASE i \in 1..n
    BY <2>1, <1>5, <1>7, <1>8
  <2>2. CASE i \in (n + 1)..Len(q)
    <3>1. u[i] = Queued(t)[i - n] /\ i - n \in 1..(Len(q) - n)
      BY <2>2, <1>8
    <3>2. Queued(t)[i - n] = q[(i - n) + n].tx
      BY <3>1, <1>6
    <3>3. (i - n) + n = i
      BY <2>0, <1>b
    <3> QED  BY <1>7, <3>1, <3>2, <3>3
  <2> QED  BY <2>0, <2>1, <2>2
<1>10. Queued(q) = u
  BY <1>7, <1>8, <1>9, SameSeq
<1> QED  BY <1>2, <1>4, <1>5, <1>10 DEF t, u, head

\* Deleting up to the rowid of the n-th row that was read deletes n rows.
LEMMA DeletedRows ==
    ASSUME NEW S, NEW q \in Queue(S), NEW n \in 0..Len(FetchRows(q))
    PROVE  /\ DeleteRows(q, LastRowId(FetchRows(q), n)) = WithoutFirst(q, n)
           /\ n \in 0..Len(q)
           /\ \A i \in 1..Len(FetchRows(q)) : FetchRows(q)[i] = q[i] /\ i \in 1..Len(q)
           /\ Len(FetchRows(q)) \in Nat
           /\ Len(FetchRows(q)) <= Len(q)
           /\ FetchRows(q) \in Seq(RowOf(S))
           /\ (Len(q) # 0 => Len(FetchRows(q)) # 0)
<1> DEFINE rows == FetchRows(q)
           thr == LastRowId(rows, n)
           P == {i \in 1..Len(q) : q[i].rowid <= thr}
<1>0. FetchLimit \in Nat \ {0}
  BY FetchLimitAssumption
<1>1. q \in Seq(RowOf(S))
  BY DEF Queue
<1>a. \A i, j \in 1..Len(q) : i < j => q[i].rowid < q[j].rowid
  BY DEF Queue
<1>2. /\ rows \in Seq(RowOf(S)) /\ Len(rows) \in Nat /\ Len(rows) <= Len(q)
      /\ \A i \in 1..Len(rows) : rows[i] = q[i] /\ i \in 1..Len(q)
      /\ (Len(q) # 0 => Len(rows) # 0)
  BY <1>0, <1>1 DEF FetchRows
<1> HIDE DEF rows
<1>3. n \in 0..Len(q) /\ n \in Nat /\ Len(q) \in Nat
  BY <1>1, <1>2 DEF rows
<1>4. \A i \in 1..Len(q) : q[i].rowid \in Nat \ {0}
  BY <1>1, TxsOfQueue
<1>5. P = 1..n
  <2>1. CASE n = 0
    <3>1. thr = 0
      BY <2>1 DEF LastRowId
    <3> QED  BY <2>1, <3>1, <1>4
  <2>2. CASE n # 0
    <3>1. thr = q[n].rowid /\ n \in 1..Len(q)
      BY <2>2, <1>2, <1>3 DEF LastRowId, rows
    <3> HIDE DEF thr
    <3>2. ASSUME NEW i \in 1..Len(q) PROVE q[i].rowid <= thr <=> i <= n
      <4>0. q[i].rowid \in Nat /\ thr \in Nat /\ i \in Nat
        BY <3>1, <1>4
      <4>1. CASE i < n
        <5>1. q[i].rowid < q[n].rowid
          BY <4>1, <3>1, <1>a
        <5> QED  BY <5>1, <4>1, <4>0, <3>1, <1>3
      <4>2. CASE i = n
        BY <4>2, <3>1, <4>0
      <4>3. CASE i > n
        <5>1. q[n].rowid < q[i].rowid
          BY <4>3, <3>1, <1>a
        <5> QED  BY <5>1, <4>3, <4>0, <3>1, <1>3
      <4> QED  BY <4>0, <4>1, <4>2, <4>3, <1>3
    <3>3. P \subseteq 1..n
      BY <3>2, <1>3
    <3>4. 1..n \subseteq P
      BY <3>2, <1>3
    <3> QED  BY <3>3, <3>4
  <2> QED  BY <2>1, <2>2
<1>6. Cardinality(P) = n
  <2>1. Cardinality(1..n) = n
    BY <1>3, FS_Interval
  <2> QED  BY <1>5, <2>1
<1>7. DeleteRows(q, thr) = WithoutFirst(q, n)
  <2>1. DeleteRows(q, thr) = WithoutFirst(q, Cardinality(P))
    BY DEF DeleteRows
  <2> HIDE DEF P, thr
  <2> QED  BY <2>1, <1>6
<1> QED  BY <1>2, <1>3, <1>7 DEF rows

-----------------------------------------------------------------------------
(* Numbers and sizes.                                                      *)

LEMMA SizesAreNumbers ==
    /\ \A name \in TxNames \cup {"TxPay"} : TxSize[name] \in Nat \ {0}
    /\ {BlockMeasurement, MetaBlockMeasurement, SummaryBlockMeasurement, SCSigLen} \subseteq Nat
    /\ \A n \in Nat : SCSummaryTxMeasurement(n) \in Nat
<1>1. /\ SectorNumber \in Nat /\ ScalarLen \in Nat /\ PointLen \in Nat /\ PorStructSize \in Nat
      /\ FileNameLen \in Nat /\ SchnorrLen \in Nat /\ SCSigLen \in Nat
  BY WidthsAssumption
<1>2. SectorNumber * ScalarLen \in Nat
  BY <1>1
<1>3. MC_TxPay \in Nat \ {0}
  BY DEF MC_TxPay, TxPayIn, TxPayOut, outpoint, HashLen
<1>4. SC_TxPoR \in Nat \ {0}
  BY <1>1, <1>2 DEF SC_TxPoR, PorSize, ServAgrIdLen, RoundNumberLen
<1>5. SC_TxServAgrPropose \in Nat \ {0}
  BY <1>1, <1>2, <1>3 DEF SC_TxServAgrPropose, SC_ServAgr, Tau, CommitmentLen
<1>6. SC_TxServAgrCommit \in Nat \ {0} /\ MC_TxStoragePay \in Nat \ {0}
  BY <1>3 DEF SC_TxServAgrCommit, MC_TxStoragePay, CommitmentLen, ServAgrIdLen
<1>7. \A name \in TxNames \cup {"TxPay"} : TxSize[name] \in Nat \ {0}
  BY <1>3, <1>4, <1>5, <1>6 DEF TxNames, TxSize, TransactionMeasurement
<1>8. {BlockMeasurement, MetaBlockMeasurement, SummaryBlockMeasurement, SCSigLen} \subseteq Nat
  BY <1>1 DEF BlockMeasurement, MetaBlockMeasurement, SummaryBlockMeasurement, BlockHeader,
              TransactionList, SCBlockHeader, SCMetaBlockTransactionList,
              SCSummaryBlockTransactionList, RoundNumberLen, HashLen
<1>9. \A n \in Nat : SCSummaryTxMeasurement(n) \in Nat
  BY DEF SCSummaryTxMeasurement
<1> QED  BY <1>7, <1>8, <1>9

LEMMA TimesAreNumbers ==
    /\ MCRoundPerEpoch \in Nat \ {0} /\ ScPerMc \in Nat \ {0} /\ MCRoundDuration \in Nat
    /\ SCRoundPerEpoch \in Nat \ {0}
    /\ PercentageTxPay \in Nat /\ PayPercent \in Nat /\ PayPercent # 100 /\ PayTxsDrawn \in Nat
<1>1. /\ MCRoundPerEpoch \in Nat \ {0} /\ ScPerMc \in Nat \ {0} /\ MCRoundDuration \in Nat
  BY TimingAssumption
<1>2. SCRoundPerEpoch \in Nat \ {0}
  BY <1>1 DEF SCRoundPerEpoch
<1> QED  BY <1>1, <1>2, PaymentsAssumption

\* The number of agreements.
NumAgreements == conf.Nodes * conf.ContractsPerServer

LEMMA ConfIsSound ==
    ASSUME conf \in Experiments
    PROVE  /\ conf.SimState \in {1, 2}
           /\ conf.Nodes \in Nat \ {0} /\ conf.ContractsPerServer \in Nat \ {0}
           /\ conf.SimulationRounds \in Nat \ {0}
           /\ conf.StoragePaymentEpoch \in Nat /\ conf.MainChainBlockSize \in Nat
           /\ conf.SideChainBlockSize \in Nat
           /\ NumAgreements \in Nat \ {0} /\ Agreements = 1..NumAgreements
           /\ \A a \in Agreements : conf.FileSize[a] \in Nat /\ conf.ServAgrDuration[a] \in Nat
<1>1. /\ conf.SimState \in {1, 2}
      /\ {conf.Nodes, conf.ContractsPerServer, conf.SimulationRounds} \subseteq Nat \ {0}
      /\ {conf.StoragePaymentEpoch, conf.MainChainBlockSize, conf.SideChainBlockSize} \subseteq Nat
      /\ \A a \in 1..(conf.Nodes * conf.ContractsPerServer) :
            {conf.FileSize[a], conf.ServAgrDuration[a]} \subseteq Nat \ {0}
  BY ExperimentsAssumption
<1>2. NumAgreements \in Nat \ {0}
  BY <1>1 DEF NumAgreements
<1>3. Agreements = 1..NumAgreements
  BY DEF Agreements, NumAgreements
<1>4. \A a \in Agreements : conf.FileSize[a] \in Nat /\ conf.ServAgrDuration[a] \in Nat
  BY <1>1 DEF Agreements
<1> QED  BY <1>1, <1>2, <1>3, <1>4

\* A server's number is also the number of an agreement.
LEMMA ServersHaveAgreements ==
    ASSUME conf \in Experiments, NEW a \in Agreements
    PROVE  ServerOf(a) \in Servers /\ ServerOf(a) \in Agreements
<1> DEFINE n == conf.Nodes
           c == conf.ContractsPerServer
           q == (a - 1) \div c
<1>1. n \in Nat \ {0} /\ c \in Nat \ {0} /\ a \in 1..(n * c)
  BY ConfIsSound DEF Agreements
<1>2. ServerOf(a) = q + 1 /\ Servers = 1..n /\ Agreements = 1..(n * c)
  BY DEF ServerOf, Servers, Agreements
<1> HIDE DEF n, c
<1>3. q \in Nat /\ c * q <= a - 1
  BY <1>1
<1>4. n <= n * c
  BY <1>1
<1>5. q < n
  <2> SUFFICES ASSUME q >= n PROVE FALSE
    BY <1>1, <1>3
  <2> HIDE DEF q
  <2>1. PICK d \in Nat : q = n + d
    <3>1. q - n \in Nat /\ q = n + (q - n)
      BY <1>1, <1>3
    <3> QED  BY <3>1
  <2>2. c * q = n * c + c * d /\ c * d \in Nat
    BY <1>1, <2>1
  <2> QED  BY <1>1, <1>3, <2>2
<1> HIDE DEF q
<1>6. q + 1 \in 1..n /\ q + 1 \in 1..(n * c)
  BY <1>1, <1>3, <1>4, <1>5
<1> QED  BY <1>2, <1>6

LEMMA PrefixSizes ==
    ASSUME NEW S, NEW rows \in Seq(RowOf(S)), \A t \in S : t.size \in Int, NEW base \in Int
    PROVE  /\ \A n \in 0..Len(rows) : PrefixSize(rows, n, base) \in Int
           /\ PrefixSize(rows, 0, base) = base
           /\ Len(rows) # 0 => PrefixSize(rows, 1, base) = base + rows[1].tx.size
<1>0. \A i \in 1..Len(rows) : rows[i].tx.size \in Int
  BY TxsOfQueue
<1> DEFINE s == [i \in 1..Len(rows) |-> rows[i].tx.size]
<1>1. s \in Seq(Int) /\ Len(s) = Len(rows) /\ Len(rows) \in Nat
  BY <1>0
<1>2. ASSUME NEW n \in 0..Len(rows)
      PROVE  PrefixSize(rows, n, base) = base + Total(First(s, n))
  <2>1. First(s, n) = [i \in 1..n |-> rows[i].tx.size]
    BY DEF First
  <2> HIDE DEF s
  <2> QED  BY <2>1 DEF PrefixSize
<1>3. Len(rows) # 0 => s[1] = rows[1].tx.size /\ s[1] \in Int
  BY <1>0, <1>1
<1> HIDE DEF s
<1>4. \A n \in 0..Len(rows) : Total(First(s, n)) \in Int
  BY <1>1, TotalStep
<1>5. Total(First(s, 0)) = 0
  BY <1>1, TotalStep
<1>6. Len(rows) # 0 => Total(First(s, 1)) = s[1]
  <2> HAVE Len(rows) # 0
  <2>1. 1 \in 1..Len(s)
    BY <1>1
  <2>2. Total(First(s, 1)) = Total(First(s, 1 - 1)) + s[1]
    BY <2>1, <1>1, TotalStep
  <2> QED  BY <2>2, <1>3, <1>5
<1>7. 0 \in 0..Len(rows) /\ (Len(rows) # 0 => 1 \in 0..Len(rows))
  BY <1>1
<1>8. PrefixSize(rows, 0, base) = base
  BY <1>2, <1>5, <1>7
<1>9. Len(rows) # 0 => PrefixSize(rows, 1, base) = base + rows[1].tx.size
  BY <1>2, <1>3, <1>6, <1>7
<1> QED  BY <1>2, <1>4, <1>8, <1>9

LEMMA NumbersFitting ==
    ASSUME NEW S, NEW rows \in Seq(RowOf(S)), \A t \in S : t.size \in Int,
           NEW base \in Int, NEW share \in Int
    PROVE  /\ NumFitting(rows, base, share) \in 0..Len(rows)
           /\ (Len(rows) # 0 /\ base + rows[1].tx.size <= share /\ base <= share)
                 => NumFitting(rows, base, share) # 0
           /\ NumFitting(rows, base, share) # 0
                 => PrefixSize(rows, NumFitting(rows, base, share), base) <= share
<1>1. Len(rows) \in Nat
  OBVIOUS
<1>2. CASE base > share
  BY <1>1, <1>2 DEF NumFitting
<1>3. CASE ~(base > share)
  <2> DEFINE N == {n \in 0..Len(rows) : PrefixSize(rows, n, base) <= share}
  <2>1. 0 \in N
    BY <1>1, <1>3, PrefixSizes
  <2>2. Max(N) \in N /\ \A n \in N : n <= Max(N)
    <3>1. N \subseteq 0..Len(rows) /\ N # {}
      BY <2>1
    <3> HIDE DEF N
    <3> QED  BY <1>1, <3>1, MaxOfBounded
  <2>3. NumFitting(rows, base, share) = Max(N)
    BY <1>3 DEF NumFitting
  <2>4. Len(rows) # 0 /\ base + rows[1].tx.size <= share => 1 \in N
    BY <1>1, PrefixSizes
  <2>5. Max(N) \in 0..Len(rows)
    BY <2>2
  <2>6. 1 \in N => Max(N) # 0
    BY <2>2
  <2>7. PrefixSize(rows, Max(N), base) <= share
    BY <2>2
  <2> HIDE DEF N
  <2> QED  BY <2>3, <2>4, <2>5, <2>6, <2>7
<1> QED  BY <1>2, <1>3

LEMMA NumbersOfPayments ==
    ASSUME NEW S, NEW rows \in Seq(RowOf(S)), \A t \in S : t.size \in Int, conf \in Experiments
    PROVE  /\ NumPayments(rows) \in 0..Len(rows)
           /\ (/\ Len(rows) # 0
               /\ 100 * rows[1].tx.size
                     <= PercentageTxPay * (conf.MainChainBlockSize - BlockMeasurement)
               /\ 0 <= PercentageTxPay * (conf.MainChainBlockSize - BlockMeasurement))
                 => NumPayments(rows) # 0
<1> DEFINE share == PercentageTxPay * (conf.MainChainBlockSize - BlockMeasurement)
<1>1. Len(rows) \in Nat
  OBVIOUS
<1>s. share \in Int
  <2>1. conf.MainChainBlockSize \in Nat
    BY ConfIsSound
  <2>2. BlockMeasurement \in Nat
    BY SizesAreNumbers
  <2>3. PercentageTxPay \in Nat
    BY TimesAreNumbers
  <2> QED  BY <2>1, <2>2, <2>3
<1> HIDE DEF share
<1>2. CASE share < 0
  BY <1>1, <1>2, <1>s DEF NumPayments, share
<1>3. CASE ~(share < 0)
  <2> DEFINE N == {n \in 0..Len(rows) : 100 * PrefixSize(rows, n, 0) <= share}
  <2>1. 0 \in N
    BY <1>1, <1>3, <1>s, PrefixSizes
  <2>2. Max(N) \in N /\ \A n \in N : n <= Max(N)
    <3>1. N \subseteq 0..Len(rows) /\ N # {}
      BY <2>1
    <3> HIDE DEF N
    <3> QED  BY <1>1, <3>1, MaxOfBounded
  <2>3. NumPayments(rows) = Max(N)
    BY <1>3 DEF NumPayments, share
  <2>4. Len(rows) # 0 /\ 100 * rows[1].tx.size <= share => 1 \in N
    <3>1. Len(rows) # 0 => PrefixSize(rows, 1, 0) = 0 + rows[1].tx.size /\ rows[1].tx.size \in Int
      <4> HAVE Len(rows) # 0
      <4>1. 1 \in 1..Len(rows)
        BY <1>1
      <4>2. rows[1].tx \in S
        BY <4>1, TxsOfQueue
      <4>3. PrefixSize(rows, 1, 0) = 0 + rows[1].tx.size
        BY PrefixSizes
      <4> QED  BY <4>2, <4>3
    <3>2. Len(rows) # 0 => PrefixSize(rows, 1, 0) = rows[1].tx.size
      BY <3>1
    <3> QED  BY <1>1, <3>2
  <2>5. Max(N) \in 0..Len(rows)
    BY <2>2
  <2>6. 1 \in N => Max(N) # 0
    BY <2>2
  <2> HIDE DEF N
  <2> QED  BY <2>3, <2>4, <2>5, <2>6 DEF share
<1> QED  BY <1>2, <1>3

-----------------------------------------------------------------------------
(* What the tables hold.                                                   *)

TxSizes == {TxSize[name] : name \in TxNames}
TxSet == [name : TxNames, size : TxSizes, agr : Agreements, issued : Nat]
PaySet == [size : {TxSize["TxPay"]}, issued : Nat]
PoRSet == [agr : Agreements, size : {TxSize["TxPor"]}, issued : Nat, epoch : Int]
SyncSet == [size : Nat, por : Int, issued : Nat]
BlockSet == [txs : Seq(TxSet), pays : Nat, syncs : Seq(SyncSet), size : Int]
MarketRow ==
    [ServerInfo : Nat, FileSize : Nat, ServAgrDuration : Nat, StartedMcRoundNumber : Int,
     Published : BOOLEAN, TxIssued : BOOLEAN]
StatsSet ==
    [BCSize : Int, RegPayTx : Int, PoRTx : Int, StorjPayTx : Int, CntPropTx : Int,
     CntCmtTx : Int, TotalNumTx : Int, FirstQueueWait : Int, SecondQueueWait : Int,
     SyncTx : Int, ScPorTx : Int]
RoundRow ==
    [RoundNumber : Int, Seed : Int, stats : StatsSet, RegSpaceFull : BOOLEAN,
     BlockSpaceFull : BOOLEAN]
SideRow ==
    [RoundNumber : Int, BCSize : Int, PoRTx : Int, Wait : Int, BlockSpaceFull : BOOLEAN,
     McRound : Int, QueueFill : Int]

\* The tables that the main chain's database consists of.
MainShape(db) ==
    db = [MarketMatching |-> db.MarketMatching, FirstQueue |-> db.FirstQueue,
          SecondQueue |-> db.SecondQueue, RoundTable |-> db.RoundTable,
          OverallEvaluation |-> db.OverallEvaluation, PowerTable |-> db.PowerTable,
          SyncTxQueue |-> db.SyncTxQueue]

SideShape(db) ==
    db = [FirstQueue |-> db.FirstQueue, RoundTable |-> db.RoundTable,
          OverallEvaluation |-> db.OverallEvaluation]

MainTyped(db) ==
    /\ MainShape(db)
    /\ db.MarketMatching \in [Agreements -> MarketRow]
    /\ db.FirstQueue \in Queue(TxSet)
    /\ db.SecondQueue \in Queue(PaySet)
    /\ db.SyncTxQueue \in Queue(SyncSet)
    /\ db.RoundTable \in Seq(RoundRow)

\* The rounds of a table, but for their marks.
SameRounds(t, u) ==
    /\ u \in Seq(RoundRow) /\ Len(u) = Len(t)
    /\ \A i \in 1..Len(t) : /\ u[i].RoundNumber = t[i].RoundNumber
                            /\ u[i].Seed = t[i].Seed
                            /\ u[i].stats = t[i].stats

LEMMA SizesOfTxs ==
    /\ \A t \in TxSet : t.size \in Int
    /\ \A t \in PaySet : t.size \in Int
    /\ \A t \in PoRSet : t.size \in Int
<1>1. \A s \in TxSizes : s \in Int
  BY SizesAreNumbers DEF TxSizes
<1>2. TxSize["TxPay"] \in Int
  BY SizesAreNumbers
<1>3. TxSize["TxPor"] \in Int
  <2>1. "TxPor" \in TxNames
    BY DEF TxNames
  <2> QED  BY <2>1, SizesAreNumbers
<1>4. \A t \in TxSet : t.size \in Int
  BY <1>1 DEF TxSet
<1>5. \A t \in PaySet : t.size \in Int
  BY <1>2 DEF PaySet
<1>6. \A t \in PoRSet : t.size \in Int
  BY <1>3 DEF PoRSet
<1> QED  BY <1>4, <1>5, <1>6

\* A table of rows of rounds with a mark set.
LEMMA MarkedRounds ==
    ASSUME NEW db, MainShape(db), db.RoundTable \in Seq(RoundRow),
           NEW column \in {"RegSpaceFull", "BlockSpaceFull"}, NEW round
    PROVE  LET d == AddToRoundTableBasedOnRoundNumber(db, column, round)
           IN  /\ MainShape(d)
               /\ d.MarketMatching = db.MarketMatching
               /\ d.FirstQueue = db.FirstQueue
               /\ d.SecondQueue = db.SecondQueue
               /\ d.OverallEvaluation = db.OverallEvaluation
               /\ d.SyncTxQueue = db.SyncTxQueue
               /\ SameRounds(db.RoundTable, d.RoundTable)
<1> DEFINE t == db.RoundTable
           d == AddToRoundTableBasedOnRoundNumber(db, column, round)
           u == [i \in 1..Len(t) |->
                    IF t[i].RoundNumber = round THEN [t[i] EXCEPT ![column] = TRUE] ELSE t[i]]
<1>1. d = [db EXCEPT !.RoundTable = u]
  BY DEF AddToRoundTableBasedOnRoundNumber, UpdateWhere
<1> HIDE DEF d
<1>2. SameRounds(t, u)
  <2>1. \A i \in 1..Len(t) : t[i] \in RoundRow
    OBVIOUS
  <2>2. ASSUME NEW r \in RoundRow
        PROVE  LET e == [r EXCEPT ![column] = TRUE]
               IN  e \in RoundRow /\ e.RoundNumber = r.RoundNumber /\ e.Seed = r.Seed
                   /\ e.stats = r.stats
    <3>1. CASE column = "RegSpaceFull"
      BY <3>1 DEF RoundRow
    <3>2. CASE column = "BlockSpaceFull"
      BY <3>2 DEF RoundRow
    <3> QED  BY <3>1, <3>2
  <2>3. \A i \in 1..Len(t) : /\ u[i] \in RoundRow
                             /\ u[i].RoundNumber = t[i].RoundNumber
                             /\ u[i].Seed = t[i].Seed
                             /\ u[i].stats = t[i].stats
    BY <2>1, <2>2
  <2>4. u \in Seq(RoundRow) /\ Len(u) = Len(t)
    <3>1. Len(t) \in Nat
      OBVIOUS
    <3> DEFINE e(i) == IF t[i].RoundNumber = round THEN [t[i] EXCEPT ![column] = TRUE] ELSE t[i]
    <3>2. \A i \in 1..Len(t) : e(i) \in RoundRow
      BY <2>1, <2>2
    <3>3. u = [i \in 1..Len(t) |-> e(i)]
      OBVIOUS
    <3> HIDE DEF e, u
    <3> QED  BY <3>1, <3>2, <3>3
  <2> HIDE DEF u, t
  <2> QED  BY <2>3, <2>4 DEF SameRounds
<1> HIDE DEF u
<1>3. /\ MainShape(d) /\ d.MarketMatching = db.MarketMatching /\ d.FirstQueue = db.FirstQueue
      /\ d.SecondQueue = db.SecondQueue /\ d.OverallEvaluation = db.OverallEvaluation
      /\ d.SyncTxQueue = db.SyncTxQueue /\ d.RoundTable = u
  BY <1>1 DEF MainShape
<1> QED  BY <1>2, <1>3 DEF d

LEMMA SameRoundsTrans ==
    ASSUME NEW t \in Seq(RoundRow)
    PROVE  /\ SameRounds(t, t)
           /\ \A u, v : SameRounds(t, u) /\ SameRounds(u, v) => SameRounds(t, v)
  BY DEF SameRounds

LEMMA WaitsAreNumbers ==
    ASSUME NEW S, NEW rows \in Seq(RowOf(S)), \A t \in S : t.issued \in Int, NEW round \in Int,
           NEW n \in 0..Len(rows)
    PROVE  WaitSum(rows, n, round) \in Int
<1> DEFINE s == [i \in 1..n |-> round - rows[i].tx.issued]
<1>1. n \in Nat /\ \A i \in 1..n : rows[i].tx \in S
  BY TxsOfRows
<1>2. \A i \in 1..n : round - rows[i].tx.issued \in Int
  BY <1>1
<1>3. s \in Seq(Int)
  BY <1>1, <1>2
<1>4. Total(s) \in Int
  <2> HIDE DEF s
  <2> QED  BY <1>3, TotalStep
<1> QED  BY <1>4 DEF WaitSum

\* TakePayments: the first payments leave the second queue.
LEMMA PaymentsTaken ==
    ASSUME NEW db, MainTyped(db), conf \in Experiments, NEW round \in Int
    PROVE  LET p == TakePayments(db, round)
           IN  /\ MainTyped(p.db)
               /\ p.db.MarketMatching = db.MarketMatching
               /\ p.db.FirstQueue = db.FirstQueue
               /\ p.db.SyncTxQueue = db.SyncTxQueue
               /\ p.db.OverallEvaluation = db.OverallEvaluation
               /\ SameRounds(db.RoundTable, p.db.RoundTable)
               /\ p.num = NumPayments(FetchRows(db.SecondQueue))
               /\ p.num \in Nat
               /\ p.size \in Int /\ p.wait \in Int
               /\ (p.num = 0 => p.size = 0)
               /\ Len(p.db.SecondQueue) = Len(db.SecondQueue) - p.num
<1> DEFINE rows == FetchRows(db.SecondQueue)
           num == NumPayments(rows)
           full == IF num < Len(rows)
                   THEN AddToRoundTableBasedOnRoundNumber(db, "RegSpaceFull", round) ELSE db
           p == TakePayments(db, round)
           q == DeleteRows(db.SecondQueue, LastRowId(rows, num))
<1>1. /\ MainShape(db) /\ db.SecondQueue \in Queue(PaySet) /\ db.RoundTable \in Seq(RoundRow)
      /\ db.MarketMatching \in [Agreements -> MarketRow]
      /\ db.FirstQueue \in Queue(TxSet) /\ db.SyncTxQueue \in Queue(SyncSet)
  BY DEF MainTyped
<1>2. rows \in Seq(RowOf(PaySet))
  <2>1. 0 \in 0..Len(FetchRows(db.SecondQueue))
    <3>1. db.SecondQueue \in Seq(RowOf(PaySet))
      BY <1>1 DEF Queue
    <3>2. FetchRows(db.SecondQueue) \in Seq(RowOf(PaySet))
      BY <3>1, FetchLimitAssumption DEF FetchRows
    <3> QED  BY <3>2
  <2> QED  BY <1>1, <2>1, DeletedRows
<1>3. num \in 0..Len(rows)
  <2> HIDE DEF rows
  <2> QED  BY <1>2, SizesOfTxs, NumbersOfPayments
<1>4. /\ q = WithoutFirst(db.SecondQueue, num) /\ num \in 0..Len(db.SecondQueue)
  <2> HIDE DEF num
  <2> QED  BY <1>1, <1>3, DeletedRows
<1>5. q \in Queue(PaySet) /\ Len(q) = Len(db.SecondQueue) - num
  <2> HIDE DEF num, q
  <2> QED  BY <1>1, <1>4, RestOfQueue
<1>6. PrefixSize(rows, num, 0) \in Int /\ WaitSum(rows, num, round) \in Int
      /\ (num = 0 => PrefixSize(rows, num, 0) = 0)
  <2>1. \A t \in PaySet : t.issued \in Int
    BY DEF PaySet
  <2> HIDE DEF rows, num
  <2>2. PrefixSize(rows, num, 0) \in Int /\ (num = 0 => PrefixSize(rows, num, 0) = 0)
    BY <1>2, <1>3, SizesOfTxs, PrefixSizes
  <2>3. WaitSum(rows, num, round) \in Int
    BY <1>2, <1>3, <2>1, WaitsAreNumbers
  <2> QED  BY <2>2, <2>3
<1>7. /\ MainShape(full)
      /\ full.MarketMatching = db.MarketMatching
      /\ full.FirstQueue = db.FirstQueue
      /\ full.SecondQueue = db.SecondQueue
      /\ full.OverallEvaluation = db.OverallEvaluation
      /\ full.SyncTxQueue = db.SyncTxQueue
      /\ SameRounds(db.RoundTable, full.RoundTable)
  <2> HIDE DEF rows, num
  <2>1. CASE num < Len(rows)
    BY <1>1, <2>1, MarkedRounds
  <2>2. CASE ~(num < Len(rows))
    BY <1>1, <2>2, SameRoundsTrans
  <2> QED  BY <2>1, <2>2
<1> HIDE DEF full
<1>8. p = [db   |-> [full EXCEPT !.SecondQueue = DeleteRows(@, LastRowId(rows, num))],
           num  |-> num,
           size |-> PrefixSize(rows, num, 0),
           wait |-> WaitSum(rows, num, round)]
  BY DEF TakePayments, MainChainGetSecondQueue, MainChainDeleteFromSecondQueue, full
<1>9. p.db = [full EXCEPT !.SecondQueue = q]
  BY <1>7, <1>8
<1>a. p.num = num /\ p.size = PrefixSize(rows, num, 0) /\ p.wait = WaitSum(rows, num, round)
  BY <1>8
<1> HIDE DEF p, q, num, rows
<1>10. /\ MainShape(p.db) /\ p.db.SecondQueue = q
       /\ p.db.MarketMatching = db.MarketMatching
       /\ p.db.FirstQueue = db.FirstQueue
       /\ p.db.SyncTxQueue = db.SyncTxQueue
       /\ p.db.OverallEvaluation = db.OverallEvaluation
       /\ p.db.RoundTable = full.RoundTable
  BY <1>7, <1>9 DEF MainShape
<1>11. MainTyped(p.db) /\ SameRounds(db.RoundTable, p.db.RoundTable)
  BY <1>1, <1>5, <1>7, <1>10 DEF MainTyped, SameRounds
<1>12. num \in Nat
  BY <1>2, <1>3
<1> QED  BY <1>5, <1>6, <1>10, <1>11, <1>12, <1>a DEF p, num, rows

LEMMA MarketIsSeq ==
    ASSUME NEW m \in [Agreements -> MarketRow], conf \in Experiments
    PROVE  m \in Seq(MarketRow) /\ 1..Len(m) = Agreements
  BY ConfIsSound

\* The agreements m after the first n transactions of q have left the queue.
Started(row, round) == [row EXCEPT !.Published = TRUE, !.StartedMcRoundNumber = round]
CommittedMarket(m, q, n, round) ==
    [a \in Agreements |->
        IF \E i \in 1..n : q[i].tx.name = "TxServAgrCommit" /\ q[i].tx.agr = a
        THEN Started(m[a], round) ELSE m[a]]

FirstLeft(f, db, base, paysize, round) ==
    /\ MainTyped(f.db)
    /\ f.db.MarketMatching = CommittedMarket(db.MarketMatching, db.FirstQueue, f.num, round)
    /\ f.db.FirstQueue = WithoutFirst(db.FirstQueue, f.num)
    /\ f.db.SecondQueue = db.SecondQueue
    /\ f.db.SyncTxQueue = db.SyncTxQueue
    /\ f.db.OverallEvaluation = db.OverallEvaluation
    /\ SameRounds(db.RoundTable, f.db.RoundTable)
    /\ f.num = NumFitting(FetchRows(db.FirstQueue), base, otherTxsShare(paysize))
    /\ f.num \in 0..Len(db.FirstQueue) /\ f.num \in Nat
    /\ f.size \in Int /\ f.wait \in Int
    /\ f.num # 0 => f.size <= otherTxsShare(paysize)
    /\ f.rows = FetchRows(db.FirstQueue)
    /\ \A i \in 1..f.num : f.rows[i] = db.FirstQueue[i]

\* TakeFirst: the first transactions leave the first queue, and the commits
\* among them publish their agreements.
LEMMA FirstTaken ==
    ASSUME NEW db, MainTyped(db), conf \in Experiments, NEW round \in Int,
           NEW base \in Int, NEW paysize \in Int
    PROVE  FirstLeft(TakeFirst(db, base, paysize, round), db, base, paysize, round)
<1> DEFINE m == db.MarketMatching
           rows == FetchRows(db.FirstQueue)
           num == NumFitting(rows, base, otherTxsShare(paysize))
           ids == {rows[i].tx.agr : i \in {j \in 1..num : rows[j].tx.name = "TxServAgrCommit"}}
           mm == [a \in 1..Len(m) |-> IF a \in ids THEN Started(m[a], round) ELSE m[a]]
           left == Leaves(db, rows, num, round)
           full == IF num < Len(rows)
                   THEN AddToRoundTableBasedOnRoundNumber(left, "BlockSpaceFull", round) ELSE left
           f == TakeFirst(db, base, paysize, round)
           q == DeleteRows(db.FirstQueue, LastRowId(rows, num))
<1>1. /\ MainShape(db) /\ db.SecondQueue \in Queue(PaySet) /\ db.RoundTable \in Seq(RoundRow)
      /\ m \in [Agreements -> MarketRow]
      /\ db.FirstQueue \in Queue(TxSet) /\ db.SyncTxQueue \in Queue(SyncSet)
  BY DEF MainTyped
<1>2. rows \in Seq(RowOf(TxSet))
  <2>1. db.FirstQueue \in Seq(RowOf(TxSet))
    BY <1>1 DEF Queue
  <2> QED  BY <2>1, FetchLimitAssumption DEF FetchRows
<1>s. otherTxsShare(paysize) \in Int
  <2>1. conf.MainChainBlockSize \in Nat
    BY ConfIsSound
  <2>2. BlockMeasurement \in Nat
    BY SizesAreNumbers
  <2> QED  BY <2>1, <2>2 DEF otherTxsShare
<1>3. /\ num \in 0..Len(rows)
      /\ num # 0 => PrefixSize(rows, num, base) <= otherTxsShare(paysize)
  <2> HIDE DEF rows
  <2> QED  BY <1>2, <1>s, SizesOfTxs, NumbersFitting
<1>4. /\ q = WithoutFirst(db.FirstQueue, num) /\ num \in 0..Len(db.FirstQueue)
      /\ \A i \in 1..Len(rows) : rows[i] = db.FirstQueue[i]
  <2> HIDE DEF num
  <2> QED  BY <1>1, <1>3, DeletedRows
<1>5. q \in Queue(TxSet)
  <2> HIDE DEF num, q
  <2> QED  BY <1>1, <1>4, RestOfQueue
<1>6. PrefixSize(rows, num, base) \in Int /\ WaitSum(rows, num, round) \in Int
  <2>1. \A t \in TxSet : t.issued \in Int
    BY DEF TxSet
  <2> HIDE DEF rows, num
  <2>2. PrefixSize(rows, num, base) \in Int
    BY <1>2, <1>3, SizesOfTxs, PrefixSizes
  <2>3. WaitSum(rows, num, round) \in Int
    BY <1>2, <1>3, <2>1, WaitsAreNumbers
  <2> QED  BY <2>2, <2>3
<1>i. num \in Nat /\ \A i \in 1..num : rows[i] = db.FirstQueue[i]
  <2> HIDE DEF rows, num
  <2> QED  BY <1>2, <1>3, <1>4
<1>l. left = [db EXCEPT !.MarketMatching = mm]
  BY DEF Leaves, MainChainSetPublishedAndStartRoundOnServAgrId, Started
<1>m. mm = CommittedMarket(m, db.FirstQueue, num, round)
  <2>1. 1..Len(m) = Agreements
    BY <1>1, MarketIsSeq
  <2> HIDE DEF num, rows
  <2>2. \A a : a \in ids <=> \E i \in 1..num : /\ db.FirstQueue[i].tx.name = "TxServAgrCommit"
                                               /\ db.FirstQueue[i].tx.agr = a
    BY <1>i
  <2> HIDE DEF ids, m
  <2> QED  BY <2>1, <2>2 DEF CommittedMarket
<1>n. mm \in [Agreements -> MarketRow]
  <2>1. 1..Len(m) = Agreements
    BY <1>1, MarketIsSeq
  <2>2. \A a \in Agreements : m[a] \in MarketRow
    BY <1>1
  <2>3. \A r \in MarketRow : Started(r, round) \in MarketRow
    BY DEF MarketRow, Started
  <2> HIDE DEF ids, m
  <2> QED  BY <2>1, <2>2, <2>3
<1> HIDE DEF mm
<1>o. /\ MainShape(left) /\ left.MarketMatching = mm /\ left.FirstQueue = db.FirstQueue
      /\ left.SecondQueue = db.SecondQueue /\ left.OverallEvaluation = db.OverallEvaluation
      /\ left.SyncTxQueue = db.SyncTxQueue /\ left.RoundTable = db.RoundTable
  <2> HIDE DEF left
  <2> QED  BY <1>1, <1>l DEF MainShape
<1> HIDE DEF left
<1>7. /\ MainShape(full)
      /\ full.MarketMatching = mm
      /\ full.FirstQueue = db.FirstQueue
      /\ full.SecondQueue = db.SecondQueue
      /\ full.OverallEvaluation = db.OverallEvaluation
      /\ full.SyncTxQueue = db.SyncTxQueue
      /\ SameRounds(db.RoundTable, full.RoundTable)
  <2> HIDE DEF rows, num
  <2>1. CASE num < Len(rows)
    BY <1>1, <1>o, <2>1, MarkedRounds
  <2>2. CASE ~(num < Len(rows))
    BY <1>1, <1>o, <2>2, SameRoundsTrans
  <2> QED  BY <2>1, <2>2
<1> HIDE DEF full
<1>8. f = [db   |-> [full EXCEPT !.FirstQueue = DeleteRows(@, LastRowId(rows, num))],
           rows |-> rows,
           num  |-> num,
           size |-> PrefixSize(rows, num, base),
           wait |-> WaitSum(rows, num, round)]
  BY DEF TakeFirst, MainChainGetFirstQueue, MainChainDeleteFromFirstQueue, full, left
<1>9. f.db = [full EXCEPT !.FirstQueue = q]
  BY <1>7, <1>8
<1>a. f.num = num /\ f.size = PrefixSize(rows, num, base) /\ f.wait = WaitSum(rows, num, round)
      /\ f.rows = rows
  BY <1>8
<1> HIDE DEF f, q, num, rows
<1>10. /\ MainShape(f.db) /\ f.db.FirstQueue = q
       /\ f.db.MarketMatching = mm
       /\ f.db.SecondQueue = db.SecondQueue
       /\ f.db.SyncTxQueue = db.SyncTxQueue
       /\ f.db.OverallEvaluation = db.OverallEvaluation
       /\ f.db.RoundTable = full.RoundTable
  BY <1>7, <1>9 DEF MainShape
<1>11. MainTyped(f.db) /\ SameRounds(db.RoundTable, f.db.RoundTable)
  BY <1>1, <1>5, <1>7, <1>n, <1>10 DEF MainTyped, SameRounds
<1> QED  BY <1>3, <1>4, <1>6, <1>10, <1>11, <1>a, <1>i, <1>m DEF f, num, rows, FirstLeft

\* The statistics of a round filed: its rows change in nothing else.
LEMMA StatsFiled ==
    ASSUME NEW db, MainShape(db), db.RoundTable \in Seq(RoundRow), NEW stats \in StatsSet,
           NEW round \in Int
    PROVE  LET d == AddStatsToRoundTableBasedOnRoundNumber(db, stats, round)
               t == db.RoundTable
               u == d.RoundTable
           IN  /\ MainShape(d)
               /\ d.MarketMatching = db.MarketMatching
               /\ d.FirstQueue = db.FirstQueue
               /\ d.SecondQueue = db.SecondQueue
               /\ d.OverallEvaluation = db.OverallEvaluation
               /\ d.SyncTxQueue = db.SyncTxQueue
               /\ u \in Seq(RoundRow) /\ Len(u) = Len(t)
               /\ \A i \in 1..Len(t) :
                     /\ u[i].RoundNumber = t[i].RoundNumber
                     /\ u[i].Seed = t[i].Seed
                     /\ u[i].stats = IF t[i].RoundNumber = round THEN stats ELSE t[i].stats
<1> DEFINE t == db.RoundTable
           d == AddStatsToRoundTableBasedOnRoundNumber(db, stats, round)
           e(i) == IF t[i].RoundNumber = round THEN [t[i] EXCEPT !.stats = stats] ELSE t[i]
           u == [i \in 1..Len(t) |-> e(i)]
<1>1. d = [db EXCEPT !.RoundTable = u]
  BY DEF AddStatsToRoundTableBasedOnRoundNumber, UpdateWhere
<1> HIDE DEF d
<1>2. \A i \in 1..Len(t) :
          /\ e(i) \in RoundRow
          /\ e(i).RoundNumber = t[i].RoundNumber
          /\ e(i).Seed = t[i].Seed
          /\ e(i).stats = IF t[i].RoundNumber = round THEN stats ELSE t[i].stats
  <2>1. \A i \in 1..Len(t) : t[i] \in RoundRow
    OBVIOUS
  <2>2. \A r \in RoundRow : LET x == [r EXCEPT !.stats = stats]
                            IN  x \in RoundRow /\ x.RoundNumber = r.RoundNumber
                                /\ x.Seed = r.Seed /\ x.stats = stats
    BY DEF RoundRow
  <2> QED  BY <2>1, <2>2
<1>3. u \in Seq(RoundRow) /\ Len(u) = Len(t) /\ \A i \in 1..Len(t) : u[i] = e(i)
  <2>1. Len(t) \in Nat
    OBVIOUS
  <2> HIDE DEF e
  <2> QED  BY <1>2, <2>1
<1> HIDE DEF u
<1>4. /\ MainShape(d) /\ d.MarketMatching = db.MarketMatching /\ d.FirstQueue = db.FirstQueue
      /\ d.SecondQueue = db.SecondQueue /\ d.OverallEvaluation = db.OverallEvaluation
      /\ d.SyncTxQueue = db.SyncTxQueue /\ d.RoundTable = u
  BY <1>1 DEF MainShape
<1> HIDE DEF e
<1> QED  BY <1>2, <1>3, <1>4 DEF d

LEMMA CountOf ==
    ASSUME NEW n \in Nat, NEW P, P \subseteq 1..n
    PROVE  IsFiniteSet(P) /\ Cardinality(P) \in Nat /\ Cardinality(P) <= n
<1>1. IsFiniteSet(1..n) /\ Cardinality(1..n) = n
  BY FS_Interval
<1> QED  BY <1>1, FS_Subset, FS_CardinalityType

LEMMA SyncTotals ==
    ASSUME NEW syncs \in Seq(SyncSet)
    PROVE  /\ [i \in 1..Len(syncs) |-> syncs[i].por] \in Seq(Int)
           /\ Total([i \in 1..Len(syncs) |-> syncs[i].por]) \in Int
<1> DEFINE s == [i \in 1..Len(syncs) |-> syncs[i].por]
<1>1. \A i \in 1..Len(syncs) : syncs[i] \in SyncSet
  OBVIOUS
<1>2. \A i \in 1..Len(syncs) : syncs[i].por \in Int
  BY <1>1 DEF SyncSet
<1>3. s \in Seq(Int)
  BY <1>2
<1>4. Total(s) \in Int
  <2> HIDE DEF s
  <2> QED  BY <1>3, TotalStep
<1> QED  BY <1>3, <1>4

LEMMA StatsAreNumbers ==
    ASSUME NEW pay, NEW first, NEW syncs \in Seq(SyncSet),
           pay.num \in Nat, pay.size \in Int, pay.wait \in Int,
           first.num \in Nat, first.size \in Int, first.wait \in Int
    PROVE  BlockStats(pay, first, syncs) \in StatsSet
<1> DEFINE count(name) == CountName(first.rows, first.num, name)
<1>1. \A name : count(name) \in Int
  <2> TAKE name
  <2>1. {i \in 1..first.num : first.rows[i].tx.name = name} \subseteq 1..first.num
    OBVIOUS
  <2>2. Cardinality({i \in 1..first.num : first.rows[i].tx.name = name}) \in Nat
    BY <2>1, CountOf
  <2> QED  BY <2>2 DEF CountName
<1>2. Total([i \in 1..Len(syncs) |-> syncs[i].por]) \in Int
  BY SyncTotals
<1>3. BlockMeasurement \in Int /\ Len(syncs) \in Int
  BY SizesAreNumbers
<1>4. BlockStats(pay, first, syncs) =
        [BCSize |-> first.size + pay.size + BlockMeasurement,
         RegPayTx |-> pay.num,
         PoRTx |-> count("TxPor"),
         StorjPayTx |-> count("TxStoragePayment"),
         CntPropTx |-> count("TxServAgrPropose"),
         CntCmtTx |-> count("TxServAgrCommit"),
         TotalNumTx |-> first.num + pay.num + Len(syncs),
         FirstQueueWait |-> first.wait,
         SecondQueueWait |-> pay.wait,
         SyncTx |-> Len(syncs),
         ScPorTx |-> Total([i \in 1..Len(syncs) |-> syncs[i].por])]
  BY DEF BlockStats
<1> DEFINE total == Total([i \in 1..Len(syncs) |-> syncs[i].por])
           bytes == first.size + pay.size + BlockMeasurement
           txs == first.num + pay.num + Len(syncs)
<1>5. total \in Int /\ bytes \in Int /\ txs \in Int /\ Len(syncs) \in Int
  BY <1>2, <1>3
<1>6. /\ count("TxPor") \in Int /\ count("TxStoragePayment") \in Int
      /\ count("TxServAgrPropose") \in Int /\ count("TxServAgrCommit") \in Int
  <2> HIDE DEF count
  <2> QED  BY <1>1
<1> HIDE DEF count, total, bytes, txs
<1> QED  BY <1>4, <1>5, <1>6 DEF StatsSet, total, bytes, txs

\* The statistics of a block describe it.
LEMMA StatsDescribe ==
    ASSUME NEW pay, NEW first, NEW syncs \in Seq(SyncSet), NEW row, NEW b,
           pay.num \in Nat, first.num \in Nat,
           row.stats = BlockStats(pay, first, syncs),
           b = [txs |-> [i \in 1..first.num |-> first.rows[i].tx], pays |-> pay.num,
                syncs |-> syncs, size |-> first.size + pay.size + BlockMeasurement]
    PROVE  Describes(row, b)
<1> DEFINE txs == [i \in 1..first.num |-> first.rows[i].tx]
<1>1. Len(txs) = first.num
  OBVIOUS
<1>2. /\ b.txs = txs /\ b.pays = pay.num /\ b.syncs = syncs
      /\ b.size = first.size + pay.size + BlockMeasurement
  OBVIOUS
<1>3. /\ row.stats.BCSize = first.size + pay.size + BlockMeasurement
      /\ row.stats.RegPayTx = pay.num
      /\ row.stats.CntCmtTx = CountName(first.rows, first.num, "TxServAgrCommit")
      /\ row.stats.TotalNumTx = first.num + pay.num + Len(syncs)
      /\ row.stats.SyncTx = Len(syncs)
      /\ row.stats.ScPorTx = Total([i \in 1..Len(syncs) |-> syncs[i].por])
  BY DEF BlockStats
<1>4. CountName(first.rows, first.num, "TxServAgrCommit") =
         Cardinality({i \in 1..Len(txs) : txs[i].name = "TxServAgrCommit"})
  <2>1. {i \in 1..first.num : first.rows[i].tx.name = "TxServAgrCommit"} =
           {i \in 1..Len(txs) : txs[i].name = "TxServAgrCommit"}
    BY <1>1
  <2> QED  BY <2>1 DEF CountName
<1>5. first.num + pay.num + Len(syncs) = pay.num + Len(syncs) + Len(txs)
  <2>1. Len(syncs) \in Nat
    OBVIOUS
  <2> QED  BY <1>1, <2>1
<1>6. SumOver(b.syncs, LAMBDA t : t.por) = Total([i \in 1..Len(syncs) |-> syncs[i].por])
  BY <1>2 DEF SumOver
<1> HIDE DEF txs
<1> QED  BY <1>2, <1>3, <1>4, <1>5, <1>6 DEF Describes

\* A block that holds transactions of the first queue is not too large.
NotTooLarge(b) == b.size <= conf.MainChainBlockSize \/ b.txs = <<>>

\* A block is made from the first n transactions of the first queue q, and
\* the table t of rounds becomes u.
BlockFrom(b, q, n, t, u, round) ==
    /\ b \in BlockSet
    /\ NotTooLarge(b)
    /\ n \in 0..Len(q)
    /\ b.txs = [i \in 1..n |-> q[i].tx]
    /\ u \in Seq(RoundRow) /\ Len(u) = Len(t)
    /\ \A i \in 1..Len(t) :
          /\ u[i].RoundNumber = t[i].RoundNumber
          /\ u[i].Seed = t[i].Seed
          /\ IF t[i].RoundNumber = round THEN Describes(u[i], b) ELSE u[i].stats = t[i].stats

\* With this block the database db becomes d.
BlockFiled(d, b, n, db, t, round) ==
    /\ MainTyped(d)
    /\ d.MarketMatching = CommittedMarket(db.MarketMatching, db.FirstQueue, n, round)
    /\ d.FirstQueue = WithoutFirst(db.FirstQueue, n)
    /\ d.SecondQueue = db.SecondQueue
    /\ d.SyncTxQueue = db.SyncTxQueue
    /\ d.OverallEvaluation = db.OverallEvaluation
    /\ BlockFrom(b, db.FirstQueue, n, t, d.RoundTable, round)

LEMMA BlockFromParts ==
    ASSUME NEW db, MainTyped(db), conf \in Experiments, NEW round \in Int, NEW t \in Seq(RoundRow),
           NEW base \in Int, NEW syncs \in Seq(SyncSet), NEW pay, SameRounds(t, db.RoundTable),
           pay.num \in Nat, pay.size \in Int, pay.wait \in Int
    PROVE  LET first == TakeFirst(db, base, pay.size, round)
               d == AddStatsToRoundTableBasedOnRoundNumber(
                        first.db, BlockStats(pay, first, syncs), round)
               b == [txs |-> [i \in 1..first.num |-> first.rows[i].tx], pays |-> pay.num,
                     syncs |-> syncs, size |-> first.size + pay.size + BlockMeasurement]
           IN  BlockFiled(d, b, first.num, db, t, round)
<1> DEFINE first == TakeFirst(db, base, pay.size, round)
           stats == BlockStats(pay, first, syncs)
           d == AddStatsToRoundTableBasedOnRoundNumber(first.db, stats, round)
           txs == [i \in 1..first.num |-> first.rows[i].tx]
           b == [txs |-> txs, pays |-> pay.num,
                 syncs |-> syncs, size |-> first.size + pay.size + BlockMeasurement]
<1>1. /\ MainTyped(first.db)
      /\ first.db.MarketMatching =
            CommittedMarket(db.MarketMatching, db.FirstQueue, first.num, round)
      /\ first.db.FirstQueue = WithoutFirst(db.FirstQueue, first.num)
      /\ first.db.SecondQueue = db.SecondQueue
      /\ first.db.SyncTxQueue = db.SyncTxQueue
      /\ first.db.OverallEvaluation = db.OverallEvaluation
      /\ SameRounds(db.RoundTable, first.db.RoundTable)
      /\ first.num \in 0..Len(db.FirstQueue) /\ first.num \in Nat
      /\ first.size \in Int /\ first.wait \in Int
      /\ \A i \in 1..first.num : first.rows[i] = db.FirstQueue[i]
      /\ first.num # 0 => first.size <= otherTxsShare(pay.size)
  <2>1. FirstLeft(first, db, base, pay.size, round)
    BY FirstTaken
  <2> QED  BY <2>1 DEF FirstLeft
<1> HIDE DEF first
<1>2. stats \in StatsSet
  BY <1>1, StatsAreNumbers
<1>3. MainShape(first.db) /\ first.db.RoundTable \in Seq(RoundRow)
  BY <1>1 DEF MainTyped
<1>s. stats = BlockStats(pay, first, syncs)
  OBVIOUS
<1> HIDE DEF stats
<1> DEFINE v == first.db.RoundTable
           u == d.RoundTable
<1>4. /\ MainShape(d)
      /\ d.MarketMatching = first.db.MarketMatching
      /\ d.FirstQueue = first.db.FirstQueue
      /\ d.SecondQueue = first.db.SecondQueue
      /\ d.OverallEvaluation = first.db.OverallEvaluation
      /\ d.SyncTxQueue = first.db.SyncTxQueue
      /\ u \in Seq(RoundRow) /\ Len(u) = Len(v)
      /\ \A i \in 1..Len(v) :
            /\ u[i].RoundNumber = v[i].RoundNumber
            /\ u[i].Seed = v[i].Seed
            /\ u[i].stats = IF v[i].RoundNumber = round THEN stats ELSE v[i].stats
  <2> DEFINE left == first.db
  <2>1. MainShape(left) /\ left.RoundTable \in Seq(RoundRow)
    BY <1>3
  <2>2. d = AddStatsToRoundTableBasedOnRoundNumber(left, stats, round) /\ v = left.RoundTable
    OBVIOUS
  <2>3. left = first.db
    OBVIOUS
  <2> HIDE DEF left, d, v
  <2>4. QED
    BY <1>2, <2>1, <2>2, <2>3, StatsFiled
<1> HIDE DEF d
<1>5. MainTyped(d)
  BY <1>1, <1>4 DEF MainTyped
<1>6. txs = [i \in 1..first.num |-> db.FirstQueue[i].tx]
  BY <1>1
<1>7. db.FirstQueue \in Seq(RowOf(TxSet))
  BY DEF MainTyped, Queue
<1>8. txs \in Seq(TxSet)
  BY <1>1, <1>6, <1>7, TxsOfRows
<1> HIDE DEF txs
<1>9. b \in BlockSet
  <2>0. BlockMeasurement \in Int
    BY SizesAreNumbers
  <2>1. first.size + pay.size + BlockMeasurement \in Int
    BY <1>1, <2>0
  <2> QED  BY <1>8, <2>1 DEF BlockSet
<1>10. b.txs = txs /\ b.size = first.size + pay.size + BlockMeasurement
  OBVIOUS
<1>l. NotTooLarge(b)
  <2>b. BlockMeasurement \in Int
    BY SizesAreNumbers
  <2>c. conf.MainChainBlockSize \in Int
    BY ConfIsSound
  <2>1. BlockMeasurement \in Int /\ conf.MainChainBlockSize \in Int
    BY <2>b, <2>c
  <2>2. CASE first.num = 0
    <3>1. txs = <<>>
      BY <1>6, <2>2
    <3> QED  BY <1>10, <3>1 DEF NotTooLarge
  <2>3. CASE first.num # 0
    <3>1. first.size <= conf.MainChainBlockSize - BlockMeasurement - pay.size
      BY <1>1, <2>3 DEF otherTxsShare
    <3>2. first.size + pay.size + BlockMeasurement <= conf.MainChainBlockSize
      BY <1>1, <2>1, <3>1
    <3> QED  BY <1>10, <3>2 DEF NotTooLarge
  <2> QED  BY <2>2, <2>3
<1>11. SameRounds(t, v)
  BY <1>1, SameRoundsTrans
<1>12. \A i \in 1..Len(v) : v[i].RoundNumber = round => Describes(u[i], b)
  <2> TAKE i \in 1..Len(v)
  <2> HAVE v[i].RoundNumber = round
  <2>1. u[i].stats = BlockStats(pay, first, syncs)
    BY <1>4, <1>s
  <2>2. b = [txs |-> [j \in 1..first.num |-> first.rows[j].tx], pays |-> pay.num,
             syncs |-> syncs, size |-> first.size + pay.size + BlockMeasurement]
    BY DEF txs
  <2> HIDE DEF b, u
  <2> QED  BY <2>1, <2>2, <1>1, StatsDescribe
<1> HIDE DEF b, u, v
<1>13. /\ u \in Seq(RoundRow) /\ Len(u) = Len(t)
       /\ \A i \in 1..Len(t) :
             /\ u[i].RoundNumber = t[i].RoundNumber
             /\ u[i].Seed = t[i].Seed
             /\ IF t[i].RoundNumber = round THEN Describes(u[i], b) ELSE u[i].stats = t[i].stats
  BY <1>4, <1>11, <1>12 DEF SameRounds
<1>14. BlockFrom(b, db.FirstQueue, first.num, t, u, round)
  BY <1>1, <1>6, <1>9, <1>10, <1>13, <1>l DEF BlockFrom
<1>15. BlockFiled(d, b, first.num, db, t, round)
  BY <1>1, <1>4, <1>5, <1>14 DEF BlockFiled, u
<1> QED  BY <1>15 DEF first, d, b, txs, stats

\* updateMainChainBCTransactionQueueTake.
LEMMA BlockTaken ==
    ASSUME NEW db, MainTyped(db), conf \in Experiments, NEW round \in Int
    PROVE  LET t == TakenBlock(db, round)
               n == Len(t.block.txs)
           IN  /\ MainTyped(t.db)
               /\ t.db.MarketMatching =
                     CommittedMarket(db.MarketMatching, db.FirstQueue, n, round)
               /\ t.db.FirstQueue = WithoutFirst(db.FirstQueue, n)
               /\ BlockFrom(t.block, db.FirstQueue, n, db.RoundTable, t.db.RoundTable, round)
               /\ t.block.syncs = IF db.SyncTxQueue = <<>> THEN <<>>
                                  ELSE <<db.SyncTxQueue[1].tx>>
               /\ t.db.SyncTxQueue = IF db.SyncTxQueue = <<>> THEN <<>>
                                     ELSE WithoutFirst(db.SyncTxQueue, 1)
               /\ \E sums : /\ t.db.OverallEvaluation = Append(db.OverallEvaluation,
                                    [RoundNbr |-> round, sums |-> sums])
                            /\ sums.BCSize = GetSumMainChain(t.db, "BCSize")
<1> DEFINE t == TakenBlock(db, round)
           pay == TakePayments(db, round)
           sync == MainChainPopFromSyncTxQueue(pay.db)
           base == IF sync.tx = <<>> THEN 0 ELSE sync.tx[1].size
           first == TakeFirst(sync.db, base, pay.size, round)
           filed == AddStatsToRoundTableBasedOnRoundNumber(
                        first.db, BlockStats(pay, first, sync.tx), round)
           b == [txs |-> [i \in 1..first.num |-> first.rows[i].tx], pays |-> pay.num,
                 syncs |-> sync.tx, size |-> first.size + pay.size + BlockMeasurement]
<1>1. /\ MainTyped(pay.db)
      /\ pay.db.MarketMatching = db.MarketMatching
      /\ pay.db.FirstQueue = db.FirstQueue
      /\ pay.db.SyncTxQueue = db.SyncTxQueue
      /\ pay.db.OverallEvaluation = db.OverallEvaluation
      /\ SameRounds(db.RoundTable, pay.db.RoundTable)
      /\ pay.num \in Nat /\ pay.size \in Int /\ pay.wait \in Int
  BY PaymentsTaken
<1>2. t = [db |-> InsertIntoMainChainOverallEvaluationTable(filed, round, OverallSums(filed)),
           block |-> b]
  BY DEF TakenBlock
<1> HIDE DEF pay
<1> DEFINE q == db.SyncTxQueue
<1>3. q \in Queue(SyncSet) /\ q \in Seq(RowOf(SyncSet))
  BY DEF MainTyped, Queue
<1>4. /\ MainTyped(sync.db)
      /\ sync.db.MarketMatching = db.MarketMatching
      /\ sync.db.FirstQueue = db.FirstQueue
      /\ sync.db.OverallEvaluation = db.OverallEvaluation
      /\ sync.db.RoundTable = pay.db.RoundTable
      /\ sync.tx = IF q = <<>> THEN <<>> ELSE <<q[1].tx>>
      /\ sync.db.SyncTxQueue = IF q = <<>> THEN <<>> ELSE WithoutFirst(q, 1)
      /\ base \in Int
      /\ sync.tx \in Seq(SyncSet)
  <2>1. CASE q = <<>>
    <3>1. sync = [tx |-> <<>>, db |-> pay.db]
      BY <1>1, <2>1 DEF MainChainPopFromSyncTxQueue
    <3> QED  BY <1>1, <2>1, <3>1
  <2>2. CASE q # <<>>
    <3>1. sync = [tx |-> <<Head(q).tx>>, db |-> [pay.db EXCEPT !.SyncTxQueue = Tail(q)]]
      BY <1>1, <2>2 DEF MainChainPopFromSyncTxQueue, MainTyped, MainShape
    <3>2. Head(q) = q[1] /\ 1 \in 1..Len(q) /\ 1 \in 0..Len(q)
      BY <1>3, <2>2
    <3>3. Tail(q) = WithoutFirst(q, 1)
      <4> HIDE DEF q
      <4> QED  BY <1>3, <2>2 DEF WithoutFirst
    <3>4. WithoutFirst(q, 1) \in Queue(SyncSet)
      <4> HIDE DEF q
      <4> QED  BY <1>3, <3>2, RestOfQueue
    <3>5. q[1].tx \in SyncSet
      <4> HIDE DEF q
      <4> QED  BY <1>3, <3>2, TxsOfQueue
    <3>6. q[1].tx.size \in Int
      BY <3>5 DEF SyncSet
    <3> HIDE DEF sync, q
    <3>7. sync.tx = <<q[1].tx>> /\ sync.db = [pay.db EXCEPT !.SyncTxQueue = WithoutFirst(q, 1)]
      BY <3>1, <3>2, <3>3
    <3>8. sync.tx \in Seq(SyncSet) /\ base \in Int
      BY <3>5, <3>6, <3>7
    <3>9. /\ MainShape(sync.db)
          /\ sync.db.MarketMatching = pay.db.MarketMatching
          /\ sync.db.FirstQueue = pay.db.FirstQueue
          /\ sync.db.SecondQueue = pay.db.SecondQueue
          /\ sync.db.OverallEvaluation = pay.db.OverallEvaluation
          /\ sync.db.RoundTable = pay.db.RoundTable
          /\ sync.db.SyncTxQueue = WithoutFirst(q, 1)
      BY <1>1, <3>7 DEF MainTyped, MainShape
    <3>10. MainTyped(sync.db)
      BY <1>1, <3>4, <3>9 DEF MainTyped
    <3> QED  BY <1>1, <2>2, <3>7, <3>8, <3>9, <3>10
  <2> QED  BY <2>1, <2>2
<1> HIDE DEF sync, base, q
<1>5. db.RoundTable \in Seq(RoundRow) /\ SameRounds(db.RoundTable, sync.db.RoundTable)
  BY <1>1, <1>4 DEF MainTyped
<1>6. /\ MainTyped(filed)
      /\ filed.MarketMatching =
            CommittedMarket(db.MarketMatching, db.FirstQueue, first.num, round)
      /\ filed.FirstQueue = WithoutFirst(db.FirstQueue, first.num)
      /\ filed.SyncTxQueue = sync.db.SyncTxQueue
      /\ filed.OverallEvaluation = db.OverallEvaluation
      /\ BlockFrom(b, db.FirstQueue, first.num, db.RoundTable, filed.RoundTable, round)
  <2>1. BlockFiled(filed, b, first.num, sync.db, db.RoundTable, round)
    BY <1>1, <1>4, <1>5, BlockFromParts
  <2> HIDE DEF filed, b, first
  <2> QED  BY <1>4, <2>1 DEF BlockFiled
<1> HIDE DEF filed
<1>7. t.db = InsertIntoMainChainOverallEvaluationTable(filed, round, OverallSums(filed))
      /\ t.block = b
  BY <1>2
<1>8. b.syncs = sync.tx
  OBVIOUS
<1> HIDE DEF t, b, first
<1>9. t.db = [filed EXCEPT !.OverallEvaluation =
                 Append(@, [RoundNbr |-> round, sums |-> OverallSums(filed)])]
  BY <1>7 DEF InsertIntoMainChainOverallEvaluationTable
<1>10. /\ MainShape(t.db)
       /\ t.db.MarketMatching = filed.MarketMatching
       /\ t.db.FirstQueue = filed.FirstQueue
       /\ t.db.SecondQueue = filed.SecondQueue
       /\ t.db.SyncTxQueue = filed.SyncTxQueue
       /\ t.db.RoundTable = filed.RoundTable
       /\ t.db.OverallEvaluation = Append(filed.OverallEvaluation,
              [RoundNbr |-> round, sums |-> OverallSums(filed)])
  BY <1>6, <1>9 DEF MainTyped, MainShape
<1>11. MainTyped(t.db)
  BY <1>6, <1>10 DEF MainTyped
<1>12. OverallSums(filed).BCSize = GetSumMainChain(t.db, "BCSize")
  <2>1. OverallSums(filed).BCSize = GetSumMainChain(filed, "BCSize")
    BY DEF OverallSums, OverallColumns
  <2> QED  BY <1>10, <2>1 DEF GetSumMainChain
<1>13. first.num = Len(t.block.txs)
  <2>1. /\ b.txs = [i \in 1..first.num |-> db.FirstQueue[i].tx]
        /\ first.num \in 0..Len(db.FirstQueue)
    BY <1>6 DEF BlockFrom
  <2>2. db.FirstQueue \in Seq(RowOf(TxSet))
    BY DEF MainTyped, Queue
  <2>3. Len(b.txs) = first.num
    BY <2>1, <2>2, TxsOfRows
  <2> QED  BY <1>7, <2>3
<1> QED  BY <1>4, <1>6, <1>7, <1>8, <1>10, <1>11, <1>12, <1>13 DEF t, q

-----------------------------------------------------------------------------
(* The inductive invariant: types.                                         *)

\* The rows of the rounds have the numbers 0, 1, ...
Numbered(t) == Len(t) # 0 /\ \A i \in 1..Len(t) : t[i].RoundNumber = i - 1

SideTyped(db) ==
    /\ SideShape(db)
    /\ db.FirstQueue \in Queue(PoRSet)
    /\ db.RoundTable \in Seq(SideRow)

\* How many rows there are; the last one is prepared for the next round.
RowsPrepared ==
    LET t == mainchainDb.RoundTable
    IN  /\ mcPurge = 0 => /\ Len(t) = MCRoundNumber + (IF crashed THEN 2 ELSE 1)
                          /\ t[Len(t)].stats = NoStats
        /\ mcPurge # 0 => MCRoundNumber = conf.SimulationRounds + 1
        /\ mcPurge > 0 => Len(t) = mcPurge /\ mcPurge > conf.SimulationRounds
        /\ crashed => MCRoundNumber <= conf.SimulationRounds

LedgerTyped ==
    /\ conf \in Experiments
    /\ MCRoundNumber \in Nat \ {0} /\ MCRoundNumber <= conf.SimulationRounds + 1
    /\ SCRoundNumber \in 1..SCRoundPerEpoch
    /\ MainTyped(mainchainDb)
    /\ Numbered(mainchainDb.RoundTable)
    /\ RowsPrepared
    /\ SideTyped(sidechainDb)
    /\ SummPoRTxs \in [Agreements -> Nat]
    /\ crashed \in BOOLEAN
    /\ blocks \in Seq(BlockSet)
    /\ scBlocks \in Seq(Seq(PoRSet))
    /\ issued \in Seq(TxSet)
    /\ porIssued \in Nat
    /\ porPurged \in Nat
    /\ mcPurge \in Nat \cup {-1}
    /\ scPurge \in [state : {"idle", "running", "ended"}, next : Int, round : Int, header : Int]

\* The row prepared for a round.
NewRow(n, seed) ==
    [RoundNumber |-> n, Seed |-> seed, stats |-> NoStats,
     RegSpaceFull |-> FALSE, BlockSpaceFull |-> FALSE]

LEMMA RowAdded ==
    ASSUME NEW db, MainTyped(db), NEW n \in Int, NEW seed \in Int
    PROVE  LET d == InsertIntoMainChainRoundTable(db, n, seed)
           IN  /\ MainTyped(d)
               /\ d.MarketMatching = db.MarketMatching
               /\ d.FirstQueue = db.FirstQueue
               /\ d.SecondQueue = db.SecondQueue
               /\ d.SyncTxQueue = db.SyncTxQueue
               /\ d.OverallEvaluation = db.OverallEvaluation
               /\ d.RoundTable = Append(db.RoundTable, NewRow(n, seed))
               /\ d.RoundTable \in Seq(RoundRow)
<1> DEFINE d == InsertIntoMainChainRoundTable(db, n, seed)
           t == Append(db.RoundTable, NewRow(n, seed))
<1>1. MainShape(db) /\ db.RoundTable \in Seq(RoundRow)
  BY DEF MainTyped
<1>2. NewRow(n, seed) \in RoundRow
  BY DEF NewRow, RoundRow, NoStats, StatsSet
<1>3. t \in Seq(RoundRow)
  BY <1>1, <1>2
<1>4. d = [db EXCEPT !.RoundTable = t]
  BY <1>1 DEF InsertIntoMainChainRoundTable, NewRow, MainShape
<1> HIDE DEF d, t
<1>5. /\ MainShape(d) /\ d.MarketMatching = db.MarketMatching /\ d.FirstQueue = db.FirstQueue
      /\ d.SecondQueue = db.SecondQueue /\ d.OverallEvaluation = db.OverallEvaluation
      /\ d.SyncTxQueue = db.SyncTxQueue /\ d.RoundTable = t
  BY <1>1, <1>4 DEF MainShape
<1>6. MainTyped(d)
  BY <1>3, <1>5 DEF MainTyped
<1> QED  BY <1>3, <1>5, <1>6 DEF d, t

\* The row with the largest number is the last one.
LEMMA LastSeed ==
    ASSUME NEW db, db.RoundTable \in Seq(RoundRow), Numbered(db.RoundTable)
    PROVE  /\ MainChainGetLastRoundSeed(db) = db.RoundTable[Len(db.RoundTable)].Seed
           /\ MainChainGetLastRoundSeed(db) \in Int
<1> DEFINE t == db.RoundTable
           P(i) == i \in DOMAIN t /\ \A j \in DOMAIN t : t[j].RoundNumber <= t[i].RoundNumber
           last == CHOOSE i \in DOMAIN t : \A j \in DOMAIN t : t[j].RoundNumber <= t[i].RoundNumber
<1>1. /\ t \in Seq(RoundRow) /\ Len(t) \in Nat \ {0} /\ DOMAIN t = 1..Len(t)
      /\ \A i \in 1..Len(t) : t[i].RoundNumber = i - 1
  BY DEF Numbered
<1> HIDE DEF t
<1>2. Len(t) \in DOMAIN t /\ \A j \in DOMAIN t : t[j].RoundNumber <= t[Len(t)].RoundNumber
  BY <1>1
<1>3. last \in DOMAIN t /\ \A j \in DOMAIN t : t[j].RoundNumber <= t[last].RoundNumber
  BY <1>2
<1>4. MainChainGetLastRoundSeed(db) = t[last].Seed
  BY DEF MainChainGetLastRoundSeed, t
<1> HIDE DEF last
<1>5. last = Len(t)
  BY <1>1, <1>2, <1>3
<1>6. t[Len(t)] \in RoundRow
  BY <1>1
<1> QED  BY <1>4, <1>5, <1>6 DEF t, RoundRow

-----------------------------------------------------------------------------
(* Collecting transactions.                                                *)

LEMMA CollectedAreTxs ==
    ASSUME LedgerTyped
    PROVE  /\ \A a \in Agreements : CollectedTxs(a) \in Seq(TxSet)
           /\ \A a \in Agreements : CollectedPoRs(a) \in Seq(PoRSet)
           /\ \A name \in TxNames, a \in Agreements :
                 /\ Tx(name, a) \in TxSet
                 /\ Tx(name, a).name = name
                 /\ Tx(name, a).agr = a
<1>1. MCRoundNumber \in Nat /\ SCRoundNumber \in Nat
  BY TimesAreNumbers DEF LedgerTyped
<1>2. ASSUME NEW name \in TxNames, NEW a \in Agreements
      PROVE  Tx(name, a) \in TxSet /\ Tx(name, a).name = name /\ Tx(name, a).agr = a
  BY <1>1, <1>2 DEF Tx, TxSet, TxSizes
<1>3. ASSUME NEW a \in Agreements PROVE CollectedTxs(a) \in Seq(TxSet)
  <2>1. /\ Tx("TxServAgrPropose", a) \in TxSet /\ Tx("TxServAgrCommit", a) \in TxSet
        /\ Tx("TxStoragePayment", a) \in TxSet /\ Tx("TxPor", a) \in TxSet
    BY <1>2 DEF TxNames
  <2> QED  BY <2>1 DEF CollectedTxs
<1>4. IssuedScRound \in Nat
  <2>1. (SCRoundNumber - 1) % SCRoundPerEpoch \in Nat /\ SCRoundPerEpoch \in Nat
    BY <1>1, TimesAreNumbers
  <2> QED  BY <2>1 DEF IssuedScRound
<1>5. IssuedEpoch \in Int
  <2>1. (MCRoundNumber - 2) \div MCRoundPerEpoch \in Int
    BY <1>1, TimesAreNumbers
  <2> QED  BY <2>1 DEF IssuedEpoch
<1>6. ASSUME NEW a \in Agreements PROVE CollectedPoRs(a) \in Seq(PoRSet)
  <2>1. [agr |-> a, size |-> TxSize["TxPor"], issued |-> IssuedScRound, epoch |-> IssuedEpoch]
           \in PoRSet
    BY <1>4, <1>5 DEF PoRSet
  <2> QED  BY <2>1 DEF CollectedPoRs
<1> QED  BY <1>2, <1>3, <1>6

LEMMA NewAreTxs ==
    ASSUME LedgerTyped
    PROVE  /\ [a \in Agreements |-> CollectedTxs(a)] \in Seq(Seq(TxSet))
           /\ [a \in Agreements |-> CollectedPoRs(a)] \in Seq(Seq(PoRSet))
           /\ Len([a \in Agreements |-> CollectedTxs(a)]) = NumAgreements
           /\ Len([a \in Agreements |-> CollectedPoRs(a)]) = NumAgreements
           /\ NewTxs \in Seq(TxSet)
           /\ NewPoRs \in Seq(PoRSet)
           /\ NewPayments \in Seq(PaySet)
<1>1. Agreements = 1..NumAgreements /\ NumAgreements \in Nat
  BY ConfIsSound DEF LedgerTyped
<1> DEFINE ss == [a \in Agreements |-> CollectedTxs(a)]
           pp == [a \in Agreements |-> CollectedPoRs(a)]
<1>2. ss \in Seq(Seq(TxSet)) /\ Len(ss) = NumAgreements
  BY <1>1, CollectedAreTxs
<1>3. pp \in Seq(Seq(PoRSet)) /\ Len(pp) = NumAgreements
  BY <1>1, CollectedAreTxs
<1>4. NewTxs = FlattenSeq(ss) /\ NewPoRs = FlattenSeq(pp)
  BY DEF NewTxs, NewPoRs
<1> HIDE DEF ss, pp
<1>5. FlattenSeq(ss) \in Seq(TxSet)
  <2>1. <<>> \in Seq(TxSet)
    OBVIOUS
  <2> QED  BY <1>2, <2>1, FlattenAppend
<1>6. FlattenSeq(pp) \in Seq(PoRSet)
  <2>1. <<>> \in Seq(PoRSet)
    OBVIOUS
  <2> QED  BY <1>3, <2>1, FlattenAppend
<1>7. NumberOfRegPay \in Nat
  <2>1. Len(NewTxs) \in Nat /\ Len(NewPoRs) \in Nat
    BY <1>4, <1>5, <1>6
  <2> DEFINE k == Len(NewTxs) + Len(NewPoRs)
  <2>2. k \in Nat
    BY <2>1
  <2> HIDE DEF k
  <2>3. PayPercent \in Nat /\ PayPercent # 100 /\ PayTxsDrawn \in Nat
    BY TimesAreNumbers
  <2>4. CASE PayPercent < 100
    <3>1. 100 - PayPercent \in Nat \ {0} /\ PayPercent * k \in Nat
      BY <2>2, <2>3, <2>4
    <3>2. (PayPercent * k) \div (100 - PayPercent) \in Nat
      BY <3>1
    <3> QED  BY <2>3, <3>2 DEF NumberOfRegPay, k
  <2>5. CASE ~(PayPercent < 100)
    <3>1. PayPercent > 100
      BY <2>3, <2>5
    <3> QED  BY <2>3, <3>1 DEF NumberOfRegPay
  <2> QED  BY <2>4, <2>5
<1>8. NewPayments \in Seq(PaySet)
  <2>1. [size |-> TxSize["TxPay"], issued |-> MCRoundNumber] \in PaySet
    BY DEF PaySet, LedgerTyped
  <2> QED  BY <1>7, <2>1 DEF NewPayments
<1> QED  BY <1>2, <1>3, <1>4, <1>5, <1>6, <1>8 DEF ss, pp

\* The flags of an agreement's row after its transactions were issued.
AfterCollect(row) ==
    IF Expires(row) THEN [row EXCEPT !.Published = FALSE, !.TxIssued = FALSE]
    ELSE IF Inactive(row) THEN [row EXCEPT !.TxIssued = TRUE]
    ELSE row

\* A statement that updates the rows of some agreements.
LEMMA MarketUpdated ==
    ASSUME NEW db, MainTyped(db), NEW m \in [Agreements -> MarketRow],
           NEW d, d = [db EXCEPT !.MarketMatching = m]
    PROVE  /\ MainTyped(d)
           /\ d.MarketMatching = m
           /\ d.FirstQueue = db.FirstQueue
           /\ d.SecondQueue = db.SecondQueue
           /\ d.SyncTxQueue = db.SyncTxQueue
           /\ d.OverallEvaluation = db.OverallEvaluation
           /\ d.RoundTable = db.RoundTable
<1>1. MainShape(db)
  BY DEF MainTyped
<1>2. /\ MainShape(d) /\ d.MarketMatching = m /\ d.FirstQueue = db.FirstQueue
      /\ d.SecondQueue = db.SecondQueue /\ d.OverallEvaluation = db.OverallEvaluation
      /\ d.SyncTxQueue = db.SyncTxQueue /\ d.RoundTable = db.RoundTable
  BY <1>1 DEF MainShape
<1>3. MainTyped(d)
  BY <1>2 DEF MainTyped
<1> QED  BY <1>2, <1>3

LEMMA FlagsCollected ==
    ASSUME NEW db, MainTyped(db), conf \in Experiments, db.MarketMatching = Market
    PROVE  LET d == CollectedFlags(db)
           IN  /\ MainTyped(d)
               /\ d.MarketMatching = [a \in Agreements |-> AfterCollect(Market[a])]
               /\ d.FirstQueue = db.FirstQueue
               /\ d.SecondQueue = db.SecondQueue
               /\ d.SyncTxQueue = db.SyncTxQueue
               /\ d.OverallEvaluation = db.OverallEvaluation
               /\ d.RoundTable = db.RoundTable
<1> DEFINE X == {a \in Agreements : Expires(Market[a])}
           I == {a \in Agreements : Inactive(Market[a])}
           m == Market
           m1 == [a \in Agreements |-> IF a \in X THEN [m[a] EXCEPT !.Published = FALSE] ELSE m[a]]
           m2 == [a \in Agreements |-> IF a \in X THEN [m1[a] EXCEPT !.TxIssued = FALSE] ELSE m1[a]]
           m3 == [a \in Agreements |-> IF a \in I THEN [m2[a] EXCEPT !.TxIssued = TRUE] ELSE m2[a]]
           d1 == MainChainSetPublished(db, X, FALSE)
           d2 == MainChainSetTxIssued(d1, X, FALSE)
           d3 == MainChainSetTxIssued(d2, I, TRUE)
<1>1. m \in [Agreements -> MarketRow]
  BY DEF MainTyped
<1>2. \A r \in MarketRow, v \in BOOLEAN :
         [r EXCEPT !.Published = v] \in MarketRow /\ [r EXCEPT !.TxIssued = v] \in MarketRow
  BY DEF MarketRow
<1> HIDE DEF X, I, m
<1>3. m1 \in [Agreements -> MarketRow]
  BY <1>1, <1>2
<1>4. m2 \in [Agreements -> MarketRow]
  <2> HIDE DEF m1
  <2> QED  BY <1>2, <1>3
<1>5. m3 \in [Agreements -> MarketRow]
  <2> HIDE DEF m2
  <2> QED  BY <1>2, <1>4
<1>6. /\ MainTyped(d1) /\ d1.MarketMatching = m1
      /\ d1.FirstQueue = db.FirstQueue /\ d1.SecondQueue = db.SecondQueue
      /\ d1.SyncTxQueue = db.SyncTxQueue /\ d1.OverallEvaluation = db.OverallEvaluation
      /\ d1.RoundTable = db.RoundTable
  <2>1. db.MarketMatching = m /\ MainShape(db)
    BY DEF m, MainTyped
  <2>2. 1..Len(m) = Agreements
    BY <1>1, MarketIsSeq
  <2>3. d1 = [db EXCEPT !.MarketMatching = m1]
    BY <2>1, <2>2 DEF MainChainSetPublished, MainShape
  <2> HIDE DEF d1, m1
  <2> QED  BY <1>3, <2>3, MarketUpdated
<1> HIDE DEF d1, m1
<1>7. /\ MainTyped(d2) /\ d2.MarketMatching = m2
      /\ d2.FirstQueue = d1.FirstQueue /\ d2.SecondQueue = d1.SecondQueue
      /\ d2.SyncTxQueue = d1.SyncTxQueue /\ d2.OverallEvaluation = d1.OverallEvaluation
      /\ d2.RoundTable = d1.RoundTable
  <2>1. MainShape(d1)
    BY <1>6 DEF MainTyped
  <2>2. 1..Len(m1) = Agreements
    BY <1>3, MarketIsSeq
  <2>3. d2 = [d1 EXCEPT !.MarketMatching = m2]
    BY <1>6, <2>1, <2>2 DEF MainChainSetTxIssued, MainShape
  <2> HIDE DEF d2, m2
  <2> QED  BY <1>4, <1>6, <2>3, MarketUpdated
<1> HIDE DEF d2, m2
<1>8. /\ MainTyped(d3) /\ d3.MarketMatching = m3
      /\ d3.FirstQueue = d2.FirstQueue /\ d3.SecondQueue = d2.SecondQueue
      /\ d3.SyncTxQueue = d2.SyncTxQueue /\ d3.OverallEvaluation = d2.OverallEvaluation
      /\ d3.RoundTable = d2.RoundTable
  <2>1. MainShape(d2)
    BY <1>7 DEF MainTyped
  <2>2. 1..Len(m2) = Agreements
    BY <1>4, MarketIsSeq
  <2>3. d3 = [d2 EXCEPT !.MarketMatching = m3]
    BY <1>7, <2>1, <2>2 DEF MainChainSetTxIssued, MainShape
  <2> HIDE DEF d3, m3
  <2> QED  BY <1>5, <1>7, <2>3, MarketUpdated
<1>9. m3 = [a \in Agreements |-> AfterCollect(m[a])]
  <2>1. ASSUME NEW a \in Agreements PROVE m3[a] = AfterCollect(m[a])
    <3>1. m[a] \in MarketRow
      BY <1>1
    <3>2. (a \in X <=> Expires(m[a])) /\ (a \in I <=> Inactive(m[a]))
      BY DEF X, I, m
    <3>3. m1[a] = IF a \in X THEN [m[a] EXCEPT !.Published = FALSE] ELSE m[a]
      BY DEF m1
    <3>4. m2[a] = IF a \in X THEN [m1[a] EXCEPT !.TxIssued = FALSE] ELSE m1[a]
      BY DEF m2
    <3>5. Expires(m[a]) => ~Inactive(m[a])
      BY DEF Expires, Inactive
    <3>6. [[m[a] EXCEPT !.Published = FALSE] EXCEPT !.TxIssued = FALSE] =
             [m[a] EXCEPT !.Published = FALSE, !.TxIssued = FALSE]
      BY <3>1 DEF MarketRow
    <3> QED  BY <3>2, <3>3, <3>4, <3>5, <3>6 DEF AfterCollect
  <2> QED  BY <2>1
<1>10. CollectedFlags(db) = d3
  BY DEF CollectedFlags, d2, d1, X, I
<1> HIDE DEF d3, m3
<1> QED  BY <1>6, <1>7, <1>8, <1>9, <1>10 DEF m

\* The database before a round's transactions are collected, and after.
NextRow == NewRow(MCRoundNumber + 1, MainChainGetLastRoundSeed(mainchainDb) + 1)

LEMMA RoundPrepared ==
    ASSUME LedgerTyped
    PROVE  LET d == PoweredDb
           IN  /\ MainTyped(d)
               /\ d.MarketMatching = Market
               /\ d.FirstQueue = mainchainDb.FirstQueue
               /\ d.SecondQueue = mainchainDb.SecondQueue
               /\ d.SyncTxQueue = mainchainDb.SyncTxQueue
               /\ d.OverallEvaluation = mainchainDb.OverallEvaluation
               /\ d.RoundTable = Append(mainchainDb.RoundTable, NextRow)
               /\ d.RoundTable \in Seq(RoundRow)
<1> DEFINE n == MCRoundNumber + 1
           seed == MainChainGetLastRoundSeed(mainchainDb) + 1
           e == InsertIntoMainChainRoundTable(mainchainDb, n, seed)
           d == PoweredDb
<1>1. MainTyped(mainchainDb)
  BY DEF LedgerTyped
<1>2. n \in Int /\ seed \in Int
  <2>1. MainChainGetLastRoundSeed(mainchainDb) \in Int
    BY LastSeed DEF LedgerTyped, MainTyped
  <2> QED  BY <2>1 DEF LedgerTyped
<1>3. d = [e EXCEPT !.PowerTable = MinerServers]
  BY DEF PoweredDb, MainChainUpdatePowerTable
<1> HIDE DEF d
<1>4. NextRow = NewRow(n, seed) /\ Market = mainchainDb.MarketMatching
  BY DEF NextRow, Market, MainChainGetMarketMatchingRows
<1> HIDE DEF n, seed
<1>5. /\ MainTyped(e)
      /\ e.MarketMatching = mainchainDb.MarketMatching
      /\ e.FirstQueue = mainchainDb.FirstQueue
      /\ e.SecondQueue = mainchainDb.SecondQueue
      /\ e.SyncTxQueue = mainchainDb.SyncTxQueue
      /\ e.OverallEvaluation = mainchainDb.OverallEvaluation
      /\ e.RoundTable = Append(mainchainDb.RoundTable, NewRow(n, seed))
      /\ e.RoundTable \in Seq(RoundRow)
  BY <1>1, <1>2, RowAdded
<1> HIDE DEF e
<1>6. MainShape(e)
  BY <1>5 DEF MainTyped
<1>7. /\ MainShape(d) /\ d.MarketMatching = e.MarketMatching /\ d.FirstQueue = e.FirstQueue
      /\ d.SecondQueue = e.SecondQueue /\ d.OverallEvaluation = e.OverallEvaluation
      /\ d.SyncTxQueue = e.SyncTxQueue /\ d.RoundTable = e.RoundTable
  BY <1>3, <1>6 DEF MainShape
<1>8. MainTyped(d)
  BY <1>5, <1>7 DEF MainTyped
<1> QED  BY <1>4, <1>5, <1>7, <1>8 DEF d

\* Rows inserted into the queues.
LEMMA FirstInserted ==
    ASSUME NEW db, MainTyped(db), NEW txs \in Seq(TxSet)
    PROVE  LET d == BulkInsertIntoMainChainFirstQueue(db, txs)
           IN  /\ MainTyped(d)
               /\ d.MarketMatching = db.MarketMatching
               /\ d.FirstQueue = InsertRows(db.FirstQueue, txs)
               /\ d.SecondQueue = db.SecondQueue
               /\ d.SyncTxQueue = db.SyncTxQueue
               /\ d.OverallEvaluation = db.OverallEvaluation
               /\ d.RoundTable = db.RoundTable
<1> DEFINE q == InsertRows(db.FirstQueue, txs)
           d == BulkInsertIntoMainChainFirstQueue(db, txs)
<1>1. MainShape(db) /\ db.FirstQueue \in Queue(TxSet)
  BY DEF MainTyped
<1>2. q \in Queue(TxSet)
  BY <1>1, InsertedRows
<1>3. d = [db EXCEPT !.FirstQueue = q]
  BY <1>1 DEF BulkInsertIntoMainChainFirstQueue, MainShape
<1> HIDE DEF d, q
<1>4. /\ MainShape(d) /\ d.MarketMatching = db.MarketMatching /\ d.FirstQueue = q
      /\ d.SecondQueue = db.SecondQueue /\ d.OverallEvaluation = db.OverallEvaluation
      /\ d.SyncTxQueue = db.SyncTxQueue /\ d.RoundTable = db.RoundTable
  BY <1>1, <1>3 DEF MainShape
<1>5. MainTyped(d)
  BY <1>2, <1>4 DEF MainTyped
<1> QED  BY <1>4, <1>5 DEF d, q

LEMMA SecondInserted ==
    ASSUME NEW db, MainTyped(db), NEW txs \in Seq(PaySet)
    PROVE  LET d == BulkInsertIntoMainChainSecondQueue(db, txs)
           IN  /\ MainTyped(d)
               /\ d.MarketMatching = db.MarketMatching
               /\ d.FirstQueue = db.FirstQueue
               /\ d.SyncTxQueue = db.SyncTxQueue
               /\ d.OverallEvaluation = db.OverallEvaluation
               /\ d.RoundTable = db.RoundTable
<1> DEFINE q == InsertRows(db.SecondQueue, txs)
           d == BulkInsertIntoMainChainSecondQueue(db, txs)
<1>1. MainShape(db) /\ db.SecondQueue \in Queue(PaySet)
  BY DEF MainTyped
<1>2. q \in Queue(PaySet)
  BY <1>1, InsertedRows
<1>3. d = [db EXCEPT !.SecondQueue = q]
  BY <1>1 DEF BulkInsertIntoMainChainSecondQueue, MainShape
<1> HIDE DEF d, q
<1>4. /\ MainShape(d) /\ d.MarketMatching = db.MarketMatching /\ d.FirstQueue = db.FirstQueue
      /\ d.SecondQueue = q /\ d.OverallEvaluation = db.OverallEvaluation
      /\ d.SyncTxQueue = db.SyncTxQueue /\ d.RoundTable = db.RoundTable
  BY <1>1, <1>3 DEF MainShape
<1>5. MainTyped(d)
  BY <1>2, <1>4 DEF MainTyped
<1> QED  BY <1>4, <1>5 DEF d

LEMMA SyncInserted ==
    ASSUME NEW db, MainTyped(db), NEW tx \in SyncSet
    PROVE  LET d == InsertIntoMainChainSyncTxQueue(db, tx)
           IN  /\ MainTyped(d)
               /\ d.MarketMatching = db.MarketMatching
               /\ d.FirstQueue = db.FirstQueue
               /\ d.SyncTxQueue = InsertRows(db.SyncTxQueue, <<tx>>)
               /\ d.OverallEvaluation = db.OverallEvaluation
               /\ d.RoundTable = db.RoundTable
<1> DEFINE q == InsertRows(db.SyncTxQueue, <<tx>>)
           d == InsertIntoMainChainSyncTxQueue(db, tx)
<1>1. MainShape(db) /\ db.SyncTxQueue \in Queue(SyncSet) /\ <<tx>> \in Seq(SyncSet)
  BY DEF MainTyped
<1>2. q \in Queue(SyncSet)
  BY <1>1, InsertedRows
<1>3. d = [db EXCEPT !.SyncTxQueue = q]
  BY <1>1 DEF InsertIntoMainChainSyncTxQueue, MainShape
<1> HIDE DEF d, q
<1>4. /\ MainShape(d) /\ d.MarketMatching = db.MarketMatching /\ d.FirstQueue = db.FirstQueue
      /\ d.SecondQueue = db.SecondQueue /\ d.OverallEvaluation = db.OverallEvaluation
      /\ d.SyncTxQueue = q /\ d.RoundTable = db.RoundTable
  BY <1>1, <1>3 DEF MainShape
<1>5. MainTyped(d)
  BY <1>2, <1>4 DEF MainTyped
<1> QED  BY <1>4, <1>5 DEF d, q

LEMMA TxsCollected ==
    ASSUME LedgerTyped
    PROVE  LET d == CollectedDb
           IN  /\ MainTyped(d)
               /\ d.MarketMatching = [a \in Agreements |-> AfterCollect(Market[a])]
               /\ d.FirstQueue = InsertRows(mainchainDb.FirstQueue, NewTxs)
               /\ d.SyncTxQueue = mainchainDb.SyncTxQueue
               /\ d.OverallEvaluation = mainchainDb.OverallEvaluation
               /\ d.RoundTable = Append(mainchainDb.RoundTable, NextRow)
               /\ d.RoundTable \in Seq(RoundRow)
<1> DEFINE e == CollectedFlags(PoweredDb)
           f == BulkInsertIntoMainChainFirstQueue(e, NewTxs)
           d == CollectedDb
<1>0. conf \in Experiments
  BY DEF LedgerTyped
<1>1. d = BulkInsertIntoMainChainSecondQueue(f, NewPayments)
  BY DEF CollectedDb
<1> HIDE DEF d
<1>2. /\ MainTyped(e)
      /\ e.MarketMatching = [a \in Agreements |-> AfterCollect(Market[a])]
      /\ e.FirstQueue = PoweredDb.FirstQueue
      /\ e.SyncTxQueue = PoweredDb.SyncTxQueue
      /\ e.OverallEvaluation = PoweredDb.OverallEvaluation
      /\ e.RoundTable = PoweredDb.RoundTable
  BY <1>0, RoundPrepared, FlagsCollected
<1> HIDE DEF e
<1>3. /\ MainTyped(f)
      /\ f.MarketMatching = e.MarketMatching
      /\ f.FirstQueue = InsertRows(e.FirstQueue, NewTxs)
      /\ f.SyncTxQueue = e.SyncTxQueue
      /\ f.OverallEvaluation = e.OverallEvaluation
      /\ f.RoundTable = e.RoundTable
  BY <1>2, NewAreTxs, FirstInserted
<1> HIDE DEF f
<1>4. /\ MainTyped(d)
      /\ d.MarketMatching = f.MarketMatching
      /\ d.FirstQueue = f.FirstQueue
      /\ d.SyncTxQueue = f.SyncTxQueue
      /\ d.OverallEvaluation = f.OverallEvaluation
      /\ d.RoundTable = f.RoundTable
  BY <1>1, <1>3, NewAreTxs, SecondInserted
<1> QED  BY <1>2, <1>3, <1>4, RoundPrepared DEF d

-----------------------------------------------------------------------------
(* The steps on the main chain's database.                                 *)

\* A round's block b takes n transactions, after new ones were collected.
RoundClosed(b, n) ==
    LET q == InsertRows(mainchainDb.FirstQueue, NewTxs)
    IN  /\ MainTyped(mainchainDb')
        /\ mainchainDb'.MarketMatching =
              CommittedMarket([a \in Agreements |-> AfterCollect(Market[a])], q, n, MCRoundNumber)
        /\ mainchainDb'.FirstQueue = WithoutFirst(q, n)
        /\ BlockFrom(b, q, n, Append(mainchainDb.RoundTable, NextRow), mainchainDb'.RoundTable,
                     MCRoundNumber)
        /\ blocks' = Append(blocks, b)
        /\ \/ b.syncs = <<>> /\ mainchainDb'.SyncTxQueue = mainchainDb.SyncTxQueue
           \/ /\ mainchainDb.SyncTxQueue # <<>>
              /\ b.syncs = <<mainchainDb.SyncTxQueue[1].tx>>
              /\ mainchainDb'.SyncTxQueue = WithoutFirst(mainchainDb.SyncTxQueue, 1)
        /\ \/ mainchainDb'.OverallEvaluation = mainchainDb.OverallEvaluation
           \/ \E sums : /\ mainchainDb'.OverallEvaluation =
                              Append(mainchainDb.OverallEvaluation,
                                     [RoundNbr |-> MCRoundNumber, sums |-> sums])
                        /\ sums.BCSize = GetSumMainChain(mainchainDb', "BCSize")

\* The block of a round without a leader.
NoBlock == [txs |-> <<>>, pays |-> 0, syncs |-> <<>>, size |-> 0]

LEMMA NothingDescribed ==
    ASSUME NEW row, row.stats = NoStats
    PROVE  Describes(row, NoBlock)
<1>1. SumOver(<<>>, LAMBDA t : t.por) = 0
  <2>1. [i \in 1..0 |-> <<>>[i].por] = <<>>
    OBVIOUS
  <2>2. SumOver(<<>>, LAMBDA t : t.por) = Total(<<>>)
    BY DEF SumOver
  <2> QED  BY <2>2, TotalOfNone
<1>2. Cardinality({i \in 1..0 : <<>>[i].name = "TxServAgrCommit"}) = 0
  <2>1. {i \in 1..0 : <<>>[i].name = "TxServAgrCommit"} = {}
    OBVIOUS
  <2> QED  BY <2>1, FS_EmptySet
<1>3. /\ NoBlock.txs = <<>> /\ NoBlock.pays = 0 /\ NoBlock.syncs = <<>> /\ NoBlock.size = 0
  BY DEF NoBlock
<1>4. /\ row.stats.BCSize = 0 /\ row.stats.RegPayTx = 0 /\ row.stats.SyncTx = 0
      /\ row.stats.TotalNumTx = 0 /\ row.stats.CntCmtTx = 0 /\ row.stats.ScPorTx = 0
  BY DEF NoStats
<1>5. SumOver(NoBlock.syncs, LAMBDA t : t.por) = 0
  BY <1>1, <1>3
<1>6. Cardinality({i \in 1..Len(NoBlock.txs) : NoBlock.txs[i].name = "TxServAgrCommit"}) = 0
  BY <1>2, <1>3
<1> QED  BY <1>3, <1>4, <1>5, <1>6 DEF Describes

\* The rows of the rounds with the one of the next round.
LEMMA RowsOfNext ==
    ASSUME LedgerTyped, mcPurge = 0, ~crashed
    PROVE  LET t == Append(mainchainDb.RoundTable, NextRow)
           IN  /\ t \in Seq(RoundRow) /\ Len(t) = MCRoundNumber + 2
               /\ Numbered(t)
               /\ t[Len(t)] = NextRow
               /\ \A i \in 1..(MCRoundNumber + 1) : t[i] = mainchainDb.RoundTable[i]
               /\ Len(mainchainDb.RoundTable) = MCRoundNumber + 1
<1> DEFINE u == mainchainDb.RoundTable
           t == Append(u, NextRow)
<1>1. t \in Seq(RoundRow)
  BY RoundPrepared
<1>2. u \in Seq(RoundRow) /\ Numbered(u) /\ MCRoundNumber \in Nat
  BY DEF LedgerTyped, MainTyped
<1>3. Len(u) = MCRoundNumber + 1
  BY DEF LedgerTyped, RowsPrepared
<1>4. NextRow.RoundNumber = MCRoundNumber + 1
  BY DEF NextRow, NewRow
<1> HIDE DEF u
<1>5. /\ Len(t) = MCRoundNumber + 2 /\ t[Len(t)] = NextRow
      /\ \A i \in 1..(MCRoundNumber + 1) : t[i] = u[i]
  BY <1>2, <1>3
<1>6. \A i \in 1..Len(u) : u[i].RoundNumber = i - 1
  BY <1>2 DEF Numbered
<1> HIDE DEF t
<1>7. \A i \in 1..Len(t) : t[i].RoundNumber = i - 1
  <2> TAKE i \in 1..Len(t)
  <2>1. CASE i \in 1..(MCRoundNumber + 1)
    BY <1>3, <1>5, <1>6, <2>1
  <2>2. CASE i = Len(t)
    BY <1>2, <1>4, <1>5, <2>2
  <2> QED  BY <1>2, <1>5, <2>1, <2>2
<1>8. Numbered(t)
  BY <1>2, <1>5, <1>7 DEF Numbered
<1> QED  BY <1>1, <1>3, <1>5, <1>8 DEF t, u

LEMMA RoundCloses ==
    ASSUME LedgerTyped, mcPurge = 0, EmptyBlock \/ FullBlock
    PROVE  \E b, n : RoundClosed(b, n)
<1> DEFINE q == InsertRows(mainchainDb.FirstQueue, NewTxs)
           d == CollectedDb
           m == [a \in Agreements |-> AfterCollect(Market[a])]
           t == Append(mainchainDb.RoundTable, NextRow)
<1>0. conf \in Experiments /\ MCRoundNumber \in Int
  BY DEF LedgerTyped
<1>1. /\ MainTyped(d)
      /\ d.MarketMatching = m
      /\ d.FirstQueue = q
      /\ d.SyncTxQueue = mainchainDb.SyncTxQueue
      /\ d.OverallEvaluation = mainchainDb.OverallEvaluation
      /\ d.RoundTable = t
      /\ t \in Seq(RoundRow)
  BY TxsCollected
<1>2. q \in Queue(TxSet) /\ m \in [Agreements -> MarketRow]
  BY <1>1 DEF MainTyped
<1> HIDE DEF d, q, m
<1>3. CASE EmptyBlock
  <2>1. mainchainDb' = d /\ blocks' = Append(blocks, NoBlock) /\ ~crashed
    BY <1>3 DEF EmptyBlock, CollectRest, MainChainTurn, d, NoBlock
  <2>2. WithoutFirst(q, 0) = q
    <3>1. q \in Seq(RowOf(TxSet))
      BY <1>2 DEF Queue
    <3> QED  BY <3>1 DEF WithoutFirst
  <2>3. CommittedMarket(m, q, 0, MCRoundNumber) = m
    BY <1>2 DEF CommittedMarket
  <2>4. NoBlock \in BlockSet /\ NoBlock.txs = <<>> /\ NoBlock.syncs = <<>>
    BY DEF NoBlock, BlockSet
  <2>5. /\ Len(t) = MCRoundNumber + 2 /\ Numbered(t)
        /\ \A i \in 1..(MCRoundNumber + 1) : t[i] = mainchainDb.RoundTable[i]
        /\ Len(mainchainDb.RoundTable) = MCRoundNumber + 1
    BY <2>1, RowsOfNext
  <2>6. mainchainDb.RoundTable[MCRoundNumber + 1].stats = NoStats
    BY <2>1, <2>5 DEF LedgerTyped, RowsPrepared
  <2> HIDE DEF t
  <2>7. ASSUME NEW i \in 1..Len(t), t[i].RoundNumber = MCRoundNumber
        PROVE  Describes(t[i], NoBlock)
    <3>1. i = MCRoundNumber + 1
      BY <1>0, <2>5, <2>7 DEF Numbered
    <3>2. i \in 1..(MCRoundNumber + 1)
      BY <3>1 DEF LedgerTyped
    <3>3. t[i].stats = NoStats
      BY <2>5, <2>6, <3>1, <3>2
    <3> QED  BY <3>3, NothingDescribed
  <2>8. 0 \in 0..Len(q) /\ [i \in 1..0 |-> q[i].tx] = <<>>
    <3>1. Len(q) \in Nat
      BY <1>2 DEF Queue
    <3> QED  BY <3>1
  <2>9. BlockFrom(NoBlock, q, 0, t, t, MCRoundNumber)
    BY <1>1, <2>4, <2>7, <2>8 DEF BlockFrom, NotTooLarge
  <2>10. RoundClosed(NoBlock, 0)
    BY <1>1, <2>1, <2>2, <2>3, <2>4, <2>9 DEF RoundClosed, q, m, t
  <2> QED  BY <2>10
<1>4. CASE FullBlock
  <2> DEFINE k == TakenBlock(d, MCRoundNumber)
             n == Len(k.block.txs)
  <2>1. mainchainDb' = k.db /\ blocks' = Append(blocks, k.block)
    BY <1>4 DEF FullBlock, d
  <2>2. /\ MainTyped(k.db)
        /\ k.db.MarketMatching = CommittedMarket(d.MarketMatching, d.FirstQueue, n, MCRoundNumber)
        /\ k.db.FirstQueue = WithoutFirst(d.FirstQueue, n)
        /\ BlockFrom(k.block, d.FirstQueue, n, d.RoundTable, k.db.RoundTable, MCRoundNumber)
        /\ k.block.syncs = IF d.SyncTxQueue = <<>> THEN <<>> ELSE <<d.SyncTxQueue[1].tx>>
        /\ k.db.SyncTxQueue = IF d.SyncTxQueue = <<>> THEN <<>>
                              ELSE WithoutFirst(d.SyncTxQueue, 1)
        /\ \E sums : /\ k.db.OverallEvaluation = Append(d.OverallEvaluation,
                             [RoundNbr |-> MCRoundNumber, sums |-> sums])
                     /\ sums.BCSize = GetSumMainChain(k.db, "BCSize")
    BY <1>0, <1>1, BlockTaken
  <2> HIDE DEF k, n
  <2>3. RoundClosed(k.block, n)
    BY <1>1, <2>1, <2>2 DEF RoundClosed, q, m, t
  <2> QED  BY <2>3
<1> QED  BY <1>3, <1>4

\* A round of mainchain-purge makes block b of n transactions.
PurgeRoundDone(b, n) ==
    LET q == mainchainDb.FirstQueue
    IN  /\ MainTyped(mainchainDb')
        /\ mainchainDb'.FirstQueue = WithoutFirst(q, n)
        /\ mainchainDb'.MarketMatching = CommittedMarket(Market, q, n, mcPurge)
        /\ BlockFrom(b, q, n, Append(mainchainDb.RoundTable, NewRow(mcPurge, -1)),
                     mainchainDb'.RoundTable, mcPurge)
        /\ blocks' = Append(blocks, b)
        /\ b.syncs = <<>> /\ mainchainDb'.SyncTxQueue = mainchainDb.SyncTxQueue
        /\ mainchainDb'.OverallEvaluation = mainchainDb.OverallEvaluation

LEMMA PurgeRounds ==
    ASSUME LedgerTyped, MainPurgeRound
    PROVE  LET added == InsertIntoMainChainRoundTable(mainchainDb, mcPurge, -1)
           IN  IF NothingQueued(added)
               THEN mainchainDb' = added /\ mcPurge' = -1 /\ blocks' = blocks
               ELSE mcPurge' = mcPurge + 1 /\ \E b, n : PurgeRoundDone(b, n)
<1> DEFINE added == InsertIntoMainChainRoundTable(mainchainDb, mcPurge, -1)
           pay == TakePayments(added, mcPurge)
           first == TakeFirst(pay.db, 0, pay.size, mcPurge)
           d == AddStatsToRoundTableBasedOnRoundNumber(
                    first.db, BlockStats(pay, first, <<>>), mcPurge)
           b == [txs |-> [i \in 1..first.num |-> first.rows[i].tx], pays |-> pay.num,
                 syncs |-> <<>>, size |-> first.size + pay.size + BlockMeasurement]
           t == Append(mainchainDb.RoundTable, NewRow(mcPurge, -1))
<1>0. conf \in Experiments /\ mcPurge \in Int /\ MainTyped(mainchainDb)
      /\ Market = mainchainDb.MarketMatching
  BY DEF LedgerTyped, Market, MainChainGetMarketMatchingRows
<1>1. IF NothingQueued(added) THEN mainchainDb' = added /\ mcPurge' = -1 /\ blocks' = blocks
      ELSE mainchainDb' = d /\ mcPurge' = mcPurge + 1 /\ blocks' = Append(blocks, b)
  BY DEF MainPurgeRound
<1>2. CASE NothingQueued(added)
  BY <1>1, <1>2
<1>3. CASE ~NothingQueued(added)
  <2>1. /\ MainTyped(added)
        /\ added.MarketMatching = mainchainDb.MarketMatching
        /\ added.FirstQueue = mainchainDb.FirstQueue
        /\ added.SyncTxQueue = mainchainDb.SyncTxQueue
        /\ added.OverallEvaluation = mainchainDb.OverallEvaluation
        /\ added.RoundTable = t
        /\ t \in Seq(RoundRow)
    <3> DEFINE seed == -1
    <3>1. seed \in Int
      OBVIOUS
    <3>2. /\ added = InsertIntoMainChainRoundTable(mainchainDb, mcPurge, seed)
          /\ t = Append(mainchainDb.RoundTable, NewRow(mcPurge, seed))
      OBVIOUS
    <3> HIDE DEF seed, added, t
    <3> QED  BY <1>0, <3>1, <3>2, RowAdded
  <2>2. mainchainDb' = d /\ mcPurge' = mcPurge + 1 /\ blocks' = Append(blocks, b)
    BY <1>1, <1>3
  <2>s. b.syncs = <<>>
    OBVIOUS
  <2> HIDE DEF added
  <2>3. /\ MainTyped(pay.db)
        /\ pay.db.MarketMatching = added.MarketMatching
        /\ pay.db.FirstQueue = added.FirstQueue
        /\ pay.db.SyncTxQueue = added.SyncTxQueue
        /\ pay.db.OverallEvaluation = added.OverallEvaluation
        /\ SameRounds(added.RoundTable, pay.db.RoundTable)
        /\ pay.num \in Nat /\ pay.size \in Int /\ pay.wait \in Int
    BY <1>0, <2>1, PaymentsTaken
  <2> HIDE DEF pay, t
  <2>4. <<>> \in Seq(SyncSet) /\ 0 \in Int
    OBVIOUS
  <2>5. BlockFiled(d, b, first.num, pay.db, t, mcPurge)
    BY <1>0, <2>1, <2>3, <2>4, BlockFromParts
  <2> HIDE DEF d, b, first
  <2>6. PurgeRoundDone(b, first.num)
    BY <1>0, <2>1, <2>2, <2>3, <2>5, <2>s DEF BlockFiled, PurgeRoundDone, t
  <2> QED  BY <1>3, <2>2, <2>6 DEF added
<1> QED  BY <1>2, <1>3

-----------------------------------------------------------------------------
(* The steps on the side chain's database.                                 *)

NewSideRow(n, size, mcRound) ==
    [RoundNumber |-> n, BCSize |-> size, PoRTx |-> 0, Wait |-> 0,
     BlockSpaceFull |-> FALSE, McRound |-> mcRound, QueueFill |-> 0]

LEMMA SideRowAdded ==
    ASSUME NEW db, SideTyped(db), NEW n \in Int, NEW size \in Int, NEW mcRound \in Int
    PROVE  LET d == InsertIntoSideChainRoundTable(db, n, size, mcRound)
           IN  /\ SideTyped(d)
               /\ d.FirstQueue = db.FirstQueue
               /\ d.RoundTable = Append(db.RoundTable, NewSideRow(n, size, mcRound))
<1> DEFINE t == Append(db.RoundTable, NewSideRow(n, size, mcRound))
           d == InsertIntoSideChainRoundTable(db, n, size, mcRound)
<1>1. SideShape(db) /\ db.RoundTable \in Seq(SideRow) /\ db.FirstQueue \in Queue(PoRSet)
  BY DEF SideTyped
<1>2. NewSideRow(n, size, mcRound) \in SideRow
  BY DEF NewSideRow, SideRow
<1>3. t \in Seq(SideRow)
  BY <1>1, <1>2
<1>4. d = [db EXCEPT !.RoundTable = t]
  BY <1>1 DEF InsertIntoSideChainRoundTable, NewSideRow, SideShape
<1> HIDE DEF d, t
<1>5. SideShape(d) /\ d.FirstQueue = db.FirstQueue /\ d.RoundTable = t
  BY <1>1, <1>4 DEF SideShape
<1>6. SideTyped(d)
  BY <1>1, <1>3, <1>5 DEF SideTyped
<1> QED  BY <1>5, <1>6 DEF d, t

\* The rows of table t with more of them marked as full.
MoreMarked(t, u) ==
    /\ u \in Seq(SideRow) /\ Len(u) = Len(t)
    /\ \A i \in 1..Len(t) : /\ u[i].RoundNumber = t[i].RoundNumber
                            /\ u[i].QueueFill = t[i].QueueFill
                            /\ (t[i].BlockSpaceFull => u[i].BlockSpaceFull)

LEMMA RoundMarked ==
    ASSUME NEW db, SideTyped(db), NEW round
    PROVE  LET d == SideChainRoundTableSetBlockSpaceIsFull(db, round)
           IN  /\ SideTyped(d)
               /\ d.FirstQueue = db.FirstQueue
               /\ MoreMarked(db.RoundTable, d.RoundTable)
               /\ \A i \in 1..Len(db.RoundTable) :
                     db.RoundTable[i].RoundNumber = round => d.RoundTable[i].BlockSpaceFull
<1> DEFINE t == db.RoundTable
           e(i) == IF t[i].RoundNumber = round THEN [t[i] EXCEPT !.BlockSpaceFull = TRUE] ELSE t[i]
           u == [i \in 1..Len(t) |-> e(i)]
           d == SideChainRoundTableSetBlockSpaceIsFull(db, round)
<1>1. SideShape(db) /\ t \in Seq(SideRow) /\ db.FirstQueue \in Queue(PoRSet)
  BY DEF SideTyped
<1>2. d = [db EXCEPT !.RoundTable = u]
  BY DEF SideChainRoundTableSetBlockSpaceIsFull, UpdateWhere
<1> HIDE DEF d, t
<1>3. \A i \in 1..Len(t) :
          /\ e(i) \in SideRow
          /\ e(i).RoundNumber = t[i].RoundNumber
          /\ e(i).QueueFill = t[i].QueueFill
          /\ (t[i].BlockSpaceFull => e(i).BlockSpaceFull)
          /\ (t[i].RoundNumber = round => e(i).BlockSpaceFull)
  <2>1. \A i \in 1..Len(t) : t[i] \in SideRow
    BY <1>1
  <2>2. \A r \in SideRow : LET x == [r EXCEPT !.BlockSpaceFull = TRUE]
                           IN  /\ x \in SideRow /\ x.RoundNumber = r.RoundNumber
                               /\ x.QueueFill = r.QueueFill /\ x.BlockSpaceFull
    BY DEF SideRow
  <2> QED  BY <2>1, <2>2
<1>4. u \in Seq(SideRow) /\ Len(u) = Len(t) /\ \A i \in 1..Len(t) : u[i] = e(i)
  <2>1. Len(t) \in Nat
    BY <1>1
  <2> HIDE DEF e
  <2> QED  BY <1>3, <2>1
<1> HIDE DEF u, e
<1>5. SideShape(d) /\ d.FirstQueue = db.FirstQueue /\ d.RoundTable = u
  BY <1>1, <1>2 DEF SideShape
<1>6. MoreMarked(t, u)
  BY <1>3, <1>4 DEF MoreMarked
<1>7. SideTyped(d)
  BY <1>1, <1>4, <1>5 DEF SideTyped
<1> QED  BY <1>3, <1>4, <1>5, <1>6, <1>7 DEF d, t

\* Only the last row has changed.
FinalFiled(d, db, fill) ==
    /\ SideTyped(d)
    /\ d.FirstQueue = db.FirstQueue
    /\ Len(d.RoundTable) = Len(db.RoundTable)
    /\ \A i \in 1..Len(db.RoundTable) :
          i # Len(db.RoundTable) => d.RoundTable[i] = db.RoundTable[i]
    /\ d.RoundTable[Len(db.RoundTable)].BlockSpaceFull =
          db.RoundTable[Len(db.RoundTable)].BlockSpaceFull
    /\ d.RoundTable[Len(db.RoundTable)].QueueFill = fill

\* Final numbers go into the last row when it has the round's number.
LEMMA FinalInfoFiled ==
    ASSUME NEW db, SideTyped(db), NEW size \in Int, NEW por \in Int, NEW wait \in Int,
           NEW fill \in Int, NEW round, Len(db.RoundTable) # 0,
           db.RoundTable[Len(db.RoundTable)].RoundNumber = round
    PROVE  FinalFiled(SideChainRoundTableSetFinalRoundInfo(db, size, por, wait, round, fill),
                      db, fill)
<1> DEFINE t == db.RoundTable
           I == {i \in 1..Len(t) : t[i].RoundNumber = round}
           last == SelectLastInSeq(t, LAMBDA row : row.RoundNumber = round)
           n == Len(t)
           r == [t[n] EXCEPT !.BCSize = size, !.PoRTx = por, !.Wait = wait, !.QueueFill = fill]
           u == [t EXCEPT ![n] = r]
           d == SideChainRoundTableSetFinalRoundInfo(db, size, por, wait, round, fill)
<1>1. SideShape(db) /\ t \in Seq(SideRow) /\ db.FirstQueue \in Queue(PoRSet)
  BY DEF SideTyped
<1>2. last = n
  <2>1. n \in Nat /\ n \in I /\ I \subseteq 0..n /\ I # {} /\ \A i \in I : i <= n
    BY <1>1
  <2>2. last = IF I = {} THEN 0 ELSE Max(I)
    BY DEF SelectLastInSeq
  <2> HIDE DEF I, last, n
  <2>3. Max(I) \in I /\ \A i \in I : i <= Max(I)
    BY <2>1, MaxOfBounded
  <2> QED  BY <2>1, <2>2, <2>3
<1>3. n \in 1..Len(t) /\ n # 0 /\ n = Len(t)
  BY <1>1
<1>4. d = IF last = 0 THEN db ELSE [db EXCEPT !.RoundTable[last] =
             [@ EXCEPT !.BCSize = size, !.PoRTx = por, !.Wait = wait, !.QueueFill = fill]]
  BY DEF SideChainRoundTableSetFinalRoundInfo
<1> HIDE DEF d, last
<1>5. d = [db EXCEPT !.RoundTable = u]
  BY <1>1, <1>2, <1>3, <1>4 DEF SideShape
<1> HIDE DEF t, n
<1>6. t[n] \in SideRow
  BY <1>1, <1>3
<1>7. r \in SideRow /\ r.QueueFill = fill /\ r.BlockSpaceFull = t[n].BlockSpaceFull
  BY <1>6 DEF SideRow
<1> HIDE DEF r
<1>8. u \in Seq(SideRow) /\ Len(u) = n /\ u[n] = r /\ \A i \in 1..n : i # n => u[i] = t[i]
  BY <1>1, <1>3, <1>7
<1> HIDE DEF u
<1>9. SideShape(d) /\ d.FirstQueue = db.FirstQueue /\ d.RoundTable = u
  BY <1>1, <1>5 DEF SideShape, t
<1>10. SideTyped(d)
  BY <1>1, <1>8, <1>9 DEF SideTyped
<1> QED  BY <1>3, <1>7, <1>8, <1>9, <1>10 DEF d, t, n, FinalFiled

\* The side chain's block takes the first n PoRs.
SideBlock(p, db, n) ==
    /\ SideTyped(p.db)
    /\ n \in 0..Len(db.FirstQueue)
    /\ p.txs = [i \in 1..n |-> db.FirstQueue[i].tx]
    /\ p.txs \in Seq(PoRSet)
    /\ p.db.FirstQueue = WithoutFirst(db.FirstQueue, n)
    /\ Len(p.db.RoundTable) = Len(db.RoundTable)
    /\ \A i \in 1..Len(db.RoundTable) : i # Len(db.RoundTable) =>
          /\ p.db.RoundTable[i].QueueFill = db.RoundTable[i].QueueFill
          /\ (db.RoundTable[i].BlockSpaceFull => p.db.RoundTable[i].BlockSpaceFull)
    /\ p.db.RoundTable[Len(db.RoundTable)].QueueFill > 0 =>
          p.db.RoundTable[Len(db.RoundTable)].BlockSpaceFull

LEMMA PoRsTaken ==
    ASSUME NEW db, SideTyped(db), conf \in Experiments, NEW header \in Int, NEW scRound \in Int,
           NEW mcRound \in Int, NEW epochLen \in Int, Len(db.RoundTable) # 0,
           db.RoundTable[Len(db.RoundTable)].RoundNumber = scRound
    PROVE  \E n : SideBlock(TakePoRs(db, header, scRound, mcRound, epochLen), db, n)
<1> DEFINE rows == FetchRows(db.FirstQueue)
           share == conf.SideChainBlockSize - header
           num == NumFitting(rows, 0, share)
           waits == [i \in 1..num |-> WaitOf(rows[i].tx, scRound, mcRound, epochLen)]
           full == IF num < Len(rows)
                   THEN SideChainRoundTableSetBlockSpaceIsFull(db, scRound) ELSE db
           q == DeleteRows(db.FirstQueue, LastRowId(rows, num))
           e == SideChainDeleteFromFirstQueue(full, LastRowId(rows, num))
           size == PrefixSize(rows, num, header)
           wait == Total(waits)
           fill == Len(rows) - num
           d == SideChainRoundTableSetFinalRoundInfo(e, size, num, wait, scRound, fill)
           p == TakePoRs(db, header, scRound, mcRound, epochLen)
           t == db.RoundTable
<1>1. SideShape(db) /\ t \in Seq(SideRow) /\ db.FirstQueue \in Queue(PoRSet)
  BY DEF SideTyped
<1>2. rows \in Seq(RowOf(PoRSet))
  <2>1. db.FirstQueue \in Seq(RowOf(PoRSet))
    BY <1>1 DEF Queue
  <2> QED  BY <2>1, FetchLimitAssumption DEF FetchRows
<1>3. share \in Int
  <2>1. conf.SideChainBlockSize \in Nat
    BY ConfIsSound
  <2> QED  BY <2>1
<1> HIDE DEF share
<1>4. num \in 0..Len(rows)
  <2>1. 0 \in Int
    OBVIOUS
  <2> HIDE DEF rows
  <2> QED  BY <1>2, <1>3, <2>1, SizesOfTxs, NumbersFitting
<1> HIDE DEF num
<1>5. /\ q = WithoutFirst(db.FirstQueue, num) /\ num \in 0..Len(db.FirstQueue)
      /\ \A i \in 1..Len(rows) : rows[i] = db.FirstQueue[i]
  BY <1>1, <1>4, DeletedRows
<1>6. q \in Queue(PoRSet)
  <2> HIDE DEF q
  <2> QED  BY <1>1, <1>5, RestOfQueue
<1> HIDE DEF rows
<1>7. num \in Nat /\ Len(rows) \in Nat /\ fill \in Int /\ (fill > 0 <=> num < Len(rows))
  BY <1>2, <1>4
<1>8. size \in Int
  BY <1>2, <1>4, SizesOfTxs, PrefixSizes
<1>9. wait \in Int
  <2>1. \A i \in 1..num : rows[i].tx \in PoRSet
    BY <1>2, <1>4, TxsOfRows
  <2>2. \A x \in PoRSet : x.issued \in Int /\ x.epoch \in Int
    BY DEF PoRSet
  <2>3. (mcRound - 2) \div MCRoundPerEpoch \in Int
    BY TimesAreNumbers
  <2>4. \A x \in PoRSet : WaitOf(x, scRound, mcRound, epochLen) \in Int
    <3> TAKE x \in PoRSet
    <3> DEFINE k == (mcRound - 2) \div MCRoundPerEpoch
    <3>1. k \in Int /\ x.issued \in Int /\ x.epoch \in Int
      BY <2>2, <2>3
    <3>2. WaitOf(x, scRound, mcRound, epochLen) = scRound - x.issued + (k - x.epoch) * epochLen
      BY DEF WaitOf
    <3> HIDE DEF k
    <3>3. (k - x.epoch) * epochLen \in Int
      BY <3>1
    <3> QED  BY <3>1, <3>2, <3>3
  <2>5. waits \in Seq(Int)
    BY <1>7, <2>1, <2>4
  <2> HIDE DEF waits
  <2> QED  BY <2>5, TotalStep
<1> HIDE DEF waits, wait, size, fill
<1>10. SideTyped(full) /\ full.FirstQueue = db.FirstQueue /\ MoreMarked(t, full.RoundTable)
       /\ (num < Len(rows) => full.RoundTable[Len(t)].BlockSpaceFull)
  <2>1. CASE num < Len(rows)
    <3>1. Len(t) \in 1..Len(t)
      BY <1>1
    <3> QED  BY <1>1, <2>1, <3>1, RoundMarked
  <2>2. CASE ~(num < Len(rows))
    <3>1. MoreMarked(t, t)
      BY <1>1 DEF MoreMarked
    <3> QED  BY <2>2, <3>1
  <2> QED  BY <2>1, <2>2
<1> HIDE DEF full
<1>11. SideTyped(e) /\ e.FirstQueue = q /\ e.RoundTable = full.RoundTable
  <2>1. SideShape(full)
    BY <1>10 DEF SideTyped
  <2>2. e = [full EXCEPT !.FirstQueue = q]
    BY <1>10, <2>1 DEF SideChainDeleteFromFirstQueue, SideShape
  <2> HIDE DEF e, q
  <2>3. SideShape(e) /\ e.FirstQueue = q /\ e.RoundTable = full.RoundTable
    BY <2>1, <2>2 DEF SideShape
  <2> QED  BY <1>6, <1>10, <2>3 DEF SideTyped
<1>12. p = [db |-> d, txs |-> [i \in 1..num |-> rows[i].tx]]
  BY DEF TakePoRs, SideChainGetFirstQueue, d, e, full, rows, num, size, wait, waits, fill, share
<1> HIDE DEF e, q, p, t
<1>13. /\ Len(e.RoundTable) = Len(t) /\ Len(t) # 0 /\ Len(t) \in 1..Len(t)
       /\ e.RoundTable[Len(t)].RoundNumber = scRound
  <2>1. Len(t) # 0 /\ t[Len(t)].RoundNumber = scRound
    BY DEF t
  <2>2. Len(t) \in 1..Len(t)
    BY <1>1, <2>1
  <2> QED  BY <1>10, <1>11, <2>1, <2>2 DEF MoreMarked
<1>14. /\ SideTyped(d) /\ d.FirstQueue = e.FirstQueue /\ Len(d.RoundTable) = Len(t)
       /\ \A i \in 1..Len(t) : i # Len(t) => d.RoundTable[i] = e.RoundTable[i]
       /\ d.RoundTable[Len(t)].BlockSpaceFull = e.RoundTable[Len(t)].BlockSpaceFull
       /\ d.RoundTable[Len(t)].QueueFill = fill
  <2>1. num \in Int
    BY <1>7
  <2>2. FinalFiled(d, e, fill)
    BY <1>7, <1>8, <1>9, <1>11, <1>13, <2>1, FinalInfoFiled
  <2> HIDE DEF d
  <2> QED  BY <1>13, <2>2 DEF FinalFiled
<1> HIDE DEF d
<1>15. p.db = d /\ p.txs = [i \in 1..num |-> rows[i].tx]
  BY <1>12
<1>16. p.txs = [i \in 1..num |-> db.FirstQueue[i].tx] /\ p.txs \in Seq(PoRSet)
  <2>1. [i \in 1..num |-> rows[i].tx] \in Seq(PoRSet)
    BY <1>2, <1>4, TxsOfRows
  <2>2. \A i \in 1..num : rows[i] = db.FirstQueue[i]
    BY <1>4, <1>5, <1>7
  <2> QED  BY <1>15, <2>1, <2>2
<1>17. SideBlock(p, db, num)
  BY <1>5, <1>7, <1>10, <1>11, <1>13, <1>14, <1>15, <1>16 DEF SideBlock, MoreMarked, t
<1> QED  BY <1>17 DEF p

\* The table u has one row more than t; marks are not taken back.
OneRowMore(t, u) ==
    /\ t \in Seq(SideRow) /\ u \in Seq(SideRow) /\ Len(u) = Len(t) + 1
    /\ \A i \in 1..Len(t) : /\ u[i].QueueFill = t[i].QueueFill
                            /\ (t[i].BlockSpaceFull => u[i].BlockSpaceFull)
    /\ u[Len(t) + 1].QueueFill > 0 => u[Len(t) + 1].BlockSpaceFull

\* A side chain block takes the first n PoRs.
PoRsLeft(txs, n) ==
    /\ SideTyped(sidechainDb')
    /\ n \in 0..Len(sidechainDb.FirstQueue)
    /\ txs = [i \in 1..n |-> sidechainDb.FirstQueue[i].tx]
    /\ txs \in Seq(PoRSet)
    /\ sidechainDb'.FirstQueue = WithoutFirst(sidechainDb.FirstQueue, n)
    /\ OneRowMore(sidechainDb.RoundTable, sidechainDb'.RoundTable)
    /\ scBlocks' = Append(scBlocks, txs)

\* The database d is db with a row for round n.
RowReady(d, db, n) ==
    /\ SideTyped(d) /\ d.FirstQueue = db.FirstQueue
    /\ OneRowMore(db.RoundTable, d.RoundTable)
    /\ Len(d.RoundTable) # 0
    /\ d.RoundTable[Len(d.RoundTable)].RoundNumber = n

LEMMA RowIsOneMore ==
    ASSUME NEW db, SideTyped(db), NEW n \in Int, NEW size \in Int, NEW mcRound \in Int
    PROVE  RowReady(InsertIntoSideChainRoundTable(db, n, size, mcRound), db, n)
<1> DEFINE d == InsertIntoSideChainRoundTable(db, n, size, mcRound)
           row == NewSideRow(n, size, mcRound)
<1>1. SideTyped(d) /\ d.FirstQueue = db.FirstQueue /\ d.RoundTable = Append(db.RoundTable, row)
  BY SideRowAdded
<1> HIDE DEF d
<1>2. d.RoundTable \in Seq(SideRow) /\ db.RoundTable \in Seq(SideRow)
  BY <1>1 DEF SideTyped
<1>3. row.QueueFill = 0 /\ row.RoundNumber = n
  BY DEF NewSideRow
<1> HIDE DEF row
<1>4. /\ Len(d.RoundTable) = Len(db.RoundTable) + 1 /\ d.RoundTable[Len(db.RoundTable) + 1] = row
      /\ \A i \in 1..Len(db.RoundTable) : d.RoundTable[i] = db.RoundTable[i]
  BY <1>1, <1>2
<1>5. Len(db.RoundTable) \in Nat
  BY <1>2
<1>6. OneRowMore(db.RoundTable, d.RoundTable)
  BY <1>2, <1>3, <1>4, <1>5 DEF OneRowMore
<1> QED  BY <1>1, <1>3, <1>4, <1>5, <1>6 DEF d, RowReady

\* A block with its row.
LEMMA BlockOnRow ==
    ASSUME NEW db, NEW added, NEW p, NEW n, SideTyped(db), SideTyped(added),
           added.FirstQueue = db.FirstQueue, OneRowMore(db.RoundTable, added.RoundTable),
           SideBlock(p, added, n)
    PROVE  /\ SideTyped(p.db) /\ n \in 0..Len(db.FirstQueue)
           /\ p.txs = [i \in 1..n |-> db.FirstQueue[i].tx] /\ p.txs \in Seq(PoRSet)
           /\ p.db.FirstQueue = WithoutFirst(db.FirstQueue, n)
           /\ OneRowMore(db.RoundTable, p.db.RoundTable)
<1> DEFINE t == db.RoundTable
           a == added.RoundTable
           u == p.db.RoundTable
<1>1. SideTyped(p.db) /\ u \in Seq(SideRow) /\ t \in Seq(SideRow) /\ Len(t) \in Nat
  BY DEF SideBlock, SideTyped
<1>2. Len(a) = Len(t) + 1 /\ Len(u) = Len(a)
  BY DEF SideBlock, OneRowMore
<1>3. \A i \in 1..Len(t) : a[i].QueueFill = t[i].QueueFill
                           /\ (t[i].BlockSpaceFull => a[i].BlockSpaceFull)
  BY DEF OneRowMore
<1>4. \A i \in 1..Len(t) : u[i].QueueFill = a[i].QueueFill
                           /\ (a[i].BlockSpaceFull => u[i].BlockSpaceFull)
  <2> TAKE i \in 1..Len(t)
  <2>1. i \in 1..Len(a) /\ i # Len(a)
    BY <1>1, <1>2
  <2> QED  BY <2>1 DEF SideBlock
<1>5. u[Len(a)].QueueFill > 0 => u[Len(a)].BlockSpaceFull
  BY DEF SideBlock
<1> HIDE DEF t, a, u
<1>6. OneRowMore(t, u)
  BY <1>1, <1>2, <1>3, <1>4, <1>5 DEF OneRowMore
<1> QED  BY <1>1, <1>6 DEF SideBlock, t, u

LEMMA MetaBlocks ==
    ASSUME LedgerTyped, MetaBlock
    PROVE  \E txs, n :
              /\ PoRsLeft(txs, n)
              /\ SummPoRTxs' = [a \in Agreements |-> SummPoRTxs[a] +
                    Cardinality({i \in 1..Len(txs) : txs[i].agr = a})]
<1> DEFINE added == InsertIntoSideChainRoundTable(sidechainDb, SCRoundNumber, 0, MCRoundNumber)
           p == TakePoRs(added, MetaBlockMeasurement + SCSigLen,
                         SCRoundNumber, MCRoundNumber, MCRoundDuration)
<1>1. /\ conf \in Experiments /\ SideTyped(sidechainDb)
      /\ SCRoundNumber \in Int /\ MCRoundNumber \in Int /\ 0 \in Int /\ MCRoundDuration \in Int
      /\ MetaBlockMeasurement + SCSigLen \in Int
  <2>1. MetaBlockMeasurement \in Nat /\ SCSigLen \in Nat
    BY SizesAreNumbers
  <2> QED  BY <2>1, TimesAreNumbers DEF LedgerTyped
<1>2. /\ sidechainDb' = updateSideChainBCOverallEvaluation(p.db)
      /\ scBlocks' = Append(scBlocks, p.txs)
      /\ SummPoRTxs' = [a \in Agreements |-> SummPoRTxs[a] +
            Cardinality({i \in 1..Len(p.txs) : p.txs[i].agr = a})]
  BY DEF MetaBlock, updateSideChainBCRound
<1>3. /\ SideTyped(added) /\ added.FirstQueue = sidechainDb.FirstQueue
      /\ OneRowMore(sidechainDb.RoundTable, added.RoundTable)
      /\ Len(added.RoundTable) # 0
      /\ added.RoundTable[Len(added.RoundTable)].RoundNumber = SCRoundNumber
  <2>1. RowReady(added, sidechainDb, SCRoundNumber)
    BY <1>1, RowIsOneMore
  <2> HIDE DEF added
  <2> QED  BY <2>1 DEF RowReady
<1> HIDE DEF added
<1>4. PICK n : SideBlock(p, added, n)
  BY <1>1, <1>3, PoRsTaken
<1> HIDE DEF p
<1>5. /\ SideTyped(p.db) /\ n \in 0..Len(sidechainDb.FirstQueue)
      /\ p.txs = [i \in 1..n |-> sidechainDb.FirstQueue[i].tx] /\ p.txs \in Seq(PoRSet)
      /\ p.db.FirstQueue = WithoutFirst(sidechainDb.FirstQueue, n)
      /\ OneRowMore(sidechainDb.RoundTable, p.db.RoundTable)
  BY <1>1, <1>3, <1>4, BlockOnRow
<1>6. /\ SideTyped(sidechainDb') /\ sidechainDb'.FirstQueue = p.db.FirstQueue
      /\ sidechainDb'.RoundTable = p.db.RoundTable
  <2> DEFINE x == [RoundNbr |-> SCRoundNumber, BCSize |-> GetSumSideChain(p.db, "BCSize"),
                   PoRTx |-> GetSumSideChain(p.db, "PoRTx")]
  <2>1. sidechainDb' = [p.db EXCEPT !.OverallEvaluation = Append(@, x)]
    BY <1>2 DEF updateSideChainBCOverallEvaluation, InsertIntoSideChainOverallEvaluation
  <2> HIDE DEF x
  <2> QED  BY <1>5, <2>1 DEF SideTyped, SideShape
<1>7. PoRsLeft(p.txs, n)
  BY <1>2, <1>5, <1>6 DEF PoRsLeft
<1> QED  BY <1>2, <1>7

LEMMA SidePurgeRounds ==
    ASSUME LedgerTyped, SidePurgeRound
    PROVE  \E txs, n :
              /\ PoRsLeft(txs, n)
              /\ porPurged' = porPurged + Len(txs)
              /\ scPurge'.state = IF sidechainDb.FirstQueue = <<>> THEN "ended" ELSE "running"
<1> DEFINE added == InsertIntoSideChainRoundTable(sidechainDb, scPurge.next, 0, scPurge.round)
           p == TakePoRs(added, scPurge.header, scPurge.next, scPurge.round, SCRoundPerEpoch)
           empty == SideChainGetFirstQueue(added) = <<>>
<1>1. /\ conf \in Experiments /\ SideTyped(sidechainDb)
      /\ scPurge.next \in Int /\ scPurge.round \in Int /\ 0 \in Int /\ scPurge.header \in Int
      /\ SCRoundPerEpoch \in Int
  BY TimesAreNumbers DEF LedgerTyped
<1>2. /\ sidechainDb' = IF empty THEN added ELSE p.db
      /\ scBlocks' = Append(scBlocks, p.txs)
      /\ porPurged' = porPurged + Len(p.txs)
      /\ scPurge' = SidePurgeNext(IF empty THEN "ended" ELSE "running")
  BY DEF SidePurgeRound
<1>3. /\ SideTyped(added) /\ added.FirstQueue = sidechainDb.FirstQueue
      /\ OneRowMore(sidechainDb.RoundTable, added.RoundTable)
      /\ Len(added.RoundTable) # 0
      /\ added.RoundTable[Len(added.RoundTable)].RoundNumber = scPurge.next
  <2>1. RowReady(added, sidechainDb, scPurge.next)
    BY <1>1, RowIsOneMore
  <2> HIDE DEF added
  <2> QED  BY <2>1 DEF RowReady
<1> HIDE DEF added
<1>4. PICK n : SideBlock(p, added, n)
  BY <1>1, <1>3, PoRsTaken
<1> HIDE DEF p
<1>5. /\ SideTyped(p.db) /\ n \in 0..Len(sidechainDb.FirstQueue)
      /\ p.txs = [i \in 1..n |-> sidechainDb.FirstQueue[i].tx] /\ p.txs \in Seq(PoRSet)
      /\ p.db.FirstQueue = WithoutFirst(sidechainDb.FirstQueue, n)
      /\ OneRowMore(sidechainDb.RoundTable, p.db.RoundTable)
  BY <1>1, <1>3, <1>4, BlockOnRow
<1>6. empty <=> sidechainDb.FirstQueue = <<>>
  <2> DEFINE q == sidechainDb.FirstQueue
  <2>1. empty <=> FetchRows(q) = <<>>
    BY <1>3 DEF SideChainGetFirstQueue
  <2>2. q \in Queue(PoRSet) /\ q \in Seq(RowOf(PoRSet))
    BY <1>1 DEF SideTyped, Queue
  <2> HIDE DEF q, empty
  <2>3. FetchRows(q) = <<>> <=> q = <<>>
    <3>1. 0 \in 0..Len(FetchRows(q))
      BY <2>2, FetchLimitAssumption DEF FetchRows
    <3>2. /\ Len(FetchRows(q)) \in Nat /\ Len(FetchRows(q)) <= Len(q)
          /\ FetchRows(q) \in Seq(RowOf(PoRSet))
          /\ (Len(q) # 0 => Len(FetchRows(q)) # 0)
      BY <2>2, <3>1, DeletedRows
    <3>3. FetchRows(q) = <<>> <=> Len(FetchRows(q)) = 0
      BY <3>2
    <3>4. q = <<>> <=> Len(q) = 0
      BY <2>2
    <3> QED  BY <2>2, <3>2, <3>3, <3>4
  <2> QED  BY <2>1, <2>3 DEF q
<1> HIDE DEF empty
<1>7. PoRsLeft(p.txs, n)
  <2>1. CASE empty
    <3>1. n = 0 /\ p.txs = <<>>
      <4>1. Len(sidechainDb.FirstQueue) = 0
        BY <1>6, <2>1
      <4> QED  BY <1>5, <4>1
    <3>2. WithoutFirst(sidechainDb.FirstQueue, n) = sidechainDb.FirstQueue
      <4> DEFINE q == sidechainDb.FirstQueue
      <4>1. q \in Seq(RowOf(PoRSet)) /\ q = <<>>
        BY <1>1, <1>6, <2>1 DEF SideTyped, Queue
      <4> HIDE DEF q
      <4>2. WithoutFirst(q, 0) = q
        BY <4>1 DEF WithoutFirst
      <4> QED  BY <3>1, <4>2 DEF q
    <3>3. sidechainDb' = added
      BY <1>2, <2>1
    <3> QED  BY <1>2, <1>3, <1>5, <3>2, <3>3 DEF PoRsLeft
  <2>2. CASE ~empty
    <3>1. sidechainDb' = p.db
      BY <1>2, <2>2
    <3> QED  BY <1>2, <1>5, <3>1 DEF PoRsLeft
  <2> QED  BY <2>1, <2>2
<1>8. scPurge'.state = IF empty THEN "ended" ELSE "running"
  BY <1>2 DEF SidePurgeNext, LedgerTyped
<1> QED  BY <1>2, <1>6, <1>7, <1>8

-----------------------------------------------------------------------------
(* The types are invariant.                                                *)

\* What has to be shown of a step.
TypedNext ==
    /\ conf' = conf
    /\ MCRoundNumber' \in Nat \ {0} /\ MCRoundNumber' <= conf.SimulationRounds + 1
    /\ SCRoundNumber' \in 1..SCRoundPerEpoch
    /\ MainTyped(mainchainDb')
    /\ Numbered(mainchainDb'.RoundTable)
    /\ RowsPrepared'
    /\ SideTyped(sidechainDb')
    /\ SummPoRTxs' \in [Agreements -> Nat]
    /\ crashed' \in BOOLEAN
    /\ blocks' \in Seq(BlockSet)
    /\ scBlocks' \in Seq(Seq(PoRSet))
    /\ issued' \in Seq(TxSet)
    /\ porIssued' \in Nat
    /\ porPurged' \in Nat
    /\ mcPurge' \in Nat \cup {-1}
    /\ scPurge' \in [state : {"idle", "running", "ended"}, next : Int, round : Int, header : Int]

LEMMA SameSets ==
    ASSUME conf' = conf
    PROVE  /\ Agreements' = Agreements /\ TxSet' = TxSet /\ PoRSet' = PoRSet
           /\ BlockSet' = BlockSet
           /\ (MainTyped(mainchainDb') => MainTyped(mainchainDb)')
           /\ (SideTyped(sidechainDb') => SideTyped(sidechainDb)')
<1>1. Agreements' = Agreements
  BY DEF Agreements
<1>2. TxSet' = TxSet /\ PoRSet' = PoRSet
  BY <1>1 DEF TxSet, PoRSet, TxSizes
<1>3. BlockSet' = BlockSet
  BY <1>2 DEF BlockSet, SyncSet
<1>4. MainTyped(mainchainDb') => MainTyped(mainchainDb)'
  BY <1>1, <1>2 DEF MainTyped, MainShape, Queue, RowOf, MarketRow, PaySet, SyncSet, RoundRow,
                    StatsSet
<1>5. SideTyped(sidechainDb') => SideTyped(sidechainDb)'
  BY <1>2 DEF SideTyped, SideShape, Queue, RowOf, SideRow
<1> QED  BY <1>1, <1>2, <1>3, <1>4, <1>5

LEMMA TypedAfter ==
    ASSUME LedgerTyped, TypedNext
    PROVE  LedgerTyped'
<1>1. conf' = conf
  BY DEF TypedNext
<1>2. /\ Agreements' = Agreements /\ TxSet' = TxSet /\ PoRSet' = PoRSet /\ BlockSet' = BlockSet
      /\ MainTyped(mainchainDb)' /\ SideTyped(sidechainDb)'
  BY <1>1, SameSets DEF TypedNext
<1>3. Numbered(mainchainDb.RoundTable)'
  BY DEF TypedNext, Numbered
<1>4. conf' \in Experiments
  BY <1>1 DEF LedgerTyped
<1> QED  BY <1>1, <1>2, <1>3, <1>4 DEF TypedNext, LedgerTyped

\* A step that leaves the rows of the rounds alone.
LEMMA RowsKept ==
    ASSUME LedgerTyped, mainchainDb'.RoundTable = mainchainDb.RoundTable,
           conf' = conf, MCRoundNumber' = MCRoundNumber, crashed' = crashed, mcPurge' = mcPurge
    PROVE  Numbered(mainchainDb'.RoundTable) /\ RowsPrepared'
  BY DEF LedgerTyped, RowsPrepared

LEMMA NumberedAgain ==
    ASSUME NEW b, NEW q, NEW n, NEW t, NEW u, NEW round, BlockFrom(b, q, n, t, u, round),
           Numbered(t)
    PROVE  Numbered(u)
  BY DEF BlockFrom, Numbered

LEMMA CrashTyped ==
    ASSUME LedgerTyped, mcPurge = 0, CrashWithoutPower, UNCHANGED purgeVars
    PROVE  TypedNext
<1>1. /\ mainchainDb' = PoweredDb /\ crashed' = TRUE /\ ~crashed
      /\ MCRoundNumber <= conf.SimulationRounds
      /\ UNCHANGED <<conf, MCRoundNumber, SCRoundNumber, sidechainDb, SummPoRTxs, blocks,
                     scBlocks, issued, porIssued, mcPurge, scPurge, porPurged>>
  BY DEF CrashWithoutPower, MainChainTurn, purgeVars
<1> DEFINE t == mainchainDb'.RoundTable
<1>2. MainTyped(mainchainDb') /\ t = Append(mainchainDb.RoundTable, NextRow)
  BY <1>1, RoundPrepared
<1>3. Len(t) = MCRoundNumber + 2 /\ Numbered(t) /\ t[Len(t)] = NextRow
  BY <1>1, <1>2, RowsOfNext
<1>4. NextRow.stats = NoStats
  BY DEF NextRow, NewRow
<1> HIDE DEF t
<1>5. RowsPrepared'
  BY <1>1, <1>3, <1>4 DEF RowsPrepared, LedgerTyped, t
<1> QED  BY <1>1, <1>2, <1>3, <1>5 DEF LedgerTyped, TypedNext, t

LEMMA SideInserted ==
    ASSUME NEW db, SideTyped(db), NEW txs \in Seq(PoRSet)
    PROVE  LET d == BulkInsertIntoSideChainFirstQueue(db, txs)
           IN  /\ SideTyped(d)
               /\ d.FirstQueue = InsertRows(db.FirstQueue, txs)
               /\ d.RoundTable = db.RoundTable
<1> DEFINE q == InsertRows(db.FirstQueue, txs)
           d == BulkInsertIntoSideChainFirstQueue(db, txs)
<1>1. SideShape(db) /\ db.FirstQueue \in Queue(PoRSet)
  BY DEF SideTyped
<1>2. q \in Queue(PoRSet)
  BY <1>1, InsertedRows
<1>3. d = [db EXCEPT !.FirstQueue = q]
  BY <1>1 DEF BulkInsertIntoSideChainFirstQueue, SideShape
<1> HIDE DEF d, q
<1>4. SideShape(d) /\ d.FirstQueue = q /\ d.RoundTable = db.RoundTable
  BY <1>1, <1>3 DEF SideShape
<1>5. SideTyped(d)
  BY <1>2, <1>4 DEF SideTyped
<1> QED  BY <1>4, <1>5 DEF d, q

LEMMA OwedAreCounted ==
    ASSUME LedgerTyped
    PROVE  Cardinality({a \in Agreements : OwesPoR(Market[a])}) \in Nat
<1>1. NumAgreements \in Nat /\ Agreements = 1..NumAgreements
  BY ConfIsSound DEF LedgerTyped
<1>2. {a \in Agreements : OwesPoR(Market[a])} \subseteq 1..NumAgreements
  BY <1>1
<1> QED  BY <1>1, <1>2, CountOf

LEMMA RoundTyped ==
    ASSUME LedgerTyped, mcPurge = 0, EmptyBlock \/ FullBlock, UNCHANGED purgeVars
    PROVE  TypedNext
<1>1. /\ sidechainDb' = BulkInsertIntoSideChainFirstQueue(sidechainDb, NewPoRs)
      /\ issued' = issued \o NewTxs
      /\ porIssued' = porIssued + Cardinality({a \in Agreements : OwesPoR(Market[a])})
      /\ MCRoundNumber' = MCRoundNumber + 1
      /\ ~crashed /\ MCRoundNumber <= conf.SimulationRounds
      /\ UNCHANGED <<conf, SCRoundNumber, SummPoRTxs, scBlocks, crashed, mcPurge, scPurge, porPurged>>
  BY DEF EmptyBlock, FullBlock, CollectRest, MainChainTurn, purgeVars, CollectedSideDb
<1>2. PICK b, n : RoundClosed(b, n)
  BY RoundCloses
<1> DEFINE q == InsertRows(mainchainDb.FirstQueue, NewTxs)
           t == Append(mainchainDb.RoundTable, NextRow)
           u == mainchainDb'.RoundTable
<1>3. MainTyped(mainchainDb') /\ BlockFrom(b, q, n, t, u, MCRoundNumber)
      /\ blocks' = Append(blocks, b)
  BY <1>2 DEF RoundClosed
<1>4. Len(t) = MCRoundNumber + 2 /\ Numbered(t) /\ t[Len(t)] = NextRow
  BY <1>1, RowsOfNext
<1> HIDE DEF t, u, q
<1>5. Numbered(u) /\ Len(u) = MCRoundNumber + 2
  <2>1. Numbered(u)
    BY <1>3, <1>4, NumberedAgain
  <2> QED  BY <1>3, <1>4, <2>1 DEF BlockFrom
<1>6. u[Len(u)].stats = NoStats
  <2>1. Len(t) \in 1..Len(t) /\ Len(u) = Len(t)
    BY <1>4, <1>5 DEF LedgerTyped
  <2>2. t[Len(t)].RoundNumber # MCRoundNumber /\ t[Len(t)].stats = NoStats
    BY <1>4 DEF NextRow, NewRow, LedgerTyped
  <2> QED  BY <1>3, <2>1, <2>2 DEF BlockFrom
<1>7. RowsPrepared'
  BY <1>1, <1>5, <1>6 DEF RowsPrepared, LedgerTyped, u
<1>8. blocks' \in Seq(BlockSet)
  BY <1>3 DEF BlockFrom, LedgerTyped
<1>9. SideTyped(sidechainDb')
  BY <1>1, NewAreTxs, SideInserted DEF LedgerTyped
<1>10. issued' \in Seq(TxSet)
  BY <1>1, NewAreTxs DEF LedgerTyped
<1>11. porIssued' \in Nat
  BY <1>1, OwedAreCounted DEF LedgerTyped
<1>12. MCRoundNumber' \in Nat \ {0} /\ MCRoundNumber' <= conf.SimulationRounds + 1
  <2>1. conf.SimulationRounds \in Nat
    BY ConfIsSound DEF LedgerTyped
  <2> QED  BY <1>1, <2>1 DEF LedgerTyped
<1> QED  BY <1>1, <1>3, <1>5, <1>7, <1>8, <1>9, <1>10, <1>11, <1>12 DEF LedgerTyped, TypedNext, u

LEMMA MetaTyped ==
    ASSUME LedgerTyped, MetaBlock, UNCHANGED purgeVars
    PROVE  TypedNext
<1>1. /\ SCRoundNumber' = SCRoundNumber + 1 /\ SCRoundNumber # SCRoundPerEpoch
      /\ UNCHANGED <<conf, MCRoundNumber, mainchainDb, crashed, blocks, issued, porIssued,
                     mcPurge, scPurge, porPurged>>
  BY DEF MetaBlock, SummaryDue, purgeVars
<1>2. PICK txs, n : /\ PoRsLeft(txs, n)
                    /\ SummPoRTxs' = [a \in Agreements |-> SummPoRTxs[a] +
                          Cardinality({i \in 1..Len(txs) : txs[i].agr = a})]
  BY MetaBlocks
<1>3. SideTyped(sidechainDb') /\ txs \in Seq(PoRSet) /\ scBlocks' = Append(scBlocks, txs)
  BY <1>2 DEF PoRsLeft
<1>4. scBlocks' \in Seq(Seq(PoRSet))
  BY <1>3 DEF LedgerTyped
<1>5. SummPoRTxs' \in [Agreements -> Nat]
  <2> DEFINE c(a) == Cardinality({i \in 1..Len(txs) : txs[i].agr = a})
  <2>1. \A a \in Agreements : c(a) \in Nat
    <3> TAKE a \in Agreements
    <3>1. {i \in 1..Len(txs) : txs[i].agr = a} \subseteq 1..Len(txs) /\ Len(txs) \in Nat
      BY <1>3
    <3> QED  BY <3>1, CountOf
  <2>2. SummPoRTxs \in [Agreements -> Nat]
    BY DEF LedgerTyped
  <2>3. SummPoRTxs' = [a \in Agreements |-> SummPoRTxs[a] + c(a)]
    BY <1>2
  <2> HIDE DEF c
  <2> QED  BY <2>1, <2>2, <2>3
<1>6. SCRoundNumber' \in 1..SCRoundPerEpoch
  BY <1>1, TimesAreNumbers DEF LedgerTyped
<1>7. Numbered(mainchainDb'.RoundTable) /\ RowsPrepared'
  BY <1>1, RowsKept
<1>8. MainTyped(mainchainDb')
  BY <1>1 DEF LedgerTyped
<1> QED  BY <1>1, <1>3, <1>4, <1>5, <1>6, <1>7, <1>8 DEF LedgerTyped, TypedNext

\* The summary block hands a TxSync and, when due, payments to the main chain.
SummaryPayments == IF PaymentsDue THEN StoragePayments ELSE <<>>
SummaryTx == [size |-> SyncTxSize, por |-> Total(SummPoRTxs), issued |-> MCRoundNumber]

LEMMA SummaryDone ==
    ASSUME LedgerTyped, SummaryBlock
    PROVE  /\ SummaryPayments \in Seq(TxSet)
           /\ SummPoRTxs \in Seq(Int)
           /\ SummaryTx \in SyncSet
           /\ MainTyped(mainchainDb')
           /\ mainchainDb'.MarketMatching = mainchainDb.MarketMatching
           /\ mainchainDb'.FirstQueue = InsertRows(mainchainDb.FirstQueue, SummaryPayments)
           /\ mainchainDb'.SyncTxQueue = InsertRows(mainchainDb.SyncTxQueue, <<SummaryTx>>)
           /\ mainchainDb'.RoundTable = mainchainDb.RoundTable
           /\ mainchainDb'.OverallEvaluation = mainchainDb.OverallEvaluation
           /\ RowReady(sidechainDb', sidechainDb, SCRoundNumber)
           /\ issued' = issued \o SummaryPayments
<1>1. /\ mainchainDb' = BulkInsertIntoMainChainFirstQueue(
             InsertIntoMainChainSyncTxQueue(mainchainDb, SummaryTx), SummaryPayments)
      /\ issued' = issued \o SummaryPayments
      /\ sidechainDb' = InsertIntoSideChainRoundTable(sidechainDb, SCRoundNumber,
             SummaryBlockMeasurement + SCSigLen + SyncTxSize, MCRoundNumber)
  BY DEF SummaryBlock, SummaryPayments, SummaryTx, SyncedDb, updateSideChainBCRound
<1>2. conf \in Experiments /\ MainTyped(mainchainDb) /\ SideTyped(sidechainDb)
      /\ MCRoundNumber \in Nat /\ SCRoundNumber \in Int /\ SummPoRTxs \in [Agreements -> Nat]
  BY TimesAreNumbers DEF LedgerTyped
<1>3. NumAgreements \in Nat /\ Agreements = 1..NumAgreements
  BY <1>2, ConfIsSound
<1>4. SummPoRTxs \in Seq(Int)
  BY <1>2, <1>3
<1>5. SyncTxSize \in Nat
  <2>1. {a \in Agreements : SummPoRTxs[a] # 0} \subseteq 1..NumAgreements
    BY <1>3
  <2>2. Cardinality({a \in Agreements : SummPoRTxs[a] # 0}) \in Nat
    BY <1>3, <2>1, CountOf
  <2> QED  BY <2>2, SizesAreNumbers DEF SyncTxSize
<1>6. SummaryTx \in SyncSet
  <2>1. Total(SummPoRTxs) \in Int
    BY <1>4, TotalStep
  <2> QED  BY <1>2, <1>5, <2>1 DEF SummaryTx, SyncSet
<1>7. SummaryPayments \in Seq(TxSet)
  <2>1. \A a \in Agreements : Tx("TxStoragePayment", ServerOf(a)) \in TxSet
    <3> TAKE a \in Agreements
    <3>1. ServerOf(a) \in Agreements
      BY <1>2, ServersHaveAgreements
    <3>2. "TxStoragePayment" \in TxNames
      BY DEF TxNames
    <3> QED  BY <3>1, <3>2, CollectedAreTxs
  <2>2. StoragePayments \in Seq(TxSet)
    BY <1>3, <2>1 DEF StoragePayments
  <2> QED  BY <2>2 DEF SummaryPayments
<1> DEFINE e == InsertIntoMainChainSyncTxQueue(mainchainDb, SummaryTx)
<1>8. /\ MainTyped(e)
      /\ e.MarketMatching = mainchainDb.MarketMatching
      /\ e.FirstQueue = mainchainDb.FirstQueue
      /\ e.SyncTxQueue = InsertRows(mainchainDb.SyncTxQueue, <<SummaryTx>>)
      /\ e.OverallEvaluation = mainchainDb.OverallEvaluation
      /\ e.RoundTable = mainchainDb.RoundTable
  BY <1>2, <1>6, SyncInserted
<1> DEFINE d == BulkInsertIntoMainChainFirstQueue(e, SummaryPayments)
<1> HIDE DEF e
<1>9. /\ MainTyped(d)
      /\ d.MarketMatching = e.MarketMatching
      /\ d.FirstQueue = InsertRows(e.FirstQueue, SummaryPayments)
      /\ d.SyncTxQueue = e.SyncTxQueue
      /\ d.OverallEvaluation = e.OverallEvaluation
      /\ d.RoundTable = e.RoundTable
  BY <1>7, <1>8, FirstInserted
<1>10. mainchainDb' = d
  BY <1>1 DEF e
<1> HIDE DEF d
<1>11. RowReady(sidechainDb', sidechainDb, SCRoundNumber)
  <2> DEFINE bytes == SummaryBlockMeasurement + SCSigLen + SyncTxSize
  <2>1. bytes \in Int
    <3>1. SummaryBlockMeasurement \in Nat /\ SCSigLen \in Nat
      BY SizesAreNumbers
    <3> QED  BY <1>5, <3>1
  <2>2. sidechainDb' = InsertIntoSideChainRoundTable(sidechainDb, SCRoundNumber, bytes,
                                                     MCRoundNumber)
    BY <1>1
  <2>3. MCRoundNumber \in Int
    BY <1>2
  <2> HIDE DEF bytes
  <2> QED  BY <1>2, <2>1, <2>2, <2>3, RowIsOneMore
<1> QED  BY <1>1, <1>4, <1>6, <1>7, <1>8, <1>9, <1>10, <1>11

LEMMA SummaryTyped ==
    ASSUME LedgerTyped, SummaryBlock, UNCHANGED purgeVars
    PROVE  TypedNext
<1>1. /\ SCRoundNumber' = 1 /\ SummPoRTxs' = [a \in Agreements |-> 0]
      /\ scBlocks' = Append(scBlocks, <<>>)
      /\ UNCHANGED <<conf, MCRoundNumber, crashed, blocks, porIssued, mcPurge, scPurge, porPurged>>
  BY DEF SummaryBlock, SumsAfterSync, purgeVars
<1>2. /\ SummaryPayments \in Seq(TxSet)
      /\ MainTyped(mainchainDb')
      /\ mainchainDb'.RoundTable = mainchainDb.RoundTable
      /\ RowReady(sidechainDb', sidechainDb, SCRoundNumber)
      /\ issued' = issued \o SummaryPayments
  BY SummaryDone
<1>3. Numbered(mainchainDb'.RoundTable) /\ RowsPrepared'
  BY <1>1, <1>2, RowsKept
<1>4. issued' \in Seq(TxSet)
  BY <1>2 DEF LedgerTyped
<1>5. scBlocks' \in Seq(Seq(PoRSet))
  <2>1. <<>> \in Seq(PoRSet)
    OBVIOUS
  <2> QED  BY <1>1, <2>1 DEF LedgerTyped
<1>6. SCRoundNumber' \in 1..SCRoundPerEpoch
  BY <1>1, TimesAreNumbers
<1>7. SummPoRTxs' \in [Agreements -> Nat]
  BY <1>1
<1>8. SideTyped(sidechainDb')
  BY <1>2 DEF RowReady
<1> QED  BY <1>1, <1>2, <1>3, <1>4, <1>5, <1>6, <1>7, <1>8 DEF LedgerTyped, TypedNext

LEMMA StartMainTyped ==
    ASSUME LedgerTyped, StartMainPurge
    PROVE  /\ TypedNext
           /\ mainchainDb' = [mainchainDb EXCEPT !.RoundTable = Front(@)]
           /\ mainchainDb.RoundTable \in Seq(RoundRow)
           /\ Len(mainchainDb.RoundTable) = conf.SimulationRounds + 2
           /\ conf.SimulationRounds \in Nat
           /\ mainchainDb'.MarketMatching = mainchainDb.MarketMatching
           /\ mainchainDb'.FirstQueue = mainchainDb.FirstQueue
           /\ mainchainDb'.SyncTxQueue = mainchainDb.SyncTxQueue
           /\ mainchainDb'.OverallEvaluation = mainchainDb.OverallEvaluation
           /\ mainchainDb'.RoundTable = Front(mainchainDb.RoundTable)
<1> DEFINE t == mainchainDb.RoundTable
           n == conf.SimulationRounds
           u == Front(t)
<1>1. /\ MCRoundNumber = n + 1 /\ mcPurge = 0 /\ mcPurge' = n + 1
      /\ mainchainDb' = MainChainEndPosition(mainchainDb, n)
      /\ UNCHANGED <<conf, MCRoundNumber, SCRoundNumber, sidechainDb, SummPoRTxs, crashed,
                     blocks, scBlocks, issued, porIssued, scPurge, porPurged>>
  BY DEF StartMainPurge, SimulationOver
<1>2. MainShape(mainchainDb) /\ t \in Seq(RoundRow) /\ Numbered(t)
  BY DEF LedgerTyped, MainTyped
<1>3. n \in Nat \ {0}
  BY ConfIsSound DEF LedgerTyped
<1>4. ~crashed /\ Len(t) = n + 2 /\ t[Len(t)].stats = NoStats
  BY <1>1, <1>3 DEF LedgerTyped, RowsPrepared
<1> HIDE DEF n
<1>5. Last(t).RoundNumber = n + 1 /\ Last(t).stats.BCSize = 0
  <2>1. Last(t) = t[n + 2] /\ n + 2 \in 1..Len(t)
    BY <1>3, <1>4 DEF Last
  <2>2. t[n + 2].RoundNumber = n + 1
    BY <1>2, <1>3, <2>1 DEF Numbered
  <2> QED  BY <1>4, <2>1, <2>2 DEF NoStats
<1>6. mainchainDb' = [mainchainDb EXCEPT !.RoundTable = u]
  BY <1>1, <1>2, <1>5 DEF MainChainEndPosition, MainShape
<1>7. u \in Seq(RoundRow) /\ Len(u) = n + 1 /\ \A i \in 1..(n + 1) : u[i] = t[i]
  <2> HIDE DEF t
  <2> QED  BY <1>2, <1>3, <1>4 DEF Front
<1> HIDE DEF u, t
<1>8. /\ MainShape(mainchainDb')
      /\ mainchainDb'.MarketMatching = mainchainDb.MarketMatching
      /\ mainchainDb'.FirstQueue = mainchainDb.FirstQueue
      /\ mainchainDb'.SecondQueue = mainchainDb.SecondQueue
      /\ mainchainDb'.OverallEvaluation = mainchainDb.OverallEvaluation
      /\ mainchainDb'.SyncTxQueue = mainchainDb.SyncTxQueue
      /\ mainchainDb'.RoundTable = u
  BY <1>2, <1>6 DEF MainShape
<1>9. MainTyped(mainchainDb')
  BY <1>7, <1>8 DEF MainTyped, LedgerTyped
<1>10. Numbered(u)
  <2>1. Len(u) # 0 /\ \A i \in 1..Len(u) : u[i] = t[i] /\ i \in 1..Len(t)
    BY <1>3, <1>4, <1>7
  <2> QED  BY <1>2, <2>1 DEF Numbered
<1>11. RowsPrepared'
  BY <1>1, <1>3, <1>4, <1>7, <1>8 DEF RowsPrepared, n
<1>12. mcPurge' \in Nat
  BY <1>1, <1>3
<1>13. TypedNext
  BY <1>1, <1>8, <1>9, <1>10, <1>11, <1>12 DEF TypedNext, LedgerTyped
<1> QED  BY <1>2, <1>3, <1>4, <1>6, <1>8, <1>13 DEF n, t, u, MainShape

LEMMA MainPurgeTyped ==
    ASSUME LedgerTyped, MainPurgeRound
    PROVE  TypedNext
<1>1. /\ mcPurge > 0
      /\ UNCHANGED <<conf, MCRoundNumber, SCRoundNumber, sidechainDb, SummPoRTxs, crashed,
                     scBlocks, issued, porIssued, scPurge, porPurged>>
  BY DEF MainPurgeRound
<1> DEFINE added == InsertIntoMainChainRoundTable(mainchainDb, mcPurge, -1)
           t == Append(mainchainDb.RoundTable, NewRow(mcPurge, -1))
<1>2. IF NothingQueued(added) THEN mainchainDb' = added /\ mcPurge' = -1 /\ blocks' = blocks
      ELSE mcPurge' = mcPurge + 1 /\ \E b, n : PurgeRoundDone(b, n)
  BY PurgeRounds
<1>3. /\ MainTyped(mainchainDb) /\ mainchainDb.RoundTable \in Seq(RoundRow)
      /\ Numbered(mainchainDb.RoundTable) /\ mcPurge \in Nat \ {0}
      /\ Len(mainchainDb.RoundTable) = mcPurge /\ mcPurge > conf.SimulationRounds
      /\ MCRoundNumber = conf.SimulationRounds + 1 /\ ~crashed
      /\ conf.SimulationRounds \in Nat
  BY <1>1, ConfIsSound DEF LedgerTyped, MainTyped, RowsPrepared
<1>4. MainTyped(added) /\ added.RoundTable = t /\ t \in Seq(RoundRow)
  <2> DEFINE seed == -1
  <2>1. seed \in Int /\ mcPurge \in Int
    BY <1>3
  <2>2. /\ added = InsertIntoMainChainRoundTable(mainchainDb, mcPurge, seed)
        /\ t = Append(mainchainDb.RoundTable, NewRow(mcPurge, seed))
    OBVIOUS
  <2> HIDE DEF seed, added, t
  <2> QED  BY <1>3, <2>1, <2>2, RowAdded
<1>5. Len(t) = mcPurge + 1 /\ Numbered(t)
  <2> DEFINE r == NewRow(mcPurge, -1)
             v == mainchainDb.RoundTable
  <2>1. r.RoundNumber = mcPurge
    BY DEF NewRow
  <2> HIDE DEF r, v
  <2>2. t = Append(v, r)
    BY DEF r, v
  <2>3. v \in Seq(RoundRow) /\ Len(v) = mcPurge /\ \A i \in 1..Len(v) : v[i].RoundNumber = i - 1
    BY <1>3 DEF Numbered, v
  <2>4. Len(t) = mcPurge + 1 /\ t[mcPurge + 1] = r /\ \A i \in 1..mcPurge : t[i] = v[i]
    BY <1>3, <2>2, <2>3
  <2> HIDE DEF t
  <2>5. \A i \in 1..Len(t) : t[i].RoundNumber = i - 1
    <3> TAKE i \in 1..Len(t)
    <3>1. CASE i \in 1..mcPurge
      BY <2>3, <2>4, <3>1
    <3>2. CASE i = mcPurge + 1
      BY <1>3, <2>1, <2>4, <3>2
    <3> QED  BY <1>3, <2>4, <3>1, <3>2
  <2> QED  BY <1>3, <2>4, <2>5 DEF Numbered
<1>6. CASE NothingQueued(added)
  <2>1. mainchainDb' = added /\ mcPurge' = -1 /\ blocks' = blocks
    BY <1>2, <1>6
  <2> HIDE DEF added, t
  <2>2. RowsPrepared'
    BY <1>1, <1>3, <2>1 DEF RowsPrepared
  <2>3. MainTyped(mainchainDb') /\ Numbered(mainchainDb'.RoundTable)
    BY <1>4, <1>5, <2>1
  <2> QED  BY <1>1, <2>1, <2>2, <2>3 DEF LedgerTyped, TypedNext
<1>7. CASE ~NothingQueued(added)
  <2>1. mcPurge' = mcPurge + 1 /\ \E b, n : PurgeRoundDone(b, n)
    BY <1>2, <1>7
  <2>2. PICK b, n : PurgeRoundDone(b, n)
    BY <2>1
  <2> DEFINE u == mainchainDb'.RoundTable
             q == mainchainDb.FirstQueue
  <2>3. MainTyped(mainchainDb') /\ BlockFrom(b, q, n, t, u, mcPurge) /\ blocks' = Append(blocks, b)
    BY <2>2 DEF PurgeRoundDone
  <2> HIDE DEF t, u, q
  <2>4. Numbered(u)
    BY <2>3, <1>5, NumberedAgain
  <2>5. Len(u) = mcPurge + 1 /\ b \in BlockSet
    BY <1>5, <2>3 DEF BlockFrom
  <2>6. RowsPrepared'
    BY <1>1, <1>3, <2>1, <2>5 DEF RowsPrepared, u
  <2>7. blocks' \in Seq(BlockSet)
    BY <2>3, <2>5 DEF LedgerTyped
  <2>8. mcPurge' \in Nat
    BY <1>3, <2>1
  <2> QED  BY <1>1, <2>3, <2>4, <2>6, <2>7, <2>8 DEF LedgerTyped, TypedNext, u
<1> QED  BY <1>6, <1>7

\* The side chain's database at the start of sidechain-purge.
LEMMA SideEnded ==
    ASSUME NEW db, SideTyped(db)
    PROVE  LET end == SideChainEndPosition(db)
           IN  /\ SideTyped(end.db)
               /\ end.db.FirstQueue = db.FirstQueue
               /\ end.round \in Int
               /\ Len(end.db.RoundTable) <= Len(db.RoundTable)
               /\ \A i \in 1..Len(end.db.RoundTable) : end.db.RoundTable[i] = db.RoundTable[i]
<1> DEFINE t == db.RoundTable
           u == Front(t)
           end == SideChainEndPosition(db)
<1>1. SideShape(db) /\ t \in Seq(SideRow) /\ db.FirstQueue \in Queue(PoRSet)
  BY DEF SideTyped
<1>2. CASE t = <<>>
  <2>1. end = [round |-> 0, db |-> db]
    BY <1>2 DEF SideChainEndPosition
  <2>2. end.round = 0 /\ end.db = db
    BY <2>1
  <2>3. Len(t) <= Len(t)
    BY <1>1
  <2> HIDE DEF end
  <2> QED  BY <2>2, <2>3 DEF end
<1>3. CASE t # <<>> /\ Last(t).RoundNumber = 1 /\ Last(t).BCSize = 0
  <2>1. end = [round |-> 0, db |-> [db EXCEPT !.RoundTable = u]]
    BY <1>1, <1>3 DEF SideChainEndPosition, SideShape
  <2>2. /\ u \in Seq(SideRow) /\ Len(u) <= Len(t) /\ \A i \in 1..Len(u) : u[i] = t[i]
    <3> HIDE DEF t
    <3> QED  BY <1>1, <1>3 DEF Front
  <2> HIDE DEF u
  <2>3. end.round = 0 /\ end.db = [db EXCEPT !.RoundTable = u]
    BY <2>1
  <2> HIDE DEF end
  <2>4. SideShape(end.db) /\ end.db.FirstQueue = db.FirstQueue /\ end.db.RoundTable = u
    BY <1>1, <2>3 DEF SideShape
  <2>5. SideTyped(end.db)
    BY <1>1, <2>2, <2>4 DEF SideTyped
  <2> QED  BY <2>2, <2>3, <2>4, <2>5 DEF end
<1>4. CASE t # <<>> /\ ~(Last(t).RoundNumber = 1 /\ Last(t).BCSize = 0)
  <2>1. end = [round |-> Last(t).RoundNumber, db |-> db]
    BY <1>4 DEF SideChainEndPosition
  <2>2. end.round = Last(t).RoundNumber /\ end.db = db
    BY <2>1
  <2>3. Last(t).RoundNumber \in Int
    <3>1. Last(t) = t[Len(t)] /\ Len(t) \in 1..Len(t)
      BY <1>1, <1>4 DEF Last
    <3>2. t[Len(t)] \in SideRow
      BY <1>1, <3>1
    <3> QED  BY <3>1, <3>2 DEF SideRow
  <2>4. Len(t) <= Len(t)
    BY <1>1
  <2> HIDE DEF end
  <2> QED  BY <2>2, <2>3, <2>4 DEF end
<1> QED  BY <1>2, <1>3, <1>4

LEMMA HeaderIsNumber ==
    ASSUME NEW db, SideTyped(db), NEW size \in Int
    PROVE  SideChainGetLastRowSigLen(db, size) \in Int
<1> DEFINE t == db.RoundTable
           I == {i \in 1..Len(t) : t[i].RoundNumber = 29}
           last == SelectLastInSeq(t, LAMBDA row : row.RoundNumber = 29)
<1>1. t \in Seq(SideRow)
  BY DEF SideTyped
<1>2. last = IF I = {} THEN 0 ELSE Max(I)
  BY DEF SelectLastInSeq
<1>3. SideChainGetLastRowSigLen(db, size) =
        IF last = 0 THEN 0
        ELSE t[last].BCSize - t[last].PoRTx * (IF db.FirstQueue = <<>> THEN 0 ELSE size)
  BY DEF SideChainGetLastRowSigLen
<1> HIDE DEF last, t
<1>4. CASE I = {}
  BY <1>2, <1>3, <1>4
<1>5. CASE I # {}
  <2>1. I \subseteq 0..Len(t) /\ Len(t) \in Nat
    BY <1>1
  <2>2. Max(I) \in I
    <3> HIDE DEF I
    <3> QED  BY <1>5, <2>1, MaxOfBounded
  <2>3. last \in 1..Len(t)
    BY <1>2, <1>5, <2>2
  <2>4. t[last] \in SideRow
    BY <1>1, <2>3
  <2> DEFINE x == t[last].BCSize
             y == t[last].PoRTx
             z == IF db.FirstQueue = <<>> THEN 0 ELSE size
  <2>5. x \in Int /\ y \in Int /\ z \in Int
    BY <2>4 DEF SideRow
  <2> HIDE DEF x, y, z
  <2>6. x - y * z \in Int
    BY <2>5
  <2> QED  BY <1>3, <2>6 DEF x, y, z
<1> QED  BY <1>4, <1>5

LEMMA StartSideTyped ==
    ASSUME LedgerTyped, StartSidePurge
    PROVE  /\ TypedNext
           /\ sidechainDb' = SideChainEndPosition(sidechainDb).db
<1> DEFINE end == SideChainEndPosition(sidechainDb)
<1>1. /\ sidechainDb' = end.db
      /\ scPurge' = [state  |-> "running", next |-> (end.round + 1) % SCRoundPerEpoch,
                     round  |-> conf.SimulationRounds + 1,
                     header |-> SideChainGetLastRowSigLen(end.db, TxSize["TxPor"])]
      /\ UNCHANGED <<conf, MCRoundNumber, SCRoundNumber, mainchainDb, SummPoRTxs, crashed,
                     blocks, scBlocks, issued, porIssued, mcPurge, porPurged>>
  BY DEF StartSidePurge
<1>2. SideTyped(end.db) /\ end.round \in Int
  BY SideEnded DEF LedgerTyped
<1> HIDE DEF end
<1>3. Numbered(mainchainDb'.RoundTable) /\ RowsPrepared'
  BY <1>1, RowsKept
<1>4. SideChainGetLastRowSigLen(end.db, TxSize["TxPor"]) \in Int
  <2>1. TxSize["TxPor"] \in Int
    <3>1. "TxPor" \in TxNames
      BY DEF TxNames
    <3> QED  BY <3>1, SizesAreNumbers
  <2> QED  BY <1>2, <2>1, HeaderIsNumber
<1>5. (end.round + 1) % SCRoundPerEpoch \in Int /\ conf.SimulationRounds + 1 \in Int
  <2>1. SCRoundPerEpoch \in Nat \ {0}
    BY TimesAreNumbers
  <2>2. end.round + 1 \in Int
    BY <1>2
  <2>3. (end.round + 1) % SCRoundPerEpoch \in Int
    BY <2>1, <2>2
  <2>4. conf.SimulationRounds \in Nat
    BY ConfIsSound DEF LedgerTyped
  <2> QED  BY <2>3, <2>4
<1> DEFINE next == (end.round + 1) % SCRoundPerEpoch
           round == conf.SimulationRounds + 1
           header == SideChainGetLastRowSigLen(end.db, TxSize["TxPor"])
<1>6. scPurge' \in [state : {"idle", "running", "ended"}, next : Int, round : Int, header : Int]
  <2>1. scPurge' = [state |-> "running", next |-> next, round |-> round, header |-> header]
    BY <1>1
  <2>2. next \in Int /\ round \in Int /\ header \in Int
    BY <1>4, <1>5
  <2> HIDE DEF next, round, header
  <2> QED  BY <2>1, <2>2
<1>7. MainTyped(mainchainDb')
  BY <1>1 DEF LedgerTyped
<1> HIDE DEF next, round, header
<1> QED  BY <1>1, <1>2, <1>3, <1>6, <1>7 DEF LedgerTyped, TypedNext, end

LEMMA NextPosition ==
    ASSUME LedgerTyped, NEW state \in {"running", "ended"}
    PROVE  SidePurgeNext(state) \in
              [state : {"idle", "running", "ended"}, next : Int, round : Int, header : Int]
<1>1. scPurge \in [state : {"idle", "running", "ended"}, next : Int, round : Int, header : Int]
  BY DEF LedgerTyped
<1>2. (scPurge.next + 1) % SCRoundPerEpoch \in Int
  BY <1>1, TimesAreNumbers
<1> DEFINE n == (scPurge.next + 1) % SCRoundPerEpoch
           r == IF scPurge.next % ScPerMc = 0 THEN scPurge.round + 1 ELSE scPurge.round
           p == scPurge
<1>3. SidePurgeNext(state) = [state |-> state, next |-> n, round |-> r, header |-> p.header]
  <2>1. p \in [state : {"idle", "running", "ended"}, next : Int, round : Int, header : Int]
    BY <1>1
  <2>2. SidePurgeNext(state) = [p EXCEPT !.state = state, !.next = n, !.round = r]
    BY DEF SidePurgeNext
  <2> HIDE DEF n, r, p
  <2> QED  BY <2>1, <2>2
<1>4. n \in Int /\ r \in Int
  BY <1>1, <1>2
<1>5. p.header \in Int
  BY <1>1
<1> HIDE DEF n, r, p
<1> QED  BY <1>3, <1>4, <1>5

LEMMA SidePurgeSummaryTyped ==
    ASSUME LedgerTyped, SidePurgeSummary
    PROVE  TypedNext /\ RowReady(sidechainDb', sidechainDb, SCRoundPerEpoch)
<1>1. /\ sidechainDb' =
             InsertIntoSideChainRoundTable(sidechainDb, SCRoundPerEpoch, 0, scPurge.round)
      /\ scBlocks' = Append(scBlocks, <<>>)
      /\ scPurge' = SidePurgeNext("running")
      /\ UNCHANGED <<conf, MCRoundNumber, SCRoundNumber, mainchainDb, SummPoRTxs, crashed,
                     blocks, issued, porIssued, mcPurge, porPurged>>
  BY DEF SidePurgeSummary
<1>2. RowReady(sidechainDb', sidechainDb, SCRoundPerEpoch)
  <2>1. SideTyped(sidechainDb) /\ SCRoundPerEpoch \in Int /\ 0 \in Int /\ scPurge.round \in Int
    BY TimesAreNumbers DEF LedgerTyped
  <2> QED  BY <1>1, <2>1, RowIsOneMore
<1>3. Numbered(mainchainDb'.RoundTable) /\ RowsPrepared'
  BY <1>1, RowsKept
<1>4. scBlocks' \in Seq(Seq(PoRSet))
  <2>1. <<>> \in Seq(PoRSet)
    OBVIOUS
  <2> QED  BY <1>1, <2>1 DEF LedgerTyped
<1>5. scPurge' \in [state : {"idle", "running", "ended"}, next : Int, round : Int, header : Int]
  BY <1>1, NextPosition
<1>6. MainTyped(mainchainDb') /\ SideTyped(sidechainDb')
  BY <1>1, <1>2 DEF LedgerTyped, RowReady
<1> QED  BY <1>1, <1>2, <1>3, <1>4, <1>5, <1>6 DEF LedgerTyped, TypedNext

LEMMA SidePurgeRoundTyped ==
    ASSUME LedgerTyped, SidePurgeRound
    PROVE  TypedNext
<1>1. /\ UNCHANGED <<conf, MCRoundNumber, SCRoundNumber, mainchainDb, SummPoRTxs, crashed,
                     blocks, issued, porIssued, mcPurge>>
      /\ \E state \in {"running", "ended"} : scPurge' = SidePurgeNext(state)
  BY DEF SidePurgeRound
<1>2. PICK txs, n : PoRsLeft(txs, n) /\ porPurged' = porPurged + Len(txs)
  BY SidePurgeRounds
<1>3. SideTyped(sidechainDb') /\ txs \in Seq(PoRSet) /\ scBlocks' = Append(scBlocks, txs)
  BY <1>2 DEF PoRsLeft
<1>4. scBlocks' \in Seq(Seq(PoRSet))
  BY <1>3 DEF LedgerTyped
<1>5. scPurge' \in [state : {"idle", "running", "ended"}, next : Int, round : Int, header : Int]
  BY <1>1, NextPosition
<1>6. Numbered(mainchainDb'.RoundTable) /\ RowsPrepared'
  BY <1>1, RowsKept
<1>7. porPurged' \in Nat
  BY <1>2, <1>3 DEF LedgerTyped
<1>8. MainTyped(mainchainDb')
  BY <1>1 DEF LedgerTyped
<1> QED  BY <1>1, <1>3, <1>4, <1>5, <1>6, <1>7, <1>8 DEF LedgerTyped, TypedNext

\* A step of the two programs or of the simulation.
LEMMA StepTyped ==
    ASSUME LedgerTyped, [PurgeNext]_<<vars, purgeVars>>
    PROVE  LedgerTyped'
<1>1. ASSUME mcPurge = 0, Next, UNCHANGED purgeVars PROVE TypedNext
  BY <1>1, CrashTyped, RoundTyped, MetaTyped, SummaryTyped DEF Next
<1>2. ASSUME UNCHANGED <<vars, purgeVars>> PROVE TypedNext
  <2>1. Numbered(mainchainDb'.RoundTable) /\ RowsPrepared'
    BY <1>2, RowsKept DEF vars, purgeVars
  <2>2. MainTyped(mainchainDb') /\ SideTyped(sidechainDb')
    BY <1>2 DEF LedgerTyped, vars
  <2> QED  BY <1>2, <2>1, <2>2 DEF LedgerTyped, TypedNext, vars, purgeVars
<1>3. TypedNext
  BY <1>1, <1>2, StartMainTyped, MainPurgeTyped, StartSideTyped, SidePurgeSummaryTyped,
     SidePurgeRoundTyped DEF PurgeNext
<1> QED  BY <1>3, TypedAfter

\* The agreements at the start: all of them run.
FirstMarket ==
    [a \in Agreements |->
        [ServerInfo |-> ServerOf(a), FileSize |-> conf.FileSize[a],
         ServAgrDuration |-> conf.ServAgrDuration[a], StartedMcRoundNumber |-> 0,
         Published |-> TRUE, TxIssued |-> TRUE]]

LEMMA ServerFiled ==
    ASSUME NEW x, NEW y, NEW z
    PROVE  [[ServerInfo |-> 0, FileSize |-> x, ServAgrDuration |-> y, StartedMcRoundNumber |-> 0,
             Published |-> TRUE, TxIssued |-> TRUE] EXCEPT !.ServerInfo = z]
           = [ServerInfo |-> z, FileSize |-> x, ServAgrDuration |-> y,
              StartedMcRoundNumber |-> 0, Published |-> TRUE, TxIssued |-> TRUE]
<1> DEFINE r == [ServerInfo |-> 0, FileSize |-> x, ServAgrDuration |-> y,
                 StartedMcRoundNumber |-> 0, Published |-> TRUE, TxIssued |-> TRUE]
           names == {"ServerInfo", "FileSize", "ServAgrDuration", "StartedMcRoundNumber",
                     "Published", "TxIssued"}
           q == [ServerInfo |-> z, FileSize |-> x, ServAgrDuration |-> y,
                 StartedMcRoundNumber |-> 0, Published |-> TRUE, TxIssued |-> TRUE]
<1>1. DOMAIN r = names /\ DOMAIN q = names
  OBVIOUS
<1>2. DOMAIN [r EXCEPT !.ServerInfo = z] = names
  BY <1>1
<1>3. \A n \in names : [r EXCEPT !.ServerInfo = z][n] = q[n]
  <2> TAKE n \in names
  <2>1. CASE n = "ServerInfo"
    BY <2>1, <1>1
  <2>2. CASE n = "FileSize"
    BY <2>2, <1>1
  <2>3. CASE n = "ServAgrDuration"
    BY <2>3, <1>1
  <2>4. CASE n = "StartedMcRoundNumber"
    BY <2>4, <1>1
  <2>5. CASE n = "Published"
    BY <2>5, <1>1
  <2>6. CASE n = "TxIssued"
    BY <2>6, <1>1
  <2> QED  BY <2>1, <2>2, <2>3, <2>4, <2>5, <2>6
<1> HIDE DEF names, q
<1>4. q = [n \in names |-> q[n]]
  BY <1>1 DEF q
<1>5. [r EXCEPT !.ServerInfo = z] = [n \in names |-> [r EXCEPT !.ServerInfo = z][n]]
  BY <1>2
<1> QED  BY <1>3, <1>4, <1>5 DEF q

LEMMA FirstDb ==
    ASSUME conf \in Experiments
    PROVE  LET d == finalMainChainBCInitialization
           IN  /\ MainTyped(d)
               /\ d.MarketMatching = FirstMarket
               /\ d.FirstQueue = <<>> /\ d.SecondQueue = <<>> /\ d.SyncTxQueue = <<>>
               /\ d.OverallEvaluation = <<>>
               /\ d.RoundTable = <<NewRow(0, 0), NewRow(1, 1)>>
               /\ d.RoundTable \in Seq(RoundRow)
<1> DEFINE n == NumAgreements
           row(a) == [ServerInfo |-> 0, FileSize |-> conf.FileSize[a],
                      ServAgrDuration |-> conf.ServAgrDuration[a], StartedMcRoundNumber |-> 0,
                      Published |-> TRUE, TxIssued |-> TRUE]
           m0 == [a \in 1..n |-> row(a)]
           rounds == <<NewRow(0, 0), NewRow(1, 1)>>
           servers == [a \in Agreements |-> ServerOf(a)]
           d0 == [MarketMatching |-> m0, FirstQueue |-> <<>>, SecondQueue |-> <<>>,
                  RoundTable |-> <<>>, OverallEvaluation |-> <<>>, PowerTable |-> [h \in {} |-> 0],
                  SyncTxQueue |-> <<>>]
           d1 == [d0 EXCEPT !.RoundTable = rounds]
           d2 == [d1 EXCEPT !.MarketMatching = FirstMarket]
           d == finalMainChainBCInitialization
<1>1. n \in Nat \ {0} /\ Agreements = 1..n
  BY ConfIsSound
<1>n. n = conf.Nodes * conf.ContractsPerServer
  BY DEF NumAgreements
<1> HIDE DEF n
<1>2. InitialInsertValuesIntoMarketMatchingTable(InitalizeMainChainDbTables,
          conf.Nodes * conf.ContractsPerServer, conf.FileSize, conf.ServAgrDuration) = d0
  <2> DEFINE e == InitalizeMainChainDbTables
  <2>1. InitialInsertValuesIntoMarketMatchingTable(e, conf.Nodes * conf.ContractsPerServer,
            conf.FileSize, conf.ServAgrDuration) = [e EXCEPT !.MarketMatching = m0]
    <3> HIDE DEF e
    <3> QED  BY <1>n DEF InitialInsertValuesIntoMarketMatchingTable
  <2> HIDE DEF m0
  <2>2. [e EXCEPT !.MarketMatching = m0] = d0
    BY DEF InitalizeMainChainDbTables
  <2> HIDE DEF e, d0
  <2> QED  BY <2>1, <2>2 DEF e
<1>3. InitializeMainChainBC = d1
  <2>1. /\ InsertIntoMainChainRoundTable(d0, 0, 0) = [d0 EXCEPT !.RoundTable = <<NewRow(0, 0)>>]
        /\ InsertIntoMainChainRoundTable([d0 EXCEPT !.RoundTable = <<NewRow(0, 0)>>], 1, 1) = d1
    <3>1. Append(<<>>, NewRow(0, 0)) = <<NewRow(0, 0)>>
      OBVIOUS
    <3>2. Append(<<NewRow(0, 0)>>, NewRow(1, 1)) = rounds
      <4> DEFINE x == NewRow(0, 0)
                 y == NewRow(1, 1)
                 p == Append(<<x>>, y)
                 q == <<x, y>>
      <4> HIDE DEF x, y
      <4>1. p \in Seq({x, y}) /\ Len(p) = 2 /\ p[1] = x /\ p[2] = y
        <5>1. <<x>> \in Seq({x, y})
          OBVIOUS
        <5> QED  BY <5>1
      <4>2. q \in Seq({x, y}) /\ Len(q) = 2 /\ q[1] = x /\ q[2] = y
        OBVIOUS
      <4> HIDE DEF p, q
      <4>3. \A i \in 1..Len(p) : p[i] = q[i]
        BY <4>1, <4>2
      <4>4. p = q
        BY <4>1, <4>2, <4>3, SameSeq
      <4> QED  BY <4>4 DEF p, q, x, y
    <3> HIDE DEF m0
    <3> QED  BY <3>1, <3>2 DEF InsertIntoMainChainRoundTable, NewRow
  <2> HIDE DEF d0, d1
  <2> QED  BY <1>2, <2>1 DEF InitializeMainChainBC
<1>4. Len(m0) = n /\ Len(servers) = n /\ \A a \in 1..n : m0[a] = row(a) /\ servers[a] = ServerOf(a)
  BY <1>1
<1>5. FirstMarket = [a \in 1..Len(m0) |->
          IF a <= Len(servers) THEN [m0[a] EXCEPT !.ServerInfo = servers[a]] ELSE m0[a]]
  <2>1. \A a \in 1..n : [row(a) EXCEPT !.ServerInfo = ServerOf(a)] =
            [ServerInfo |-> ServerOf(a), FileSize |-> conf.FileSize[a],
             ServAgrDuration |-> conf.ServAgrDuration[a], StartedMcRoundNumber |-> 0,
             Published |-> TRUE, TxIssued |-> TRUE]
    <3> TAKE a \in 1..n
    <3> DEFINE x == conf.FileSize[a]
               y == conf.ServAgrDuration[a]
               z == ServerOf(a)
    <3> HIDE DEF x, y, z, m0
    <3>1. [[ServerInfo |-> 0, FileSize |-> x, ServAgrDuration |-> y, StartedMcRoundNumber |-> 0,
            Published |-> TRUE, TxIssued |-> TRUE] EXCEPT !.ServerInfo = z]
          = [ServerInfo |-> z, FileSize |-> x, ServAgrDuration |-> y,
             StartedMcRoundNumber |-> 0, Published |-> TRUE, TxIssued |-> TRUE]
      BY ServerFiled
    <3> QED  BY <3>1 DEF x, y, z
  <2> HIDE DEF m0, servers, row
  <2> QED  BY <1>1, <1>4, <2>1 DEF FirstMarket
<1>6. AddMoreFieldsIntoTableInMainChain(d1, servers) = d2
  <2>1. d1.MarketMatching = m0
    OBVIOUS
  <2> HIDE DEF m0, servers, d1
  <2> QED  BY <1>5, <2>1 DEF AddMoreFieldsIntoTableInMainChain
<1>7. d = [d2 EXCEPT !.PowerTable = [h \in Servers |-> 0]]
  <2>1. d = InitialInsertValuesIntoMainChainPowerTable(
                AddMoreFieldsIntoTableInMainChain(InitializeMainChainBC, servers), Servers)
    BY DEF finalMainChainBCInitialization
  <2> HIDE DEF d, d1, d2, servers
  <2> QED  BY <1>3, <1>6, <2>1 DEF InitialInsertValuesIntoMainChainPowerTable
<1> HIDE DEF d
<1>8. /\ MainShape(d) /\ d.MarketMatching = FirstMarket
      /\ d.FirstQueue = <<>> /\ d.SecondQueue = <<>> /\ d.SyncTxQueue = <<>>
      /\ d.OverallEvaluation = <<>> /\ d.RoundTable = rounds
  <2> HIDE DEF m0, rounds
  <2> QED  BY <1>7 DEF MainShape
<1>9. rounds \in Seq(RoundRow)
  <2>1. NewRow(0, 0) \in RoundRow /\ NewRow(1, 1) \in RoundRow
    BY DEF NewRow, RoundRow, NoStats, StatsSet
  <2> QED  BY <2>1
<1>10. FirstMarket \in [Agreements -> MarketRow]
  <2>1. \A a \in Agreements : ServerOf(a) \in Nat
    <3> TAKE a \in Agreements
    <3>1. ServerOf(a) \in Agreements
      BY ServersHaveAgreements
    <3> QED  BY <1>1, <3>1
  <2>2. \A a \in Agreements : conf.FileSize[a] \in Nat /\ conf.ServAgrDuration[a] \in Nat
    BY ConfIsSound
  <2> QED  BY <2>1, <2>2 DEF FirstMarket, MarketRow
<1>11. <<>> \in Queue(TxSet) /\ <<>> \in Queue(PaySet) /\ <<>> \in Queue(SyncSet)
  BY DEF Queue
<1> HIDE DEF rounds
<1>12. MainTyped(d)
  BY <1>8, <1>9, <1>10, <1>11 DEF MainTyped
<1> QED  BY <1>8, <1>9, <1>12 DEF d, rounds

LEMMA InitTyped ==
    ASSUME PurgeInit
    PROVE  LedgerTyped
<1>1. /\ conf \in Experiments /\ MCRoundNumber = 1 /\ SCRoundNumber = 1
      /\ mainchainDb = finalMainChainBCInitialization
      /\ sidechainDb = InitalizeSideChainDbTables
      /\ SummPoRTxs = [a \in Agreements |-> 0] /\ crashed = FALSE
      /\ blocks = <<>> /\ scBlocks = <<>> /\ issued = <<>> /\ porIssued = 0
      /\ mcPurge = 0 /\ porPurged = 0
      /\ scPurge = [state |-> "idle", next |-> 0, round |-> 0, header |-> 0]
  BY DEF PurgeInit, Init
<1>2. MainTyped(mainchainDb) /\ mainchainDb.RoundTable = <<NewRow(0, 0), NewRow(1, 1)>>
  BY <1>1, FirstDb
<1> DEFINE t == mainchainDb.RoundTable
<1>3. /\ Len(t) = 2 /\ t[1].RoundNumber = 0 /\ t[2].RoundNumber = 1 /\ t[2].stats = NoStats
  BY <1>2 DEF NewRow
<1> HIDE DEF t
<1>4. Numbered(t)
  BY <1>3 DEF Numbered
<1>5. conf.SimulationRounds \in Nat \ {0}
  BY <1>1, ConfIsSound
<1>6. RowsPrepared
  BY <1>1, <1>3 DEF RowsPrepared, t
<1>7. SideTyped(sidechainDb)
  BY <1>1 DEF InitalizeSideChainDbTables, SideTyped, SideShape, Queue
<1>8. SCRoundNumber \in 1..SCRoundPerEpoch
  BY <1>1, TimesAreNumbers
<1>9. SummPoRTxs \in [Agreements -> Nat]
  BY <1>1
<1>10. blocks \in Seq(BlockSet) /\ scBlocks \in Seq(Seq(PoRSet)) /\ issued \in Seq(TxSet)
  BY <1>1
<1>11. scPurge \in [state : {"idle", "running", "ended"}, next : Int, round : Int, header : Int]
  BY <1>1
<1>12. MCRoundNumber \in 1..(conf.SimulationRounds + 1)
  BY <1>1, <1>5
<1>13. /\ porIssued \in Nat /\ porPurged \in Nat /\ mcPurge \in Nat \cup {-1}
       /\ crashed \in BOOLEAN
  BY <1>1
<1>14. conf \in Experiments /\ MainTyped(mainchainDb)
  BY <1>1, <1>2
<1>15. Numbered(mainchainDb.RoundTable)
  BY <1>4 DEF t
<1> QED  BY <1>6, <1>7, <1>8, <1>9, <1>10, <1>11, <1>12, <1>13, <1>14, <1>15 DEF LedgerTyped

\* The tables hold what the statements expect: queues whose rowids grow, one
\* row of the round table per round, prepared one round ahead, agreements that
\* transactions name (dbbc.go; updateBCPowerRound, MainChainBlockChain.go:157).
THEOREM LedgerTypeCorrect == PurgeSpec => []LedgerTyped
<1>1. PurgeInit => LedgerTyped
  BY InitTyped
<1>2. LedgerTyped /\ [PurgeNext]_<<vars, purgeVars>> => LedgerTyped'
  BY StepTyped
<1> QED  BY <1>1, <1>2, PTL DEF PurgeSpec


-----------------------------------------------------------------------------
(* First in, first out.                                                    *)

LEMMA ConcatAssoc ==
    ASSUME NEW X, NEW s \in Seq(X), NEW t \in Seq(X), NEW u \in Seq(X)
    PROVE  (s \o t) \o u = s \o (t \o u)
<1> DEFINE v == s \o t
           w == t \o u
           p == v \o u
           q == s \o w
<1>1. /\ v \in Seq(X) /\ Len(v) = Len(s) + Len(t)
      /\ Len(s) \in Nat /\ Len(t) \in Nat /\ Len(u) \in Nat
      /\ \A i \in 1..Len(s) : v[i] = s[i]
      /\ \A i \in (Len(s) + 1)..(Len(s) + Len(t)) : v[i] = t[i - Len(s)]
  BY Joined
<1>2. /\ w \in Seq(X) /\ Len(w) = Len(t) + Len(u)
      /\ \A i \in 1..Len(t) : w[i] = t[i]
      /\ \A i \in (Len(t) + 1)..(Len(t) + Len(u)) : w[i] = u[i - Len(t)]
  BY Joined
<1> HIDE DEF v, w
<1>v. v \in Seq(X) /\ w \in Seq(X)
  BY <1>1, <1>2
<1>n. Len(s) \in Nat /\ Len(t) \in Nat /\ Len(u) \in Nat
  BY <1>1
<1>3. /\ p \in Seq(X) /\ Len(p) = Len(v) + Len(u)
      /\ \A i \in 1..Len(v) : p[i] = v[i]
      /\ \A i \in (Len(v) + 1)..(Len(v) + Len(u)) : p[i] = u[i - Len(v)]
  BY <1>v, Joined
<1>4. /\ q \in Seq(X) /\ Len(q) = Len(s) + Len(w)
      /\ \A i \in 1..Len(s) : q[i] = s[i]
      /\ \A i \in (Len(s) + 1)..(Len(s) + Len(w)) : q[i] = w[i - Len(s)]
  BY <1>v, Joined
<1> HIDE DEF p, q
<1>5. \A i \in 1..Len(p) : p[i] = q[i]
  <2> TAKE i \in 1..Len(p)
  <2>1. CASE i <= Len(s)
    BY <1>1, <1>3, <1>4, <2>1
  <2>2. CASE Len(s) < i /\ i <= Len(s) + Len(t)
    <3>1. i \in 1..Len(v) /\ i \in (Len(s) + 1)..(Len(s) + Len(t))
          /\ i \in (Len(s) + 1)..(Len(s) + Len(w)) /\ i - Len(s) \in 1..Len(t)
      BY <1>1, <1>2, <1>3, <2>2
    <3> QED  BY <1>1, <1>2, <1>3, <1>4, <3>1
  <2>3. CASE Len(s) + Len(t) < i
    <3>1. i \in (Len(v) + 1)..(Len(v) + Len(u)) /\ i \in (Len(s) + 1)..(Len(s) + Len(w))
          /\ i - Len(s) \in (Len(t) + 1)..(Len(t) + Len(u))
          /\ i - Len(v) = (i - Len(s)) - Len(t)
      <4> DEFINE a == Len(s)
                 d == Len(t)
                 e == Len(u)
      <4>1. Len(p) = (a + d) + e /\ Len(v) = a + d /\ Len(w) = d + e
        BY <1>1, <1>2, <1>3
      <4>2. i \in 1..((a + d) + e) /\ a + d < i /\ a \in Nat /\ d \in Nat /\ e \in Nat
        BY <1>n, <2>3, <4>1
      <4> HIDE DEF a, d, e
      <4>3. i \in (a + d + 1)..(a + d + e) /\ i \in (a + 1)..(a + (d + e))
            /\ i - a \in (d + 1)..(d + e) /\ i - (a + d) = (i - a) - d
        BY <4>2
      <4> QED  BY <4>1, <4>3 DEF a, d, e
    <3> QED  BY <1>2, <1>3, <1>4, <3>1
  <2> QED  BY <1>1, <1>3, <2>1, <2>2, <2>3
<1>6. Len(p) = Len(q)
  BY <1>1, <1>2, <1>3, <1>4
<1>7. p = q
  BY <1>3, <1>4, <1>5, <1>6, SameSeq
<1> QED  BY <1>7 DEF p, q, v, w

\* The transactions of blocks, block by block.
TxsOf(bs) == [i \in 1..Len(bs) |-> bs[i].txs]

LEMMA TxsOfBlocks ==
    ASSUME NEW bs \in Seq(BlockSet), NEW b \in BlockSet
    PROVE  /\ TxsOf(bs) \in Seq(Seq(TxSet))
           /\ b.txs \in Seq(TxSet)
           /\ TxsOf(Append(bs, b)) = Append(TxsOf(bs), b.txs)
<1> DEFINE c == Append(bs, b)
<1>1. /\ c \in Seq(BlockSet) /\ Len(c) = Len(bs) + 1 /\ c[Len(bs) + 1] = b
      /\ \A i \in 1..Len(bs) : c[i] = bs[i]
      /\ Len(bs) \in Nat
  OBVIOUS
<1>2. \A x \in BlockSet : x.txs \in Seq(TxSet)
  BY DEF BlockSet
<1>3. TxsOf(bs) \in Seq(Seq(TxSet)) /\ Len(TxsOf(bs)) = Len(bs)
      /\ \A i \in 1..Len(bs) : TxsOf(bs)[i] = bs[i].txs
  BY <1>1, <1>2 DEF TxsOf
<1> HIDE DEF c
<1>4. TxsOf(c) \in Seq(Seq(TxSet)) /\ Len(TxsOf(c)) = Len(bs) + 1
      /\ \A i \in 1..Len(c) : TxsOf(c)[i] = c[i].txs
  BY <1>1, <1>2 DEF TxsOf
<1> DEFINE u == Append(TxsOf(bs), b.txs)
<1>5. /\ u \in Seq(Seq(TxSet)) /\ Len(u) = Len(bs) + 1 /\ u[Len(bs) + 1] = b.txs
      /\ \A i \in 1..Len(bs) : u[i] = bs[i].txs
  BY <1>1, <1>2, <1>3
<1> HIDE DEF u
<1>6. \A i \in 1..Len(TxsOf(c)) : TxsOf(c)[i] = u[i]
  <2> TAKE i \in 1..Len(TxsOf(c))
  <2>1. CASE i <= Len(bs)
    <3>1. i \in 1..Len(bs) /\ i \in 1..Len(c)
      BY <1>1, <1>4, <2>1
    <3>2. TxsOf(c)[i] = c[i].txs /\ c[i] = bs[i]
      BY <1>1, <1>4, <3>1
    <3> QED  BY <1>5, <3>1, <3>2
  <2>2. CASE i = Len(bs) + 1
    BY <1>1, <1>4, <1>5, <2>2
  <2> QED  BY <1>1, <1>4, <2>1, <2>2
<1>7. TxsOf(c) = u
  BY <1>4, <1>5, <1>6, SameSeq
<1> QED  BY <1>2, <1>3, <1>7 DEF c, u

\* A block of the first n rows of a queue, and the rest of the queue.
LEMMA TakenInOrder ==
    ASSUME NEW bs \in Seq(BlockSet), NEW b \in BlockSet, NEW q \in Queue(TxSet),
           NEW n \in 0..Len(q), b.txs = [i \in 1..n |-> q[i].tx]
    PROVE  /\ FlattenSeq(TxsOf(Append(bs, b))) \o Queued(WithoutFirst(q, n))
                = FlattenSeq(TxsOf(bs)) \o Queued(q)
           /\ FlattenSeq(TxsOf(bs)) \in Seq(TxSet)
<1>1. /\ TxsOf(bs) \in Seq(Seq(TxSet)) /\ b.txs \in Seq(TxSet)
      /\ TxsOf(Append(bs, b)) = Append(TxsOf(bs), b.txs)
  BY TxsOfBlocks
<1>2. /\ FlattenSeq(Append(TxsOf(bs), b.txs)) = FlattenSeq(TxsOf(bs)) \o b.txs
      /\ FlattenSeq(TxsOf(bs)) \in Seq(TxSet)
  BY <1>1, FlattenAppend
<1>3. /\ WithoutFirst(q, n) \in Queue(TxSet)
      /\ Queued(q) = b.txs \o Queued(WithoutFirst(q, n))
  BY RestOfQueue
<1>4. Queued(WithoutFirst(q, n)) \in Seq(TxSet)
  <2>1. WithoutFirst(q, n) \in Seq(RowOf(TxSet))
    BY <1>3 DEF Queue
  <2> QED  BY <2>1, TxsOfQueue
<1>5. (FlattenSeq(TxsOf(bs)) \o b.txs) \o Queued(WithoutFirst(q, n))
        = FlattenSeq(TxsOf(bs)) \o (b.txs \o Queued(WithoutFirst(q, n)))
  <2> DEFINE x == FlattenSeq(TxsOf(bs))
             y == b.txs
             z == Queued(WithoutFirst(q, n))
  <2>1. x \in Seq(TxSet) /\ y \in Seq(TxSet) /\ z \in Seq(TxSet)
    BY <1>1, <1>2, <1>4
  <2> HIDE DEF x, y, z
  <2>2. (x \o y) \o z = x \o (y \o z)
    BY <2>1, ConcatAssoc
  <2> QED  BY <2>2 DEF x, y, z
<1> QED  BY <1>1, <1>2, <1>3, <1>5

\* New transactions at the end of the queue.
LEMMA InsertedInOrder ==
    ASSUME NEW bs \in Seq(BlockSet), NEW q \in Queue(TxSet), NEW rows \in Seq(TxSet)
    PROVE  FlattenSeq(TxsOf(bs)) \o Queued(InsertRows(q, rows))
              = (FlattenSeq(TxsOf(bs)) \o Queued(q)) \o rows
<1>1. Queued(InsertRows(q, rows)) = Queued(q) \o rows /\ Queued(q) \in Seq(TxSet)
  BY InsertedRows
<1>2. FlattenSeq(TxsOf(bs)) \in Seq(TxSet)
  <2>1. TxsOf(bs) \in Seq(Seq(TxSet))
    <3>1. \A x \in BlockSet : x.txs \in Seq(TxSet)
      BY DEF BlockSet
    <3> QED  BY <3>1 DEF TxsOf
  <2>2. <<>> \in Seq(TxSet)
    OBVIOUS
  <2> QED  BY <2>1, <2>2, FlattenAppend
<1> QED  BY <1>1, <1>2, ConcatAssoc

\* What is to be shown, in terms of the transactions of the blocks.
LEMMA InOrder ==
    /\ FirstInFirstOut <=> FlattenSeq(TxsOf(blocks)) \o Queued(mainchainDb.FirstQueue) = issued
    /\ FirstInFirstOut' <=> FlattenSeq(TxsOf(blocks')) \o Queued(mainchainDb'.FirstQueue) = issued'
BY DEF FirstInFirstOut, OnChain, TxsOf, Queued

LEMMA FifoStep ==
    ASSUME LedgerTyped, FirstInFirstOut, [PurgeNext]_<<vars, purgeVars>>
    PROVE  FirstInFirstOut'
<1> DEFINE q == mainchainDb.FirstQueue
           flat == FlattenSeq(TxsOf(blocks))
<1>1. blocks \in Seq(BlockSet) /\ q \in Queue(TxSet) /\ flat \o Queued(q) = issued
  BY InOrder DEF LedgerTyped, MainTyped
<1>2. ASSUME mcPurge = 0, EmptyBlock \/ FullBlock PROVE FirstInFirstOut'
  <2>1. PICK b, n : RoundClosed(b, n)
    BY <1>2, RoundCloses
  <2> DEFINE r == InsertRows(q, NewTxs)
  <2>2. /\ mainchainDb'.FirstQueue = WithoutFirst(r, n) /\ b \in BlockSet /\ n \in 0..Len(r)
        /\ b.txs = [i \in 1..n |-> r[i].tx] /\ blocks' = Append(blocks, b)
    BY <2>1 DEF RoundClosed, BlockFrom
  <2>3. issued' = issued \o NewTxs
    BY <1>2 DEF EmptyBlock, FullBlock, CollectRest
  <2>4. NewTxs \in Seq(TxSet)
    BY NewAreTxs DEF LedgerTyped
  <2>5. r \in Queue(TxSet)
    BY <1>1, <2>4, InsertedRows
  <2>6. flat \o Queued(r) = issued'
    BY <1>1, <2>3, <2>4, InsertedInOrder
  <2> HIDE DEF r, flat, q
  <2>7. FlattenSeq(TxsOf(blocks')) \o Queued(WithoutFirst(r, n)) = flat \o Queued(r)
    BY <1>1, <2>2, <2>5, TakenInOrder DEF flat
  <2> QED  BY <2>2, <2>6, <2>7, InOrder
<1>3. ASSUME SummaryBlock PROVE FirstInFirstOut'
  <2>1. /\ SummaryPayments \in Seq(TxSet) /\ issued' = issued \o SummaryPayments
        /\ mainchainDb'.FirstQueue = InsertRows(q, SummaryPayments)
    BY <1>3, SummaryDone
  <2>2. blocks' = blocks
    BY <1>3 DEF SummaryBlock
  <2>3. flat \o Queued(InsertRows(q, SummaryPayments)) = issued'
    BY <1>1, <2>1, InsertedInOrder
  <2> QED  BY <2>1, <2>2, <2>3, InOrder
<1>4. ASSUME MainPurgeRound PROVE FirstInFirstOut'
  <2> DEFINE added == InsertIntoMainChainRoundTable(mainchainDb, mcPurge, -1)
  <2>1. /\ IF NothingQueued(added) THEN mainchainDb' = added /\ mcPurge' = -1 /\ blocks' = blocks
           ELSE mcPurge' = mcPurge + 1 /\ \E b, n : PurgeRoundDone(b, n)
        /\ issued' = issued
    BY <1>4, PurgeRounds DEF MainPurgeRound
  <2>2. added.FirstQueue = q
    BY DEF InsertIntoMainChainRoundTable, LedgerTyped, MainTyped, MainShape
  <2>3. CASE NothingQueued(added)
    <3>1. mainchainDb'.FirstQueue = q /\ blocks' = blocks /\ issued' = issued
      BY <2>1, <2>2, <2>3
    <3> QED  BY <1>1, <3>1, InOrder
  <2>4. CASE ~NothingQueued(added)
    <3>1. PICK b, n : PurgeRoundDone(b, n)
      BY <2>1, <2>4
    <3>2. /\ mainchainDb'.FirstQueue = WithoutFirst(q, n) /\ b \in BlockSet /\ n \in 0..Len(q)
          /\ b.txs = [i \in 1..n |-> q[i].tx] /\ blocks' = Append(blocks, b)
      BY <3>1 DEF PurgeRoundDone, BlockFrom
    <3> HIDE DEF flat, q
    <3>3. FlattenSeq(TxsOf(blocks')) \o Queued(WithoutFirst(q, n)) = flat \o Queued(q)
      BY <1>1, <3>2, TakenInOrder DEF flat
    <3> QED  BY <1>1, <2>1, <3>2, <3>3, InOrder
  <2> QED  BY <2>3, <2>4
<1>5. ASSUME mainchainDb'.FirstQueue = q, blocks' = blocks, issued' = issued
      PROVE  FirstInFirstOut'
  BY <1>1, <1>5, InOrder
<1>6. ASSUME CrashWithoutPower PROVE FirstInFirstOut'
  <2>1. mainchainDb' = PoweredDb /\ blocks' = blocks /\ issued' = issued
    BY <1>6 DEF CrashWithoutPower
  <2>2. PoweredDb.FirstQueue = q
    BY RoundPrepared
  <2> QED  BY <1>5, <2>1, <2>2
<1>7. ASSUME StartMainPurge PROVE FirstInFirstOut'
  <2>1. mainchainDb'.FirstQueue = q /\ blocks' = blocks /\ issued' = issued
    BY <1>7, StartMainTyped DEF StartMainPurge
  <2> QED  BY <1>5, <2>1
<1>8. ASSUME MetaBlock \/ StartSidePurge \/ SidePurgeSummary \/ SidePurgeRound
             \/ UNCHANGED <<vars, purgeVars>>
      PROVE  FirstInFirstOut'
  <2>1. mainchainDb' = mainchainDb /\ blocks' = blocks /\ issued' = issued
    BY <1>8 DEF MetaBlock, StartSidePurge, SidePurgeSummary, SidePurgeRound, vars
  <2> QED  BY <1>5, <2>1
<1> QED  BY <1>2, <1>3, <1>4, <1>6, <1>7, <1>8 DEF PurgeNext, Next

\* The blocks and the queue hold what was issued, in the order of issue.
LEMMA FifoAtFirst ==
    ASSUME PurgeInit
    PROVE  FirstInFirstOut
<1>1. /\ conf \in Experiments /\ blocks = <<>> /\ issued = <<>>
      /\ mainchainDb = finalMainChainBCInitialization
  BY DEF PurgeInit, Init
<1>2. mainchainDb.FirstQueue = <<>>
  BY <1>1, FirstDb
<1>3. TxsOf(<<>>) = <<>> /\ Queued(<<>>) = <<>>
  BY DEF TxsOf, Queued
<1>4. FlattenSeq(<<>>) = <<>>
  BY DEF FlattenSeq
<1> QED  BY <1>1, <1>2, <1>3, <1>4, InOrder

\* Every transaction that was put into the first queue is in exactly one block
\* or waits, in the order of issue (the queue is read up to its limit and
\* deleted up to the last row taken, dbbc.go:979, by the rounds of the
\* simulation, MainChainBlockChain.go:654, and by mainchain-purge).
THEOREM QueueIsFifo == PurgeSpec => []FirstInFirstOut
<1>1. PurgeInit => LedgerTyped /\ FirstInFirstOut
  BY InitTyped, FifoAtFirst
<1>2. LedgerTyped /\ FirstInFirstOut /\ [PurgeNext]_<<vars, purgeVars>>
        => LedgerTyped' /\ FirstInFirstOut'
  BY StepTyped, FifoStep
<1> QED  BY <1>1, <1>2, PTL DEF PurgeSpec


-----------------------------------------------------------------------------
(* Full side chain blocks are marked.                                      *)

Marked(t) == \A i \in 1..Len(t) : t[i].QueueFill > 0 => t[i].BlockSpaceFull

LEMMA OneRowMoreMarked ==
    ASSUME NEW t, NEW u, OneRowMore(t, u), Marked(t)
    PROVE  Marked(u)
<1>1. Len(u) = Len(t) + 1 /\ Len(t) \in Nat
  BY DEF OneRowMore
<1>2. ASSUME NEW i \in 1..Len(u), u[i].QueueFill > 0 PROVE u[i].BlockSpaceFull
  <2>1. CASE i \in 1..Len(t)
    BY <1>2, <2>1 DEF OneRowMore, Marked
  <2>2. CASE i = Len(t) + 1
    BY <1>2, <2>2 DEF OneRowMore
  <2> QED  BY <1>1, <2>1, <2>2
<1> QED  BY <1>2 DEF Marked

LEMMA MarkedStep ==
    ASSUME LedgerTyped, Marked(sidechainDb.RoundTable), [PurgeNext]_<<vars, purgeVars>>
    PROVE  Marked(sidechainDb'.RoundTable)
<1> DEFINE t == sidechainDb.RoundTable
<1>1. ASSUME OneRowMore(t, sidechainDb'.RoundTable) PROVE Marked(sidechainDb'.RoundTable)
  BY <1>1, OneRowMoreMarked
<1>2. ASSUME sidechainDb'.RoundTable = t PROVE Marked(sidechainDb'.RoundTable)
  BY <1>2
<1>3. ASSUME EmptyBlock \/ FullBlock PROVE Marked(sidechainDb'.RoundTable)
  <2>1. sidechainDb' = BulkInsertIntoSideChainFirstQueue(sidechainDb, NewPoRs)
    BY <1>3 DEF EmptyBlock, FullBlock, CollectRest, CollectedSideDb
  <2>2. NewPoRs \in Seq(PoRSet) /\ SideTyped(sidechainDb)
    BY NewAreTxs DEF LedgerTyped
  <2>3. sidechainDb'.RoundTable = t
    BY <2>1, <2>2, SideInserted
  <2> QED  BY <1>2, <2>3
<1>4. ASSUME MetaBlock PROVE Marked(sidechainDb'.RoundTable)
  <2>1. PICK txs, n : PoRsLeft(txs, n)
    BY <1>4, MetaBlocks
  <2> QED  BY <1>1, <2>1 DEF PoRsLeft
<1>5. ASSUME SidePurgeRound PROVE Marked(sidechainDb'.RoundTable)
  <2>1. PICK txs, n : PoRsLeft(txs, n)
    BY <1>5, SidePurgeRounds
  <2> QED  BY <1>1, <2>1 DEF PoRsLeft
<1>6. ASSUME SummaryBlock PROVE Marked(sidechainDb'.RoundTable)
  <2>1. RowReady(sidechainDb', sidechainDb, SCRoundNumber)
    BY <1>6, SummaryDone
  <2> QED  BY <1>1, <2>1 DEF RowReady
<1>7. ASSUME SidePurgeSummary PROVE Marked(sidechainDb'.RoundTable)
  <2>1. RowReady(sidechainDb', sidechainDb, SCRoundPerEpoch)
    BY <1>7, SidePurgeSummaryTyped
  <2> QED  BY <1>1, <2>1 DEF RowReady
<1>8. ASSUME StartSidePurge PROVE Marked(sidechainDb'.RoundTable)
  <2> DEFINE u == sidechainDb'.RoundTable
  <2>1. Len(u) <= Len(t) /\ \A i \in 1..Len(u) : u[i] = t[i]
    <3>1. sidechainDb' = SideChainEndPosition(sidechainDb).db
      BY <1>8 DEF StartSidePurge
    <3> QED  BY <3>1, SideEnded DEF LedgerTyped
  <2>2. t \in Seq(SideRow) /\ u \in Seq(SideRow)
    <3>1. SideTyped(sidechainDb') /\ SideTyped(sidechainDb)
      BY <1>8, StartSideTyped DEF TypedNext, LedgerTyped
    <3> QED  BY <3>1 DEF SideTyped
  <2> HIDE DEF t, u
  <2>3. \A i \in 1..Len(u) : i \in 1..Len(t) /\ u[i] = t[i]
    BY <2>1, <2>2
  <2> QED  BY <2>3 DEF Marked, t, u
<1>9. ASSUME CrashWithoutPower \/ StartMainPurge \/ MainPurgeRound \/ UNCHANGED <<vars, purgeVars>>
      PROVE  Marked(sidechainDb'.RoundTable)
  <2>1. sidechainDb' = sidechainDb
    BY <1>9 DEF CrashWithoutPower, StartMainPurge, MainPurgeRound, vars
  <2> QED  BY <1>2, <2>1
<1> QED  BY <1>3, <1>4, <1>5, <1>6, <1>7, <1>8, <1>9 DEF PurgeNext, Next

\* A side chain block that left transactions behind is marked as full: the
\* mark goes to every row of the round's number, and no later statement takes
\* one back (SideChainRoundTableSetBlockSpaceIsFull, dbbc.go:1183, against
\* SideChainRoundTableSetFinalRoundInfo, :1195; the same in sidechain-purge).
THEOREM FullBlocksAreMarked == PurgeSpec => []FullMarked
<1>1. PurgeInit => LedgerTyped /\ Marked(sidechainDb.RoundTable)
  <2>1. PurgeInit => Len(sidechainDb.RoundTable) = 0
    BY DEF PurgeInit, Init, InitalizeSideChainDbTables
  <2>2. PurgeInit => Marked(sidechainDb.RoundTable)
    BY <2>1 DEF Marked
  <2> QED  BY <2>2, InitTyped
<1>2. LedgerTyped /\ Marked(sidechainDb.RoundTable) /\ [PurgeNext]_<<vars, purgeVars>>
        => LedgerTyped' /\ Marked(sidechainDb.RoundTable)'
  <2>1. Marked(sidechainDb'.RoundTable) => Marked(sidechainDb.RoundTable)'
    BY DEF Marked
  <2> QED  BY <2>1, StepTyped, MarkedStep
<1>3. Marked(sidechainDb.RoundTable) => FullMarked
  BY DEF Marked, FullMarked
<1> QED  BY <1>1, <1>2, <1>3, PTL DEF PurgeSpec


-----------------------------------------------------------------------------
(* The rows of the rounds and the evaluations.                             *)

\* The row of every round describes its block; row 1 is that of no block.
BlocksDescribed(t, bs) ==
    /\ Len(bs) < Len(t)
    /\ t[1].stats.BCSize = 0
    /\ \A r \in 1..Len(bs) : Describes(t[r + 1], bs[r])

\* The first n rows have the seeds from 0 on.
SeedsCounted(t, n) == n <= Len(t) /\ \A i \in 1..n : t[i].Seed = i - 1

\* The bytes of blocks.
Bytes(bs) == Total([i \in 1..Len(bs) |-> bs[i].size])

\* The last evaluation sums up the blocks of its round and before.
Evaluated(e, bs) ==
    /\ \E S : e \in Seq(S)
    /\ e # <<>> => /\ Last(e).RoundNbr \in 1..Len(bs)
                   /\ Last(e).sums.BCSize = Bytes(SubSeq(bs, 1, Last(e).RoundNbr))

LEMMA DescribedMore ==
    ASSUME NEW s \in Seq(RoundRow), NEW t \in Seq(RoundRow), NEW u, NEW bs \in Seq(BlockSet),
           NEW b, NEW q, NEW n, Numbered(t), BlockFrom(b, q, n, t, u, Len(bs) + 1),
           Len(s) <= Len(t), \A i \in 1..Len(s) : t[i] = s[i], Len(bs) + 2 <= Len(t),
           BlocksDescribed(s, bs)
    PROVE  BlocksDescribed(u, Append(bs, b))
<1> DEFINE c == Append(bs, b)
           k == Len(bs)
<1>1. k \in Nat /\ Len(t) \in Nat /\ Len(s) \in Nat /\ k < Len(s) /\ b \in BlockSet
  BY DEF BlocksDescribed, BlockFrom
<1>2. Len(c) = k + 1 /\ c[k + 1] = b /\ \A i \in 1..k : c[i] = bs[i]
  BY <1>1
<1>3. \A i \in 1..Len(t) : t[i].RoundNumber = i - 1
  BY DEF Numbered
<1>4. /\ Len(u) = Len(t)
      /\ \A i \in 1..Len(t) : IF t[i].RoundNumber = k + 1 THEN Describes(u[i], b)
                              ELSE u[i].stats = t[i].stats
  BY DEF BlockFrom
<1>5. \A r \in 1..k : Describes(s[r + 1], bs[r])
  BY DEF BlocksDescribed
<1>l. k + 2 <= Len(t)
  OBVIOUS
<1> HIDE DEF c, k
<1>6. u[1].stats.BCSize = 0
  <2>1. 1 \in 1..Len(s) /\ 1 \in 1..Len(t)
    BY <1>1
  <2>2. t[1].RoundNumber # k + 1 /\ t[1] = s[1]
    BY <1>1, <1>3, <2>1
  <2>3. s[1].stats.BCSize = 0
    BY DEF BlocksDescribed
  <2> QED  BY <1>4, <2>1, <2>2, <2>3
<1>7. ASSUME NEW r \in 1..(k + 1) PROVE Describes(u[r + 1], c[r])
  <2>1. CASE r = k + 1
    <3>1. k + 2 \in 1..Len(t)
      BY <1>1, <1>l
    <3>2. t[k + 2].RoundNumber = k + 1
      BY <1>1, <1>3, <3>1
    <3>3. Describes(u[k + 2], b)
      BY <1>4, <3>1, <3>2
    <3>4. r + 1 = k + 2
      BY <1>1, <2>1
    <3> QED  BY <1>2, <2>1, <3>3, <3>4
  <2>2. CASE r # k + 1
    <3>1. r \in 1..k /\ r + 1 \in 1..Len(s) /\ r + 1 \in 1..Len(t)
      BY <1>1, <2>2
    <3>2. t[r + 1].RoundNumber # k + 1 /\ t[r + 1] = s[r + 1]
      BY <1>1, <1>3, <2>2, <3>1
    <3>3. u[r + 1].stats = s[r + 1].stats
      BY <1>4, <3>1, <3>2
    <3>4. Describes(s[r + 1], bs[r])
      BY <1>5, <3>1
    <3>5. Describes(u[r + 1], bs[r])
      BY <3>3, <3>4 DEF Describes
    <3> QED  BY <1>2, <3>1, <3>5
  <2> QED  BY <2>1, <2>2
<1> QED  BY <1>1, <1>2, <1>4, <1>6, <1>7, <1>l DEF BlocksDescribed, c

LEMMA SeedsKept ==
    ASSUME NEW s \in Seq(RoundRow), NEW t \in Seq(RoundRow), NEW u, NEW m \in Nat,
           NEW b, NEW q, NEW n, NEW round, BlockFrom(b, q, n, t, u, round),
           Len(s) <= Len(t), \A i \in 1..Len(s) : t[i] = s[i], SeedsCounted(s, m)
    PROVE  SeedsCounted(u, m)
<1>1. /\ Len(s) \in Nat /\ Len(t) \in Nat /\ m <= Len(s) /\ Len(u) = Len(t)
      /\ \A i \in 1..m : s[i].Seed = i - 1
      /\ \A i \in 1..Len(t) : u[i].Seed = t[i].Seed
  BY DEF SeedsCounted, BlockFrom
<1>2. \A i \in 1..m : i \in 1..Len(s) /\ i \in 1..Len(t)
  BY <1>1
<1>3. \A i \in 1..m : u[i].Seed = i - 1
  BY <1>1, <1>2
<1> QED  BY <1>1, <1>3 DEF SeedsCounted

LEMMA BytesOfRows ==
    ASSUME NEW db, NEW bs \in Seq(BlockSet), db.RoundTable \in Seq(RoundRow),
           Len(db.RoundTable) = Len(bs) + 2, BlocksDescribed(db.RoundTable, bs),
           db.RoundTable[Len(db.RoundTable)].stats = NoStats
    PROVE  GetSumMainChain(db, "BCSize") = Bytes(bs)
<1> DEFINE t == db.RoundTable
           k == Len(bs)
           s == [i \in 1..Len(t) |-> t[i].stats["BCSize"]]
           z == [i \in 1..k |-> bs[i].size]
           one == <<0>>
           v == one \o z
           w == v \o one
<1>1. GetSumMainChain(db, "BCSize") = Total(s) /\ Bytes(bs) = Total(z)
  BY DEF GetSumMainChain, Bytes
<1>2. k \in Nat /\ \A i \in 1..k : bs[i] \in BlockSet
  OBVIOUS
<1>3. z \in Seq(Int) /\ Len(z) = k /\ \A i \in 1..k : z[i] = bs[i].size
  <2>1. \A i \in 1..k : bs[i].size \in Int
    BY <1>2 DEF BlockSet
  <2> QED  BY <1>2, <2>1
<1>4. /\ one \in Seq(Int) /\ Len(one) = 1 /\ one[1] = 0 /\ Total(one) = 0
  <2>1. one \in Seq(Int) /\ Len(one) = 1 /\ one[1] = 0
    OBVIOUS
  <2> HIDE DEF one
  <2>2. \A i \in 1..Len(one) : one[i] = 0
    BY <2>1
  <2> QED  BY <2>1, <2>2, TotalOfZeros
<1> HIDE DEF one, z
<1>5. /\ v \in Seq(Int) /\ Len(v) = k + 1 /\ v[1] = 0 /\ \A i \in 1..k : v[i + 1] = z[i]
      /\ Total(v) = Total(z)
  <2>1. Total(v) = Total(one) + Total(z)
    BY <1>3, <1>4, TotalConcat
  <2>2. Total(z) \in Int
    BY <1>3, TotalStep
  <2>3. /\ v \in Seq(Int) /\ Len(v) = k + 1 /\ v[1] = 0 /\ \A i \in 1..k : v[i + 1] = z[i]
    <3>1. one \in Seq(Int) /\ z \in Seq(Int)
      BY <1>3, <1>4
    <3>2. /\ v \in Seq(Int) /\ Len(v) = Len(one) + Len(z)
          /\ \A i \in 1..Len(one) : v[i] = one[i]
          /\ \A i \in (Len(one) + 1)..(Len(one) + Len(z)) : v[i] = z[i - Len(one)]
      BY <3>1, Joined
    <3> HIDE DEF v, k
    <3>3. Len(one) = 1 /\ one[1] = 0 /\ Len(z) = k /\ k \in Nat
      BY <1>2, <1>3, <1>4
    <3>4. \A i \in 1..k : v[i + 1] = z[i]
      <4> TAKE i \in 1..k
      <4>1. i + 1 \in (1 + 1)..(1 + k) /\ (i + 1) - 1 = i
        BY <3>3
      <4>2. v[i + 1] = z[(i + 1) - 1]
        BY <3>2, <3>3, <4>1
      <4> QED  BY <4>1, <4>2
    <3> QED  BY <3>2, <3>3, <3>4
  <2> HIDE DEF v
  <2> QED  BY <1>4, <2>1, <2>2, <2>3
<1> HIDE DEF v
<1>6. /\ w \in Seq(Int) /\ Len(w) = k + 2 /\ w[k + 2] = 0 /\ \A i \in 1..(k + 1) : w[i] = v[i]
      /\ Total(w) = Total(v)
  <2>1. Total(w) = Total(v) + Total(one)
    BY <1>4, <1>5, TotalConcat
  <2>2. Total(v) \in Int
    BY <1>5, TotalStep
  <2>3. /\ w \in Seq(Int) /\ Len(w) = k + 2 /\ w[k + 2] = 0 /\ \A i \in 1..(k + 1) : w[i] = v[i]
    <3>1. one \in Seq(Int) /\ v \in Seq(Int)
      BY <1>4, <1>5
    <3>2. /\ w \in Seq(Int) /\ Len(w) = Len(v) + Len(one)
          /\ \A i \in 1..Len(v) : w[i] = v[i]
          /\ \A i \in (Len(v) + 1)..(Len(v) + Len(one)) : w[i] = one[i - Len(v)]
      BY <3>1, Joined
    <3> HIDE DEF w, k
    <3>3. Len(one) = 1 /\ one[1] = 0 /\ Len(v) = k + 1 /\ k \in Nat
      BY <1>2, <1>4, <1>5
    <3>4. k + 2 \in ((k + 1) + 1)..((k + 1) + 1) /\ (k + 2) - (k + 1) = 1
      BY <3>3
    <3>5. w[k + 2] = one[(k + 2) - (k + 1)]
      BY <3>2, <3>3, <3>4
    <3> QED  BY <3>2, <3>3, <3>4, <3>5
  <2> HIDE DEF w
  <2> QED  BY <1>4, <2>1, <2>2, <2>3
<1> HIDE DEF w
<1>7. /\ t[1].stats["BCSize"] = 0 /\ t[k + 2].stats["BCSize"] = 0
      /\ \A i \in 1..k : t[i + 1].stats["BCSize"] = bs[i].size
  <2>1. t[1].stats.BCSize = 0 /\ \A i \in 1..k : Describes(t[i + 1], bs[i])
    BY DEF BlocksDescribed
  <2>2. t[k + 2].stats.BCSize = 0
    BY DEF NoStats
  <2>3. \A i \in 1..k : t[i + 1].stats.BCSize = bs[i].size
    BY <2>1 DEF Describes
  <2> QED  BY <2>1, <2>2, <2>3
<1>8. Len(t) = k + 2
  OBVIOUS
<1> HIDE DEF t, k
<1>9. \A i \in 1..(k + 2) : w[i] = t[i].stats["BCSize"]
  <2> TAKE i \in 1..(k + 2)
  <2>1. CASE i = 1
    <3>1. 1 \in 1..(k + 1)
      BY <1>2
    <3> QED  BY <1>5, <1>6, <1>7, <2>1, <3>1
  <2>2. CASE i = k + 2
    BY <1>6, <1>7, <2>2
  <2>3. CASE i # 1 /\ i # k + 2
    <3>1. i - 1 \in 1..k /\ i \in 1..(k + 1) /\ (i - 1) + 1 = i
      BY <1>2, <2>3
    <3>2. w[i] = v[i] /\ v[(i - 1) + 1] = z[i - 1] /\ z[i - 1] = bs[i - 1].size
      BY <1>3, <1>5, <1>6, <3>1
    <3>3. t[(i - 1) + 1].stats["BCSize"] = bs[i - 1].size
      BY <1>7, <3>1
    <3> QED  BY <3>1, <3>2, <3>3
  <2> QED  BY <2>1, <2>2, <2>3
<1>10. s = w
  <2>1. w = [i \in 1..(k + 2) |-> w[i]]
    BY <1>6
  <2> QED  BY <1>8, <1>9, <2>1
<1> QED  BY <1>1, <1>5, <1>6, <1>10

LEMMA EvaluatedStill ==
    ASSUME NEW e, NEW bs \in Seq(BlockSet), NEW b \in BlockSet, Evaluated(e, bs)
    PROVE  Evaluated(e, Append(bs, b))
<1> DEFINE c == Append(bs, b)
<1>1. c \in Seq(BlockSet) /\ Len(c) = Len(bs) + 1 /\ Len(bs) \in Nat
      /\ \A i \in 1..Len(bs) : c[i] = bs[i]
  OBVIOUS
<1> HIDE DEF c
<1>2. ASSUME NEW n \in 1..Len(bs) PROVE SubSeq(c, 1, n) = SubSeq(bs, 1, n) /\ n \in 1..Len(c)
  <2>1. /\ SubSeq(c, 1, n) \in Seq(BlockSet) /\ Len(SubSeq(c, 1, n)) = n
        /\ \A i \in 1..n : SubSeq(c, 1, n)[i] = c[i]
    BY <1>1
  <2>2. /\ SubSeq(bs, 1, n) \in Seq(BlockSet) /\ Len(SubSeq(bs, 1, n)) = n
        /\ \A i \in 1..n : SubSeq(bs, 1, n)[i] = bs[i]
    OBVIOUS
  <2>3. \A i \in 1..n : i \in 1..Len(bs)
    BY <1>1
  <2> QED  BY <1>1, <2>1, <2>2, <2>3, SameSeq
<1>3. e # <<>> => /\ Last(e).RoundNbr \in 1..Len(bs)
                  /\ Last(e).sums.BCSize = Bytes(SubSeq(bs, 1, Last(e).RoundNbr))
  BY DEF Evaluated
<1>4. e # <<>> => /\ Last(e).RoundNbr \in 1..Len(c)
                  /\ Last(e).sums.BCSize = Bytes(SubSeq(c, 1, Last(e).RoundNbr))
  BY <1>2, <1>3
<1> QED  BY <1>4 DEF Evaluated, c

LEMMA EvaluatedMore ==
    ASSUME NEW e, NEW bs \in Seq(BlockSet), \E S : e \in Seq(S), NEW x,
           x.RoundNbr = Len(bs), x.sums.BCSize = Bytes(bs), Len(bs) # 0
    PROVE  Evaluated(Append(e, x), bs)
<1> DEFINE f == Append(e, x)
<1>1. PICK S : e \in Seq(S)
  OBVIOUS
<1> DEFINE T == S \cup {x}
<1>2. e \in Seq(T) /\ x \in T
  BY <1>1
<1> HIDE DEF T
<1>3. f \in Seq(T) /\ Len(f) = Len(e) + 1 /\ Len(e) \in Nat /\ f[Len(f)] = x
  BY <1>2
<1>4. Last(f) = x
  BY <1>3 DEF Last
<1>5. SubSeq(bs, 1, Len(bs)) = bs /\ Len(bs) \in 1..Len(bs)
  OBVIOUS
<1> HIDE DEF f
<1> QED  BY <1>3, <1>4, <1>5 DEF Evaluated, f


\* What the tables of the rounds hold.
RoundsExact ==
    LET t == mainchainDb.RoundTable
    IN  /\ mcPurge = 0 => Len(blocks) = MCRoundNumber - 1
        /\ mcPurge > 0 => Len(blocks) = mcPurge - 1
        /\ BlocksDescribed(t, blocks)
        /\ SeedsCounted(t, MCRoundNumber)
        /\ mcPurge = 0 => SeedsCounted(t, Len(t))
        /\ Evaluated(mainchainDb.OverallEvaluation, blocks)

LEMMA RoundExact ==
    ASSUME LedgerTyped, RoundsExact, mcPurge = 0, EmptyBlock \/ FullBlock, UNCHANGED purgeVars
    PROVE  RoundsExact'
<1>1. PICK b, n : RoundClosed(b, n)
  BY RoundCloses
<1> DEFINE q == InsertRows(mainchainDb.FirstQueue, NewTxs)
           s == mainchainDb.RoundTable
           t == Append(s, NextRow)
           u == mainchainDb'.RoundTable
           e == mainchainDb.OverallEvaluation
           k == Len(blocks)
<1>2. /\ MCRoundNumber' = MCRoundNumber + 1 /\ ~crashed /\ mcPurge' = 0
      /\ MCRoundNumber \in Nat \ {0} /\ MCRoundNumber <= conf.SimulationRounds
      /\ blocks \in Seq(BlockSet) /\ k \in Nat
  BY DEF EmptyBlock, FullBlock, CollectRest, MainChainTurn, purgeVars, LedgerTyped
<1>3. /\ MainTyped(mainchainDb') /\ BlockFrom(b, q, n, t, u, MCRoundNumber)
      /\ blocks' = Append(blocks, b)
      /\ \/ mainchainDb'.OverallEvaluation = e
         \/ \E sums : /\ mainchainDb'.OverallEvaluation =
                            Append(e, [RoundNbr |-> MCRoundNumber, sums |-> sums])
                      /\ sums.BCSize = GetSumMainChain(mainchainDb', "BCSize")
  BY <1>1 DEF RoundClosed
<1>4. /\ t \in Seq(RoundRow) /\ Len(t) = MCRoundNumber + 2 /\ Numbered(t) /\ t[Len(t)] = NextRow
      /\ \A i \in 1..(MCRoundNumber + 1) : t[i] = s[i]
      /\ Len(s) = MCRoundNumber + 1
  BY <1>2, RowsOfNext
<1>5. s \in Seq(RoundRow) /\ Numbered(s) /\ u \in Seq(RoundRow)
  BY <1>3 DEF LedgerTyped, MainTyped
<1>6. /\ k = MCRoundNumber - 1 /\ BlocksDescribed(s, blocks) /\ SeedsCounted(s, Len(s))
      /\ Evaluated(e, blocks)
  BY DEF RoundsExact
<1>7. NextRow.Seed = MCRoundNumber + 1 /\ NextRow.stats = NoStats /\ NextRow.RoundNumber = MCRoundNumber + 1
  <2>1. MainChainGetLastRoundSeed(mainchainDb) = s[Len(s)].Seed
    BY <1>5, LastSeed
  <2>2. s[Len(s)].Seed = Len(s) - 1
    <3>1. Len(s) \in 1..Len(s)
      BY <1>2, <1>4
    <3> QED  BY <1>6, <3>1 DEF SeedsCounted
  <2>3. MainChainGetLastRoundSeed(mainchainDb) = MCRoundNumber
    BY <1>2, <1>4, <2>1, <2>2
  <2> QED  BY <2>3 DEF NextRow, NewRow
<1>b. b \in BlockSet /\ Len(u) = Len(t)
  BY <1>3 DEF BlockFrom
<1> HIDE DEF q, s, t, u, e
<1>8. Len(blocks') = k + 1 /\ blocks' \in Seq(BlockSet)
  BY <1>2, <1>3, <1>b
<1> HIDE DEF k
<1>9. BlocksDescribed(u, blocks')
  <2>1. MCRoundNumber = k + 1
    BY <1>2, <1>6
  <2>2. BlockFrom(b, q, n, t, u, Len(blocks) + 1)
    BY <1>3, <2>1 DEF k
  <2>3. /\ Len(s) <= Len(t) /\ \A i \in 1..Len(s) : t[i] = s[i]
        /\ Len(blocks) + 2 <= Len(t)
    BY <1>2, <1>4, <1>6 DEF k
  <2>4. BlocksDescribed(u, Append(blocks, b))
    BY <1>2, <1>4, <1>5, <1>6, <2>2, <2>3, DescribedMore
  <2> QED  BY <1>3, <2>4
<1>10. SeedsCounted(t, Len(t))
  <2>1. \A i \in 1..Len(s) : s[i].Seed = i - 1
    BY <1>6 DEF SeedsCounted
  <2>2. \A i \in 1..Len(t) : t[i].Seed = i - 1
    <3> TAKE i \in 1..Len(t)
    <3>1. CASE i \in 1..(MCRoundNumber + 1)
      BY <1>4, <2>1, <3>1
    <3>2. CASE i = Len(t)
      BY <1>2, <1>4, <1>7, <3>2
    <3> QED  BY <1>2, <1>4, <3>1, <3>2
  <2>3. Len(t) <= Len(t)
    BY <1>2, <1>4
  <2> QED  BY <2>2, <2>3 DEF SeedsCounted
<1>11. SeedsCounted(u, Len(t))
  <2>1. Len(t) \in Nat /\ Len(t) <= Len(t) /\ \A i \in 1..Len(t) : t[i] = t[i]
    BY <1>2, <1>4
  <2> QED  BY <1>3, <1>4, <1>10, <2>1, SeedsKept
<1>12. SeedsCounted(u, MCRoundNumber + 1)
  <2>1. MCRoundNumber + 1 <= Len(t) /\ \A i \in 1..(MCRoundNumber + 1) : i \in 1..Len(t)
    BY <1>2, <1>4
  <2> QED  BY <1>b, <1>11, <2>1 DEF SeedsCounted
<1>13. Evaluated(mainchainDb'.OverallEvaluation, blocks')
  <2>1. CASE mainchainDb'.OverallEvaluation = e
    BY <1>2, <1>3, <1>6, <1>b, <2>1, EvaluatedStill
  <2>2. ASSUME NEW sums, mainchainDb'.OverallEvaluation =
                            Append(e, [RoundNbr |-> MCRoundNumber, sums |-> sums]),
               sums.BCSize = GetSumMainChain(mainchainDb', "BCSize")
        PROVE  Evaluated(mainchainDb'.OverallEvaluation, blocks')
    <3> DEFINE x == [RoundNbr |-> MCRoundNumber, sums |-> sums]
    <3>1. x.RoundNbr = Len(blocks') /\ Len(blocks') # 0
      BY <1>2, <1>6, <1>8
    <3>2. u[Len(u)].stats = NoStats
      <4>1. Len(t) \in 1..Len(t)
        BY <1>2, <1>4
      <4>2. t[Len(t)].RoundNumber # MCRoundNumber
        BY <1>2, <1>4, <1>7
      <4> QED  BY <1>3, <1>4, <1>7, <1>b, <4>1, <4>2 DEF BlockFrom
    <3>3. Len(u) = Len(blocks') + 2
      BY <1>2, <1>4, <1>6, <1>8, <1>b
    <3>4. GetSumMainChain(mainchainDb', "BCSize") = Bytes(blocks')
      <4> DEFINE d == mainchainDb'
                 c == blocks'
      <4>1. /\ d.RoundTable \in Seq(RoundRow) /\ Len(d.RoundTable) = Len(c) + 2
            /\ BlocksDescribed(d.RoundTable, c)
            /\ d.RoundTable[Len(d.RoundTable)].stats = NoStats /\ c \in Seq(BlockSet)
        BY <1>5, <1>8, <1>9, <3>2, <3>3 DEF u
      <4> HIDE DEF d, c
      <4>2. GetSumMainChain(d, "BCSize") = Bytes(c)
        BY <4>1, BytesOfRows
      <4> QED  BY <4>2 DEF d, c
    <3>5. \E S : e \in Seq(S)
      BY <1>6 DEF Evaluated
    <3>6. x.sums.BCSize = Bytes(blocks')
      BY <2>2, <3>4
    <3> HIDE DEF x
    <3>7. Evaluated(Append(e, x), blocks')
      BY <1>8, <3>1, <3>5, <3>6, EvaluatedMore
    <3> QED  BY <2>2, <3>7 DEF x
  <2> QED  BY <1>3, <2>1, <2>2
<1>14. Len(blocks') = MCRoundNumber' - 1
  BY <1>2, <1>6, <1>8
<1>15. MCRoundNumber' <= Len(t)
  BY <1>2, <1>4
<1> QED  BY <1>2, <1>9, <1>11, <1>12, <1>13, <1>14, <1>b DEF RoundsExact, u, BlocksDescribed, SeedsCounted, Evaluated, Numbered


\* Tables that agree on their first m rows.
LEMMA DescribedAlike ==
    ASSUME NEW t, NEW u, NEW bs \in Seq(BlockSet), NEW m \in Nat, Len(bs) < m,
           m <= Len(t), m <= Len(u), Len(t) \in Nat, Len(u) \in Nat,
           \A i \in 1..m : u[i] = t[i], BlocksDescribed(t, bs)
    PROVE  BlocksDescribed(u, bs)
<1>1. Len(bs) \in Nat
  OBVIOUS
<1>2. 1 \in 1..m /\ \A r \in 1..Len(bs) : r + 1 \in 1..m
  BY <1>1
<1>3. Len(bs) < Len(u)
  BY <1>1
<1> QED  BY <1>2, <1>3 DEF BlocksDescribed

LEMMA SeedsAlike ==
    ASSUME NEW t, NEW u, NEW n \in Nat, NEW m \in Nat, n <= m, m <= Len(u), Len(u) \in Nat,
           \A i \in 1..m : u[i] = t[i], SeedsCounted(t, n)
    PROVE  SeedsCounted(u, n)
<1>1. n <= Len(u) /\ \A i \in 1..n : i \in 1..m
  OBVIOUS
<1> QED  BY <1>1 DEF SeedsCounted

LEMMA CrashExact ==
    ASSUME LedgerTyped, RoundsExact, mcPurge = 0, CrashWithoutPower, UNCHANGED purgeVars
    PROVE  RoundsExact'
<1> DEFINE s == mainchainDb.RoundTable
           u == mainchainDb'.RoundTable
<1>1. /\ mainchainDb' = PoweredDb /\ ~crashed /\ mcPurge' = 0
      /\ blocks' = blocks /\ MCRoundNumber' = MCRoundNumber /\ MCRoundNumber \in Nat \ {0}
      /\ blocks \in Seq(BlockSet)
  BY DEF CrashWithoutPower, MainChainTurn, purgeVars, LedgerTyped
<1>2. /\ u = Append(s, NextRow)
      /\ mainchainDb'.OverallEvaluation = mainchainDb.OverallEvaluation
  BY <1>1, RoundPrepared
<1>3. /\ u \in Seq(RoundRow) /\ Len(u) = MCRoundNumber + 2 /\ u[Len(u)] = NextRow
      /\ \A i \in 1..(MCRoundNumber + 1) : u[i] = s[i]
      /\ Len(s) = MCRoundNumber + 1
  BY <1>1, <1>2, RowsOfNext
<1>4. s \in Seq(RoundRow) /\ Numbered(s)
  BY DEF LedgerTyped, MainTyped
<1>5. /\ Len(blocks) = MCRoundNumber - 1 /\ BlocksDescribed(s, blocks) /\ SeedsCounted(s, Len(s))
      /\ Evaluated(mainchainDb.OverallEvaluation, blocks)
  BY <1>1 DEF RoundsExact
<1>6. NextRow.Seed = MCRoundNumber + 1
  <2>1. MainChainGetLastRoundSeed(mainchainDb) = s[Len(s)].Seed
    BY <1>4, LastSeed
  <2>2. s[Len(s)].Seed = Len(s) - 1
    <3>1. Len(s) \in 1..Len(s)
      BY <1>1, <1>3
    <3> QED  BY <1>5, <3>1 DEF SeedsCounted
  <2>3. MainChainGetLastRoundSeed(mainchainDb) = MCRoundNumber
    BY <1>1, <1>3, <2>1, <2>2
  <2> QED  BY <2>3 DEF NextRow, NewRow
<1> HIDE DEF s, u
<1>7. BlocksDescribed(u, blocks)
  <2>1. Len(blocks) < Len(s) /\ Len(s) <= Len(s) /\ Len(s) <= Len(u) /\ Len(s) \in Nat /\ Len(u) \in Nat
    BY <1>1, <1>3, <1>5
  <2>2. \A i \in 1..Len(s) : u[i] = s[i]
    BY <1>3
  <2> QED  BY <1>1, <1>5, <2>1, <2>2, DescribedAlike
<1>8. SeedsCounted(u, Len(u)) /\ SeedsCounted(u, MCRoundNumber)
  <2>1. \A i \in 1..Len(s) : s[i].Seed = i - 1
    BY <1>5 DEF SeedsCounted
  <2>2. \A i \in 1..Len(u) : u[i].Seed = i - 1
    <3> TAKE i \in 1..Len(u)
    <3>1. CASE i \in 1..(MCRoundNumber + 1)
      BY <1>3, <2>1, <3>1
    <3>2. CASE i = Len(u)
      BY <1>1, <1>3, <1>6, <3>2
    <3> QED  BY <1>1, <1>3, <3>1, <3>2
  <2>3. Len(u) <= Len(u) /\ MCRoundNumber <= Len(u) /\ \A i \in 1..MCRoundNumber : i \in 1..Len(u)
    BY <1>1, <1>3
  <2> QED  BY <2>2, <2>3 DEF SeedsCounted
<1> QED  BY <1>1, <1>2, <1>5, <1>7, <1>8
        DEF RoundsExact, u, BlocksDescribed, SeedsCounted, Evaluated

LEMMA StartMainExact ==
    ASSUME LedgerTyped, RoundsExact, StartMainPurge
    PROVE  RoundsExact'
<1> DEFINE s == mainchainDb.RoundTable
           u == mainchainDb'.RoundTable
           n == conf.SimulationRounds
<1>1. /\ s \in Seq(RoundRow) /\ Len(s) = n + 2 /\ n \in Nat /\ u = Front(s)
      /\ mainchainDb'.OverallEvaluation = mainchainDb.OverallEvaluation
  BY StartMainTyped
<1>2. /\ mcPurge = 0 /\ mcPurge' = n + 1 /\ MCRoundNumber = n + 1
      /\ MCRoundNumber' = MCRoundNumber /\ blocks' = blocks /\ blocks \in Seq(BlockSet)
  BY DEF StartMainPurge, SimulationOver, LedgerTyped
<1>3. /\ Len(blocks) = n /\ BlocksDescribed(s, blocks) /\ SeedsCounted(s, MCRoundNumber)
      /\ Evaluated(mainchainDb.OverallEvaluation, blocks)
  BY <1>1, <1>2 DEF RoundsExact
<1> HIDE DEF s, n
<1>4. Len(u) = n + 1 /\ \A i \in 1..(n + 1) : u[i] = s[i]
  BY <1>1 DEF Front
<1> HIDE DEF u
<1>5. BlocksDescribed(u, blocks)
  <2>1. n + 1 \in Nat /\ Len(blocks) < n + 1 /\ n + 1 <= Len(s) /\ n + 1 <= Len(u)
        /\ Len(s) \in Nat /\ Len(u) \in Nat
    BY <1>1, <1>3, <1>4
  <2> DEFINE m == n + 1
  <2>2. m \in Nat /\ Len(blocks) < m /\ m <= Len(s) /\ m <= Len(u) /\ \A i \in 1..m : u[i] = s[i]
    BY <1>4, <2>1
  <2> HIDE DEF m
  <2> QED  BY <1>2, <1>3, <2>1, <2>2, DescribedAlike
<1>6. SeedsCounted(u, MCRoundNumber)
  <2> DEFINE m == n + 1
  <2>1. m \in Nat /\ m <= m /\ m <= Len(u) /\ Len(u) \in Nat /\ MCRoundNumber = m
        /\ \A i \in 1..m : u[i] = s[i]
    BY <1>1, <1>2, <1>4
  <2> HIDE DEF m
  <2> QED  BY <1>3, <2>1, SeedsAlike
<1>7. Len(blocks') = mcPurge' - 1 /\ mcPurge' # 0
  BY <1>1, <1>2, <1>3
<1> QED  BY <1>1, <1>2, <1>3, <1>5, <1>6, <1>7
        DEF RoundsExact, u, BlocksDescribed, SeedsCounted, Evaluated

LEMMA PurgeExact ==
    ASSUME LedgerTyped, RoundsExact, MainPurgeRound
    PROVE  RoundsExact'
<1> DEFINE added == InsertIntoMainChainRoundTable(mainchainDb, mcPurge, -1)
           r == NewRow(mcPurge, -1)
           s == mainchainDb.RoundTable
           t == Append(s, r)
           u == mainchainDb'.RoundTable
           e == mainchainDb.OverallEvaluation
<1>1. /\ mcPurge > 0 /\ MCRoundNumber' = MCRoundNumber
  BY DEF MainPurgeRound
<1>2. IF NothingQueued(added) THEN mainchainDb' = added /\ mcPurge' = -1 /\ blocks' = blocks
      ELSE mcPurge' = mcPurge + 1 /\ \E b, n : PurgeRoundDone(b, n)
  BY PurgeRounds
<1>3. /\ MainTyped(mainchainDb) /\ s \in Seq(RoundRow)
      /\ Numbered(s) /\ mcPurge \in Nat \ {0} /\ MCRoundNumber \in Nat
      /\ Len(s) = mcPurge /\ MCRoundNumber <= mcPurge /\ blocks \in Seq(BlockSet)
  <2>1. conf.SimulationRounds \in Nat
    BY ConfIsSound DEF LedgerTyped
  <2> QED  BY <1>1, <2>1 DEF LedgerTyped, MainTyped, RowsPrepared
<1>4. added.RoundTable = t /\ t \in Seq(RoundRow) /\ added.OverallEvaluation = e
  <2> DEFINE seed == -1
  <2>1. seed \in Int /\ mcPurge \in Int
    BY <1>3
  <2>2. /\ added = InsertIntoMainChainRoundTable(mainchainDb, mcPurge, seed)
        /\ t = Append(s, NewRow(mcPurge, seed))
    OBVIOUS
  <2> HIDE DEF seed, added, t
  <2> QED  BY <1>3, <2>1, <2>2, RowAdded
<1>5. Len(blocks) = mcPurge - 1 /\ BlocksDescribed(s, blocks) /\ SeedsCounted(s, MCRoundNumber)
      /\ Evaluated(e, blocks)
  BY <1>1 DEF RoundsExact
<1>6. r.RoundNumber = mcPurge
  BY DEF NewRow
<1> HIDE DEF r, s
<1>7. Len(t) = mcPurge + 1 /\ t[mcPurge + 1] = r /\ \A i \in 1..mcPurge : t[i] = s[i]
  BY <1>3
<1>8. Numbered(t)
  <2> HIDE DEF t
  <2>0. \A i \in 1..mcPurge : s[i].RoundNumber = i - 1
    BY <1>3 DEF Numbered
  <2>1. \A i \in 1..Len(t) : t[i].RoundNumber = i - 1
    <3> TAKE i \in 1..Len(t)
    <3>1. CASE i \in 1..mcPurge
      BY <1>7, <2>0, <3>1
    <3>2. CASE i = mcPurge + 1
      BY <1>3, <1>6, <1>7, <3>2
    <3> QED  BY <1>3, <1>7, <3>1, <3>2
  <2> QED  BY <1>3, <1>7, <2>1 DEF Numbered
<1> HIDE DEF t, e, added
<1>9. CASE NothingQueued(added)
  <2>1. mainchainDb' = added /\ mcPurge' = -1 /\ blocks' = blocks /\ u = t
    BY <1>2, <1>4, <1>9
  <2>2. BlocksDescribed(t, blocks)
    <3>1. mcPurge \in Nat /\ Len(blocks) < mcPurge /\ mcPurge <= Len(s) /\ mcPurge <= Len(t)
          /\ Len(s) \in Nat /\ Len(t) \in Nat
      BY <1>3, <1>5, <1>7
    <3> QED  BY <1>3, <1>5, <1>7, <3>1, DescribedAlike
  <2>3. SeedsCounted(t, MCRoundNumber)
    <3>1. mcPurge \in Nat /\ mcPurge <= Len(t) /\ Len(t) \in Nat
      BY <1>3, <1>7
    <3> QED  BY <1>3, <1>5, <1>7, <3>1, SeedsAlike
  <2>4. mcPurge' # 0 /\ ~(mcPurge' > 0)
    BY <2>1
  <2> QED  BY <1>1, <1>4, <1>5, <2>1, <2>2, <2>3, <2>4
        DEF RoundsExact, u, e, BlocksDescribed, SeedsCounted, Evaluated
<1>10. CASE ~NothingQueued(added)
  <2>1. mcPurge' = mcPurge + 1 /\ \E b, n : PurgeRoundDone(b, n)
    BY <1>2, <1>10
  <2>2. PICK b, n : PurgeRoundDone(b, n)
    BY <2>1
  <2> DEFINE q == mainchainDb.FirstQueue
  <2>3. /\ BlockFrom(b, q, n, t, u, mcPurge) /\ blocks' = Append(blocks, b)
        /\ mainchainDb'.OverallEvaluation = e
    BY <2>2 DEF PurgeRoundDone, t, s, r, e
  <2>b. b \in BlockSet /\ Len(u) = Len(t)
    BY <2>3 DEF BlockFrom
  <2> HIDE DEF q, u
  <2>4. BlocksDescribed(u, blocks')
    <3>1. mcPurge = Len(blocks) + 1
      BY <1>3, <1>5
    <3>2. BlockFrom(b, q, n, t, u, Len(blocks) + 1)
      BY <2>3, <3>1
    <3>3. Len(s) <= Len(t) /\ Len(blocks) + 2 <= Len(t) /\ \A i \in 1..Len(s) : t[i] = s[i]
      BY <1>3, <1>5, <1>7
    <3>4. BlocksDescribed(u, Append(blocks, b))
      BY <1>3, <1>4, <1>5, <1>8, <3>2, <3>3, DescribedMore
    <3> QED  BY <2>3, <3>4
  <2>5. SeedsCounted(u, MCRoundNumber)
    <3>1. Len(s) <= Len(t) /\ \A i \in 1..Len(s) : t[i] = s[i]
      BY <1>3, <1>7
    <3> QED  BY <1>3, <1>4, <1>5, <2>3, <3>1, SeedsKept
  <2>6. Evaluated(e, blocks')
    BY <1>3, <1>5, <2>3, <2>b, EvaluatedStill
  <2>7. Len(blocks') = mcPurge' - 1 /\ mcPurge' # 0
    BY <1>3, <1>5, <2>1, <2>3, <2>b
  <2> QED  BY <1>1, <2>3, <2>4, <2>5, <2>6, <2>7
        DEF RoundsExact, u, BlocksDescribed, SeedsCounted, Evaluated
<1> QED  BY <1>9, <1>10

LEMMA ExactStep ==
    ASSUME LedgerTyped, RoundsExact, [PurgeNext]_<<vars, purgeVars>>
    PROVE  RoundsExact'
<1>1. ASSUME /\ mainchainDb'.RoundTable = mainchainDb.RoundTable
             /\ mainchainDb'.OverallEvaluation = mainchainDb.OverallEvaluation
             /\ blocks' = blocks /\ mcPurge' = mcPurge /\ MCRoundNumber' = MCRoundNumber
      PROVE  RoundsExact'
  BY <1>1 DEF RoundsExact, BlocksDescribed, SeedsCounted, Evaluated
<1>2. ASSUME MetaBlock, UNCHANGED purgeVars PROVE RoundsExact'
  BY <1>1, <1>2 DEF MetaBlock, purgeVars
<1>3. ASSUME SummaryBlock, UNCHANGED purgeVars PROVE RoundsExact'
  <2>1. /\ mainchainDb'.RoundTable = mainchainDb.RoundTable
        /\ mainchainDb'.OverallEvaluation = mainchainDb.OverallEvaluation
    BY <1>3, SummaryDone
  <2>2. blocks' = blocks /\ mcPurge' = mcPurge /\ MCRoundNumber' = MCRoundNumber
    BY <1>3 DEF SummaryBlock, purgeVars
  <2> QED  BY <1>1, <2>1, <2>2
<1>4. ASSUME StartSidePurge \/ SidePurgeSummary \/ SidePurgeRound
             \/ UNCHANGED <<vars, purgeVars>>
      PROVE  RoundsExact'
  BY <1>1, <1>4 DEF StartSidePurge, SidePurgeSummary, SidePurgeRound, vars, purgeVars
<1>5. ASSUME mcPurge = 0, Next, UNCHANGED purgeVars PROVE RoundsExact'
  BY <1>2, <1>3, <1>5, CrashExact, RoundExact DEF Next
<1> QED  BY <1>4, <1>5, StartMainExact, PurgeExact DEF PurgeNext

LEMMA ExactAtFirst ==
    ASSUME PurgeInit
    PROVE  RoundsExact
<1> DEFINE t == mainchainDb.RoundTable
<1>1. /\ conf \in Experiments /\ blocks = <<>> /\ MCRoundNumber = 1 /\ mcPurge = 0
      /\ mainchainDb = finalMainChainBCInitialization
  BY DEF PurgeInit, Init
<1>2. mainchainDb.OverallEvaluation = <<>> /\ t = <<NewRow(0, 0), NewRow(1, 1)>>
  BY <1>1, FirstDb
<1>3. Len(t) = 2 /\ t[1].Seed = 0 /\ t[2].Seed = 1 /\ t[1].stats.BCSize = 0
  BY <1>2 DEF NewRow, NoStats
<1> HIDE DEF t
<1>4. BlocksDescribed(t, blocks)
  BY <1>1, <1>3 DEF BlocksDescribed
<1>5. SeedsCounted(t, 1) /\ SeedsCounted(t, Len(t))
  BY <1>3 DEF SeedsCounted
<1>6. Evaluated(<<>>, blocks)
  BY DEF Evaluated
<1>7. Len(blocks) = MCRoundNumber - 1
  BY <1>1
<1> QED  BY <1>1, <1>2, <1>4, <1>5, <1>6, <1>7 DEF RoundsExact, t

\* The main chain's round table has one row per round that describes its
\* block, every round has its own seed, and the last overall evaluation sums
\* up the blocks so far (the row is prepared a round ahead by
\* updateBCPowerRound, MainChainBlockChain.go:157, and its statistics are
\* addressed by the round's number, dbbc.go, in the simulation and in
\* mainchain-purge).
THEOREM RoundsAreExact == PurgeSpec => []RoundTableExact
<1>1. PurgeInit => LedgerTyped /\ RoundsExact
  BY InitTyped, ExactAtFirst
<1>2. LedgerTyped /\ RoundsExact /\ [PurgeNext]_<<vars, purgeVars>> => LedgerTyped' /\ RoundsExact'
  BY StepTyped, ExactStep
<1>3. LedgerTyped /\ RoundsExact => RoundTableExact
  <2> SUFFICES ASSUME LedgerTyped, RoundsExact PROVE RoundTableExact
    OBVIOUS
  <2> DEFINE t == mainchainDb.RoundTable
             e == mainchainDb.OverallEvaluation
  <2>1. \A r \in 1..Len(blocks) : Describes(t[r + 1], blocks[r])
    BY DEF RoundsExact, BlocksDescribed
  <2>2. \A i, j \in 1..MCRoundNumber : i # j => t[i].Seed # t[j].Seed
    <3>1. \A i \in 1..MCRoundNumber : t[i].Seed = i - 1
      BY DEF RoundsExact, SeedsCounted
    <3> HIDE DEF t
    <3> QED  BY <3>1
  <2>3. e # <<>> => Last(e).sums.BCSize = Bytes(SubSeq(blocks, 1, Last(e).RoundNbr))
    BY DEF RoundsExact, Evaluated
  <2>4. \A bs : Bytes(bs) = SumOver(bs, LAMBDA b : b.size)
    BY DEF Bytes, SumOver
  <2> HIDE DEF t, e
  <2> QED  BY <2>1, <2>2, <2>3, <2>4 DEF RoundTableExact, t, e
<1> QED  BY <1>1, <1>2, <1>3, PTL DEF PurgeSpec


-----------------------------------------------------------------------------
(* Counting.                                                               *)

\* The members of P up to n, one by one.
Marks(P, n) == [i \in 1..n |-> IF i \in P THEN 1 ELSE 0]

LEMMA CardinalityIsTotal ==
    ASSUME NEW n \in Nat, NEW P, P \subseteq 1..n
    PROVE  /\ Marks(P, n) \in Seq(Int) /\ Len(Marks(P, n)) = n
           /\ Cardinality(P) = Total(Marks(P, n))
<1> DEFINE s == Marks(P, n)
           part(k) == P \cap (1..k)
           T == {k \in 0..n : Cardinality(part(k)) # Total(First(s, k))}
<1>1. s \in Seq(Int) /\ Len(s) = n /\ \A i \in 1..n : s[i] = IF i \in P THEN 1 ELSE 0
  BY DEF Marks
<1> HIDE DEF s
<1>2. 0 \notin T
  <2>1. part(0) = {}
    OBVIOUS
  <2>2. Cardinality(part(0)) = 0
    BY <2>1, FS_EmptySet
  <2>3. Total(First(s, 0)) = 0
    BY <1>1, TotalStep
  <2> QED  BY <2>2, <2>3
<1>3. ASSUME NEW k \in T, k # 0 PROVE k - 1 \in T
  <2>1. k \in 1..n /\ k - 1 \in 0..n /\ k \in Nat /\ k - 1 \in Nat
    BY <1>3
  <2>2. Total(First(s, k)) = Total(First(s, k - 1)) + s[k] /\ Total(First(s, k - 1)) \in Int
    BY <1>1, <2>1, TotalStep
  <2>3. IsFiniteSet(part(k - 1)) /\ Cardinality(part(k - 1)) \in Nat
    <3>1. part(k - 1) \subseteq 1..(k - 1)
      OBVIOUS
    <3> HIDE DEF part
    <3> QED  BY <2>1, <3>1, CountOf
  <2>4. CASE k \in P
    <3>1. part(k) = part(k - 1) \cup {k} /\ k \notin part(k - 1)
      BY <2>1, <2>4
    <3> HIDE DEF part
    <3>2. Cardinality(part(k)) = Cardinality(part(k - 1)) + 1
      BY <2>3, <3>1, FS_AddElement
    <3>3. s[k] = 1
      BY <1>1, <2>1, <2>4
    <3>4. Cardinality(part(k)) # Total(First(s, k))
      BY <1>3
    <3> QED  BY <2>1, <2>2, <2>3, <3>2, <3>3, <3>4
  <2>5. CASE k \notin P
    <3>1. part(k) = part(k - 1)
      BY <2>1, <2>5
    <3>2. s[k] = 0
      BY <1>1, <2>1, <2>5
    <3>3. Cardinality(part(k)) # Total(First(s, k))
      BY <1>3
    <3> HIDE DEF part
    <3> QED  BY <2>1, <2>2, <2>3, <3>1, <3>2, <3>3
  <2> QED  BY <2>4, <2>5
<1>4. T = {}
  <2>1. T \subseteq 0..n
    OBVIOUS
  <2> HIDE DEF T
  <2> QED  BY <2>1, <1>2, <1>3, NoLeastFailure
<1>5. Cardinality(part(n)) = Total(First(s, n))
  BY <1>4
<1>6. part(n) = P
  OBVIOUS
<1>7. First(s, n) = s
  BY <1>1, TotalStep
<1> HIDE DEF part
<1> QED  BY <1>1, <1>5, <1>6, <1>7 DEF s

\* The places of the PoRs of txs.
PoRPlaces(txs) == {i \in 1..Len(txs) : txs[i].name = "TxPor"}

LEMMA PoRsCounted ==
    ASSUME NEW txs \in Seq(TxSet)
    PROVE  /\ CountPoRs(txs) \in Nat
           /\ CountPoRs(txs) = Total(Marks(PoRPlaces(txs), Len(txs)))
           /\ Marks(PoRPlaces(txs), Len(txs)) \in Seq(Int)
           /\ Len(Marks(PoRPlaces(txs), Len(txs))) = Len(txs)
<1>1. PoRPlaces(txs) \subseteq 1..Len(txs) /\ Len(txs) \in Nat
  BY DEF PoRPlaces
<1>2. CountPoRs(txs) = Cardinality(PoRPlaces(txs))
  BY DEF CountPoRs, PoRPlaces
<1> QED  BY <1>1, <1>2, CardinalityIsTotal, CountOf

LEMMA CountsAdd ==
    ASSUME NEW s \in Seq(TxSet), NEW t \in Seq(TxSet)
    PROVE  CountPoRs(s \o t) = CountPoRs(s) + CountPoRs(t)
<1> DEFINE u == s \o t
           a == Marks(PoRPlaces(s), Len(s))
           b == Marks(PoRPlaces(t), Len(t))
           c == Marks(PoRPlaces(u), Len(u))
           d == a \o b
<1>1. /\ u \in Seq(TxSet) /\ Len(u) = Len(s) + Len(t) /\ Len(s) \in Nat /\ Len(t) \in Nat
      /\ \A i \in 1..Len(s) : u[i] = s[i]
      /\ \A i \in (Len(s) + 1)..(Len(s) + Len(t)) :
            u[i] = t[i - Len(s)] /\ i - Len(s) \in 1..Len(t)
  BY Joined
<1> HIDE DEF u
<1>2. /\ a \in Seq(Int) /\ Len(a) = Len(s)
      /\ \A i \in 1..Len(s) : a[i] = IF s[i].name = "TxPor" THEN 1 ELSE 0
  BY PoRsCounted DEF Marks, PoRPlaces
<1>3. /\ b \in Seq(Int) /\ Len(b) = Len(t)
      /\ \A i \in 1..Len(t) : b[i] = IF t[i].name = "TxPor" THEN 1 ELSE 0
  BY PoRsCounted DEF Marks, PoRPlaces
<1>4. /\ c \in Seq(Int) /\ Len(c) = Len(u)
      /\ \A i \in 1..Len(u) : c[i] = IF u[i].name = "TxPor" THEN 1 ELSE 0
  BY <1>1, PoRsCounted DEF Marks, PoRPlaces
<1>5. CountPoRs(s) = Total(a) /\ CountPoRs(t) = Total(b) /\ CountPoRs(u) = Total(c)
  BY <1>1, PoRsCounted
<1> HIDE DEF a, b, c
<1>6. /\ d \in Seq(Int) /\ Len(d) = Len(a) + Len(b)
      /\ \A i \in 1..Len(a) : d[i] = a[i]
      /\ \A i \in (Len(a) + 1)..(Len(a) + Len(b)) : d[i] = b[i - Len(a)]
  <2>1. a \in Seq(Int) /\ b \in Seq(Int)
    BY <1>2, <1>3
  <2> QED  BY <2>1, Joined
<1>7. Total(d) = Total(a) + Total(b)
  BY <1>2, <1>3, TotalConcat
<1> HIDE DEF d
<1>8. \A i \in 1..Len(c) : c[i] = d[i]
  <2> TAKE i \in 1..Len(c)
  <2>1. CASE i \in 1..Len(s)
    <3>1. i \in 1..Len(u)
      BY <1>1, <2>1
    <3>2. c[i] = IF s[i].name = "TxPor" THEN 1 ELSE 0
      BY <1>1, <1>4, <2>1, <3>1
    <3> QED  BY <1>2, <1>6, <2>1, <3>2
  <2>2. CASE i \in (Len(s) + 1)..(Len(s) + Len(t))
    <3>1. i \in 1..Len(u) /\ i - Len(s) \in 1..Len(t) /\ u[i] = t[i - Len(s)]
      BY <1>1, <2>2
    <3>2. c[i] = IF t[i - Len(s)].name = "TxPor" THEN 1 ELSE 0
      BY <1>4, <3>1
    <3>3. d[i] = b[i - Len(s)]
      BY <1>2, <1>3, <1>6, <2>2
    <3> QED  BY <1>3, <3>1, <3>2, <3>3
  <2> QED  BY <1>1, <1>4, <2>1, <2>2
<1>9. c = d
  <2>1. Len(c) = Len(d)
    BY <1>1, <1>2, <1>3, <1>4, <1>6
  <2> QED  BY <1>4, <1>6, <1>8, <2>1, SameSeq
<1> QED  BY <1>5, <1>7, <1>9 DEF u

\* The sum over n agreements of how many of txs each one has.
PerAgreement(txs, n) ==
    [a \in 1..n |-> Cardinality({i \in 1..Len(txs) : txs[i].agr = a})]

LEMMA CountedPerAgreement ==
    ASSUME NEW n \in Nat, NEW txs \in Seq(PoRSet), \A i \in 1..Len(txs) : txs[i].agr \in 1..n
    PROVE  PerAgreement(txs, n) \in Seq(Int) /\ Total(PerAgreement(txs, n)) = Len(txs)
<1> DEFINE S(k, a) == {i \in 1..k : txs[i].agr = a}
           c(k) == [a \in 1..n |-> Cardinality(S(k, a))]
           T == {k \in 0..Len(txs) : ~(c(k) \in Seq(Int) /\ Total(c(k)) = k)}
<1>0. Len(txs) \in Nat
  OBVIOUS
<1>1. \A k \in Nat : c(k) \in Seq(Int) /\ Len(c(k)) = n /\ \A a \in 1..n : c(k)[a] = Cardinality(S(k, a))
  <2> TAKE k \in Nat
  <2>1. \A a \in 1..n : Cardinality(S(k, a)) \in Int
    <3> TAKE a \in 1..n
    <3>1. S(k, a) \subseteq 1..k
      OBVIOUS
    <3> HIDE DEF S
    <3>2. Cardinality(S(k, a)) \in Nat
      BY <3>1, CountOf
    <3> QED  BY <3>2
  <2> HIDE DEF S
  <2> QED  BY <2>1
<1>2. 0 \notin T
  <2>1. \A a \in 1..n : c(0)[a] = 0
    <3> TAKE a \in 1..n
    <3>1. S(0, a) = {}
      OBVIOUS
    <3> HIDE DEF S
    <3> QED  BY <3>1, FS_EmptySet
  <2>2. c(0) \in Seq(Int) /\ Len(c(0)) = n
    BY <1>1
  <2> HIDE DEF c
  <2>3. Total(c(0)) = 0
    BY <2>1, <2>2, TotalOfZeros
  <2> QED  BY <2>2, <2>3
<1>3. ASSUME NEW k \in T, k # 0 PROVE k - 1 \in T
  <2>1. k \in 1..Len(txs) /\ k - 1 \in 0..Len(txs) /\ k \in Nat /\ k - 1 \in Nat
    BY <1>0, <1>3
  <2>2. txs[k].agr \in 1..n
    BY <2>1
  <2> DEFINE g == txs[k].agr
             e == [a \in 1..n |-> IF a = g THEN 1 ELSE 0]
             x == c(k)
             y == c(k - 1)
  <2>3. e \in Seq(Int) /\ Len(e) = n /\ e[g] = 1 /\ \A a \in 1..n : a # g => e[a] = 0
    BY <2>2
  <2>4. /\ x \in Seq(Int) /\ Len(x) = n /\ \A a \in 1..n : x[a] = Cardinality(S(k, a))
        /\ y \in Seq(Int) /\ Len(y) = n /\ \A a \in 1..n : y[a] = Cardinality(S(k - 1, a))
    BY <1>1, <2>1
  <2>5. \A a \in 1..n : x[a] = y[a] + e[a]
    <3> TAKE a \in 1..n
    <3>1. IsFiniteSet(S(k - 1, a)) /\ Cardinality(S(k - 1, a)) \in Nat
      <4>1. S(k - 1, a) \subseteq 1..(k - 1)
        OBVIOUS
      <4> HIDE DEF S
      <4> QED  BY <2>1, <4>1, CountOf
    <3>2. CASE a = g
      <4>1. S(k, a) = S(k - 1, a) \cup {k} /\ k \notin S(k - 1, a)
        BY <2>1, <3>2
      <4> HIDE DEF S
      <4>2. Cardinality(S(k, a)) = Cardinality(S(k - 1, a)) + 1
        BY <3>1, <4>1, FS_AddElement
      <4> HIDE DEF x, y, e, g
      <4> QED  BY <2>3, <2>4, <3>2, <4>2
    <3>3. CASE a # g
      <4>1. S(k, a) = S(k - 1, a)
        BY <2>1, <3>3
      <4> HIDE DEF x, y, e, g, S
      <4> QED  BY <2>3, <2>4, <3>1, <3>3, <4>1
    <3> QED  BY <3>2, <3>3
  <2> HIDE DEF x, y, e
  <2>6. Total(x) = Total(y) + Total(e)
    <3>1. x \in Seq(Int) /\ y \in Seq(Int) /\ e \in Seq(Int) /\ Len(y) = n /\ Len(x) = n /\ Len(e) = n
      BY <2>3, <2>4
    <3>2. \A a \in 1..Len(y) : x[a] = y[a] + e[a]
      BY <2>5, <3>1
    <3> QED  BY <3>1, <3>2, TotalPlus
  <2>7. Total(e) = 1
    <3> HIDE DEF g
    <3> QED  BY <2>2, <2>3, TotalOfOne DEF g
  <2>8. Total(y) \in Int
    BY <2>4, TotalStep
  <2>9. Total(x) # k
    BY <1>3, <2>4 DEF x
  <2>10. Total(y) # k - 1
    BY <2>1, <2>6, <2>7, <2>8, <2>9
  <2> QED  BY <2>1, <2>10 DEF y
<1>4. T = {}
  <2>1. T \subseteq 0..Len(txs)
    OBVIOUS
  <2> HIDE DEF T
  <2> QED  BY <1>0, <2>1, <1>2, <1>3, NoLeastFailure
<1>5. c(Len(txs)) \in Seq(Int) /\ Total(c(Len(txs))) = Len(txs)
  <2>1. Len(txs) \in 0..Len(txs)
    BY <1>0
  <2> HIDE DEF c
  <2> QED  BY <1>4, <2>1
<1> QED  BY <1>5 DEF PerAgreement


\* An agreement that owes a PoR issues one, to one of the two chains.
LEMMA OwedIsIssued ==
    ASSUME LedgerTyped, NEW a \in Agreements
    PROVE  CountPoRs(CollectedTxs(a)) + Len(CollectedPoRs(a)) =
              IF OwesPoR(Market[a]) THEN 1 ELSE 0
<1> DEFINE m == Market[a]
<1>1. conf.SimState \in {1, 2}
  BY ExperimentsAssumption DEF LedgerTyped
<1>2. /\ Tx("TxServAgrPropose", a).name = "TxServAgrPropose"
      /\ Tx("TxServAgrCommit", a).name = "TxServAgrCommit"
      /\ Tx("TxStoragePayment", a).name = "TxStoragePayment"
      /\ Tx("TxPor", a).name = "TxPor"
  BY DEF Tx
<1>3. ASSUME NEW x, x.name # "TxPor" PROVE CountPoRs(<<x>>) = 0
  <2>1. {i \in 1..Len(<<x>>) : <<x>>[i].name = "TxPor"} = {}
    BY <1>3
  <2> QED  BY <2>1, FS_EmptySet DEF CountPoRs
<1>4. ASSUME NEW x, NEW y, x.name # "TxPor", y.name # "TxPor" PROVE CountPoRs(<<x, y>>) = 0
  <2>1. {i \in 1..Len(<<x, y>>) : <<x, y>>[i].name = "TxPor"} = {}
    BY <1>4
  <2> QED  BY <2>1, FS_EmptySet DEF CountPoRs
<1>5. CountPoRs(<<>>) = 0
  <2>1. {i \in 1..Len(<<>>) : <<>>[i].name = "TxPor"} = {}
    OBVIOUS
  <2> QED  BY <2>1, FS_EmptySet DEF CountPoRs
<1>6. ASSUME NEW x, x.name = "TxPor" PROVE CountPoRs(<<x>>) = 1
  <2>1. {i \in 1..Len(<<x>>) : <<x>>[i].name = "TxPor"} = {1}
    BY <1>6
  <2> QED  BY <2>1, FS_Singleton DEF CountPoRs
<1>e. (Inactive(m) => ~Expires(m)) /\ (Inactive(m) => ~OwesPoR(m)) /\ (Expires(m) => ~OwesPoR(m))
  BY DEF Inactive, Expires, OwesPoR
<1> HIDE DEF m
<1>7. CASE Inactive(m)
  <2>1. CollectedTxs(a) = <<Tx("TxServAgrPropose", a), Tx("TxServAgrCommit", a)>>
    BY <1>7, <1>e DEF CollectedTxs, m
  <2>2. ~OwesPoR(m)
    BY <1>7 DEF Inactive, OwesPoR
  <2>3. CollectedPoRs(a) = <<>>
    BY <2>2 DEF CollectedPoRs, m
  <2>4. CountPoRs(CollectedTxs(a)) = 0
    BY <1>2, <1>4, <2>1
  <2> QED  BY <2>2, <2>3, <2>4 DEF m
<1>8. CASE ~Inactive(m) /\ Expires(m)
  <2>1. CollectedTxs(a) = <<Tx("TxStoragePayment", a)>> \/ CollectedTxs(a) = <<>>
    BY <1>8, <1>e DEF CollectedTxs, m
  <2>2. ~OwesPoR(m)
    BY <1>8 DEF Expires, OwesPoR
  <2>3. CollectedPoRs(a) = <<>>
    BY <2>2 DEF CollectedPoRs, m
  <2>4. CountPoRs(CollectedTxs(a)) = 0
    BY <1>2, <1>3, <1>5, <2>1
  <2> QED  BY <2>2, <2>3, <2>4 DEF m
<1>9. CASE ~Inactive(m) /\ ~Expires(m) /\ OwesPoR(m)
  <2>1. CASE conf.SimState = 1
    <3>1. CollectedTxs(a) = <<Tx("TxPor", a)>>
      BY <1>9, <2>1 DEF CollectedTxs, m
    <3>2. CollectedPoRs(a) = <<>>
      BY <2>1 DEF CollectedPoRs
    <3>3. CountPoRs(CollectedTxs(a)) = 1
      BY <1>2, <1>6, <3>1
    <3> QED  BY <1>9, <3>2, <3>3 DEF m
  <2>2. CASE conf.SimState = 2
    <3>1. CollectedTxs(a) = <<>>
      BY <1>9, <2>2 DEF CollectedTxs, m
    <3>2. Len(CollectedPoRs(a)) = 1
      BY <1>9, <2>2 DEF CollectedPoRs, m
    <3>3. CountPoRs(CollectedTxs(a)) = 0
      BY <1>5, <3>1
    <3> QED  BY <1>9, <3>2, <3>3 DEF m
  <2> QED  BY <1>1, <2>1, <2>2
<1>10. CASE ~Inactive(m) /\ ~Expires(m) /\ ~OwesPoR(m)
  <2>1. CollectedTxs(a) = <<>> /\ CollectedPoRs(a) = <<>>
    BY <1>10 DEF CollectedTxs, CollectedPoRs, m
  <2> QED  BY <1>5, <1>10, <2>1 DEF m
<1> QED  BY <1>7, <1>8, <1>9, <1>10

\* The PoRs of a round, over all agreements.
LEMMA RoundOwes ==
    ASSUME LedgerTyped
    PROVE  CountPoRs(NewTxs) + Len(NewPoRs) = Cardinality({a \in Agreements : OwesPoR(Market[a])})
<1> DEFINE N == NumAgreements
           P == {a \in Agreements : OwesPoR(Market[a])}
           s == [a \in Agreements |-> CollectedTxs(a)]
           p == [a \in Agreements |-> CollectedPoRs(a)]
           m == Marks(P, N)
           F(k) == FlattenSeq(First(s, k))
           G(k) == FlattenSeq(First(p, k))
           T == {k \in 0..N : CountPoRs(F(k)) + Len(G(k)) # Total(First(m, k))}
<1>1. N \in Nat /\ Agreements = 1..N
  BY ConfIsSound DEF LedgerTyped
<1>2. s \in Seq(Seq(TxSet)) /\ Len(s) = N /\ \A a \in 1..N : s[a] = CollectedTxs(a)
  BY <1>1, NewAreTxs
<1>3. p \in Seq(Seq(PoRSet)) /\ Len(p) = N /\ \A a \in 1..N : p[a] = CollectedPoRs(a)
  BY <1>1, NewAreTxs
<1>4. P \subseteq 1..N /\ \A a \in 1..N : a \in P <=> OwesPoR(Market[a])
  BY <1>1
<1> HIDE DEF P
<1>5. /\ m \in Seq(Int) /\ Len(m) = N /\ Cardinality(P) = Total(m)
      /\ \A a \in 1..N : m[a] = IF a \in P THEN 1 ELSE 0
  BY <1>1, <1>4, CardinalityIsTotal DEF Marks
<1> HIDE DEF s, p, m, N
<1>6. 0 \notin T
  <2>1. F(0) = <<>> /\ G(0) = <<>>
    <3>1. First(s, 0) = <<>> /\ First(p, 0) = <<>>
      BY DEF First
    <3>2. FlattenSeq(<<>>) = <<>>
      BY DEF FlattenSeq
    <3> QED  BY <3>1, <3>2
  <2>2. Total(First(m, 0)) = 0
    BY <1>5, TotalStep
  <2>3. CountPoRs(<<>>) = 0
    <3>1. {i \in 1..Len(<<>>) : <<>>[i].name = "TxPor"} = {}
      OBVIOUS
    <3> QED  BY <3>1, FS_EmptySet DEF CountPoRs
  <2> HIDE DEF F, G
  <2> QED  BY <2>1, <2>2, <2>3
<1>7. ASSUME NEW k \in T, k # 0 PROVE k - 1 \in T
  <2>1. k \in 1..N /\ k - 1 \in 0..N
    BY <1>1, <1>7
  <2>2. /\ F(k) = F(k - 1) \o s[k] /\ F(k - 1) \in Seq(TxSet)
        /\ G(k) = G(k - 1) \o p[k] /\ G(k - 1) \in Seq(PoRSet)
    BY <1>2, <1>3, <2>1, FlattenStep
  <2>3. s[k] \in Seq(TxSet) /\ p[k] \in Seq(PoRSet) /\ s[k] = CollectedTxs(k)
        /\ p[k] = CollectedPoRs(k)
    BY <1>2, <1>3, <2>1
  <2>4. Total(First(m, k)) = Total(First(m, k - 1)) + m[k] /\ Total(First(m, k - 1)) \in Int
    BY <1>5, <2>1, TotalStep
  <2>5. CountPoRs(F(k)) + Len(G(k)) # Total(First(m, k))
    BY <1>7
  <2> HIDE DEF F, G, T
  <2>6. CountPoRs(s[k]) + Len(p[k]) = m[k]
    <3>1. k \in Agreements
      BY <1>1, <2>1
    <3>2. CountPoRs(CollectedTxs(k)) + Len(CollectedPoRs(k)) = IF OwesPoR(Market[k]) THEN 1 ELSE 0
      BY <3>1, OwedIsIssued
    <3> QED  BY <1>4, <1>5, <2>1, <2>3, <3>2
  <2>7. CountPoRs(F(k)) = CountPoRs(F(k - 1)) + CountPoRs(s[k])
    BY <2>2, <2>3, CountsAdd
  <2>8. Len(G(k)) = Len(G(k - 1)) + Len(p[k])
    BY <2>2, <2>3
  <2>9. /\ CountPoRs(F(k - 1)) \in Nat /\ CountPoRs(s[k]) \in Nat
        /\ Len(G(k - 1)) \in Nat /\ Len(p[k]) \in Nat
    BY <2>2, <2>3, PoRsCounted
  <2>10. CountPoRs(F(k - 1)) + Len(G(k - 1)) # Total(First(m, k - 1))
    <3> DEFINE a == CountPoRs(F(k - 1))
               b == CountPoRs(s[k])
               c == Len(G(k - 1))
               d == Len(p[k])
               x == Total(First(m, k - 1))
    <3>1. a \in Int /\ b \in Int /\ c \in Int /\ d \in Int /\ x \in Int
      BY <2>4, <2>9
    <3>2. (a + b) + (c + d) # x + (b + d)
      BY <2>4, <2>5, <2>6, <2>7, <2>8
    <3> HIDE DEF a, b, c, d, x
    <3>3. a + c # x
      BY <3>1, <3>2
    <3> QED  BY <3>3 DEF a, c, x
  <2> QED  BY <2>1, <2>10 DEF T
<1>8. T = {}
  <2>1. T \subseteq 0..N
    OBVIOUS
  <2> HIDE DEF T
  <2> QED  BY <1>1, <2>1, <1>6, <1>7, NoLeastFailure
<1>9. CountPoRs(F(N)) + Len(G(N)) = Total(First(m, N))
  <2>1. N \in 0..N
    BY <1>1
  <2> HIDE DEF F, G
  <2> QED  BY <1>8, <2>1
<1>10. First(s, N) = s /\ First(p, N) = p /\ First(m, N) = m
  BY <1>2, <1>3, <1>5 DEF First
<1>11. F(N) = NewTxs /\ G(N) = NewPoRs
  BY <1>10 DEF NewTxs, NewPoRs, s, p
<1> HIDE DEF F, G
<1> QED  BY <1>5, <1>9, <1>10, <1>11 DEF P

\* The PoRs that sync transactions stand for.
PorOf(syncs) == Total([i \in 1..Len(syncs) |-> syncs[i].por])
PorOfBlocks(bs) == Total([i \in 1..Len(bs) |-> PorOf(bs[i].syncs)])

LEMMA PorOfJoined ==
    ASSUME NEW s \in Seq(SyncSet), NEW t \in Seq(SyncSet)
    PROVE  PorOf(s \o t) = PorOf(s) + PorOf(t) /\ PorOf(s) \in Int
<1> DEFINE u == s \o t
           a == [i \in 1..Len(s) |-> s[i].por]
           b == [i \in 1..Len(t) |-> t[i].por]
           c == [i \in 1..Len(u) |-> u[i].por]
           d == a \o b
<1>1. /\ u \in Seq(SyncSet) /\ Len(u) = Len(s) + Len(t) /\ Len(s) \in Nat /\ Len(t) \in Nat
      /\ \A i \in 1..Len(s) : u[i] = s[i]
      /\ \A i \in (Len(s) + 1)..(Len(s) + Len(t)) :
            u[i] = t[i - Len(s)] /\ i - Len(s) \in 1..Len(t)
  BY Joined
<1> HIDE DEF u
<1>2. /\ a \in Seq(Int) /\ Total(a) \in Int /\ b \in Seq(Int) /\ c \in Seq(Int)
  BY <1>1, SyncTotals
<1>3. /\ Len(a) = Len(s) /\ \A i \in 1..Len(s) : a[i] = s[i].por
      /\ Len(b) = Len(t) /\ \A i \in 1..Len(t) : b[i] = t[i].por
      /\ Len(c) = Len(u) /\ \A i \in 1..Len(u) : c[i] = u[i].por
  BY <1>1
<1>5. PorOf(s) = Total(a) /\ PorOf(t) = Total(b) /\ PorOf(u) = Total(c)
  BY DEF PorOf
<1> HIDE DEF a, b, c
<1>6. /\ d \in Seq(Int) /\ Len(d) = Len(a) + Len(b)
      /\ \A i \in 1..Len(a) : d[i] = a[i]
      /\ \A i \in (Len(a) + 1)..(Len(a) + Len(b)) : d[i] = b[i - Len(a)]
  BY <1>2, Joined
<1>7. Total(d) = Total(a) + Total(b)
  BY <1>2, TotalConcat
<1> HIDE DEF d
<1>8. \A i \in 1..Len(c) : c[i] = d[i]
  <2> TAKE i \in 1..Len(c)
  <2>1. CASE i \in 1..Len(s)
    <3>1. i \in 1..Len(u) /\ u[i] = s[i]
      BY <1>1, <2>1
    <3> QED  BY <1>3, <1>6, <2>1, <3>1
  <2>2. CASE i \in (Len(s) + 1)..(Len(s) + Len(t))
    <3>1. i \in 1..Len(u) /\ i - Len(s) \in 1..Len(t) /\ u[i] = t[i - Len(s)]
      BY <1>1, <2>2
    <3>2. c[i] = t[i - Len(s)].por
      BY <1>3, <3>1
    <3>3. d[i] = b[i - Len(s)]
      BY <1>3, <1>6, <2>2
    <3> QED  BY <1>3, <3>1, <3>2, <3>3
  <2> QED  BY <1>1, <1>3, <2>1, <2>2
<1>9. c = d
  <2>1. Len(c) = Len(d)
    BY <1>1, <1>3, <1>6
  <2> QED  BY <1>2, <1>6, <1>8, <2>1, SameSeq
<1> QED  BY <1>2, <1>5, <1>7, <1>9 DEF u

LEMMA PorOfFew ==
    /\ PorOf(<<>>) = 0
    /\ \A x \in SyncSet : PorOf(<<x>>) = x.por /\ x.por \in Int
<1>1. PorOf(<<>>) = 0
  <2>1. [i \in 1..0 |-> <<>>[i].por] = <<>>
    OBVIOUS
  <2>2. PorOf(<<>>) = Total(<<>>)
    BY DEF PorOf
  <2> QED  BY <2>2, TotalOfNone
<1>2. ASSUME NEW x \in SyncSet PROVE PorOf(<<x>>) = x.por /\ x.por \in Int
  <2> DEFINE s == [i \in 1..Len(<<x>>) |-> <<x>>[i].por]
  <2>1. x.por \in Int
    BY DEF SyncSet
  <2>2. s \in Seq(Int) /\ Len(s) = 1 /\ s[1] = x.por
    BY <2>1
  <2>3. PorOf(<<x>>) = Total(s)
    BY DEF PorOf
  <2> HIDE DEF s
  <2>4. Total(s) = s[1]
    <3>1. 1 \in 1..Len(s) /\ \A i \in 1..Len(s) : i # 1 => s[i] = 0
      BY <2>2
    <3> QED  BY <2>2, <3>1, TotalOfOne
  <2> QED  BY <2>1, <2>2, <2>3, <2>4
<1> QED  BY <1>1, <1>2

LEMMA PorOfMore ==
    ASSUME NEW bs \in Seq(BlockSet), NEW b \in BlockSet
    PROVE  /\ PorOfBlocks(Append(bs, b)) = PorOfBlocks(bs) + PorOf(b.syncs)
           /\ PorOfBlocks(bs) \in Int /\ PorOf(b.syncs) \in Int
<1> DEFINE c == Append(bs, b)
           s == [i \in 1..Len(bs) |-> PorOf(bs[i].syncs)]
           t == [i \in 1..Len(c) |-> PorOf(c[i].syncs)]
           x == PorOf(b.syncs)
           u == Append(s, x)
<1>1. \A z \in BlockSet : PorOf(z.syncs) \in Int
  <2> TAKE z \in BlockSet
  <2>1. z.syncs \in Seq(SyncSet)
    BY DEF BlockSet
  <2> QED  BY <2>1, PorOfJoined
<1>2. c \in Seq(BlockSet) /\ Len(c) = Len(bs) + 1 /\ c[Len(bs) + 1] = b /\ Len(bs) \in Nat
      /\ \A i \in 1..Len(bs) : c[i] = bs[i] /\ bs[i] \in BlockSet
  OBVIOUS
<1> HIDE DEF c
<1>3. s \in Seq(Int) /\ Len(s) = Len(bs) /\ x \in Int
      /\ \A i \in 1..Len(bs) : s[i] = PorOf(bs[i].syncs)
  BY <1>1, <1>2
<1>4. t \in Seq(Int) /\ Len(t) = Len(bs) + 1 /\ \A i \in 1..Len(c) : t[i] = PorOf(c[i].syncs)
  BY <1>1, <1>2
<1>5. PorOfBlocks(bs) = Total(s) /\ PorOfBlocks(c) = Total(t)
  BY DEF PorOfBlocks
<1>x. x = PorOf(b.syncs)
  OBVIOUS
<1> HIDE DEF s, t, x
<1>6. u \in Seq(Int) /\ Len(u) = Len(bs) + 1 /\ u[Len(bs) + 1] = x
      /\ \A i \in 1..Len(bs) : u[i] = s[i]
  BY <1>2, <1>3
<1>7. Total(u) = Total(s) + x /\ Total(s) \in Int
  BY <1>3, TotalAppend, TotalStep
<1> HIDE DEF u
<1>8. \A i \in 1..Len(t) : t[i] = u[i]
  <2> TAKE i \in 1..Len(t)
  <2>1. CASE i \in 1..Len(bs)
    <3>1. i \in 1..Len(c) /\ c[i] = bs[i]
      BY <1>2, <2>1
    <3> QED  BY <1>3, <1>4, <1>6, <2>1, <3>1
  <2>2. CASE i = Len(bs) + 1
    BY <1>2, <1>4, <1>6, <1>x, <2>2
  <2> QED  BY <1>2, <1>4, <2>1, <2>2
<1>9. t = u
  BY <1>4, <1>6, <1>8, SameSeq
<1> QED  BY <1>3, <1>5, <1>7, <1>9, <1>x DEF c


-----------------------------------------------------------------------------
(* No PoR is lost or counted twice.                                        *)

\* The PoRs that wait in the side chain's queue or are summed up.
PoRsOf(side, sums, syncs, bs, purged) ==
    Len(side) + Total(sums) + PorOf(Queued(syncs)) + PorOfBlocks(bs) + purged

PoRsKept ==
    porIssued = CountPoRs(issued) +
        PoRsOf(sidechainDb.FirstQueue, SummPoRTxs, mainchainDb.SyncTxQueue, blocks, porPurged)

\* What the sums are over.
LEMMA PoRNumbers ==
    ASSUME LedgerTyped
    PROVE  /\ CountPoRs(issued) \in Int
           /\ sidechainDb.FirstQueue \in Queue(PoRSet)
           /\ Len(sidechainDb.FirstQueue) \in Nat
           /\ SummPoRTxs \in Seq(Int) /\ Total(SummPoRTxs) \in Int
           /\ Len(SummPoRTxs) = NumAgreements
           /\ mainchainDb.SyncTxQueue \in Queue(SyncSet)
           /\ Queued(mainchainDb.SyncTxQueue) \in Seq(SyncSet)
           /\ PorOf(Queued(mainchainDb.SyncTxQueue)) \in Int
           /\ blocks \in Seq(BlockSet) /\ PorOfBlocks(blocks) \in Int
           /\ issued \in Seq(TxSet) /\ porPurged \in Int /\ porIssued \in Int
<1>1. /\ issued \in Seq(TxSet) /\ blocks \in Seq(BlockSet) /\ porPurged \in Nat /\ porIssued \in Nat
      /\ mainchainDb.SyncTxQueue \in Queue(SyncSet)
      /\ sidechainDb.FirstQueue \in Queue(PoRSet)
      /\ SummPoRTxs \in [Agreements -> Nat]
  BY DEF LedgerTyped, MainTyped, SideTyped
<1>2. CountPoRs(issued) \in Nat
  BY <1>1, PoRsCounted
<1>3. Len(sidechainDb.FirstQueue) \in Nat
  BY <1>1 DEF Queue
<1>4. SummPoRTxs \in Seq(Int) /\ Len(SummPoRTxs) = NumAgreements
  <2>1. Agreements = 1..NumAgreements /\ NumAgreements \in Nat
    BY ConfIsSound DEF LedgerTyped
  <2> QED  BY <1>1, <2>1
<1>5. Total(SummPoRTxs) \in Int
  BY <1>4, TotalStep
<1>6. Queued(mainchainDb.SyncTxQueue) \in Seq(SyncSet)
  <2>1. mainchainDb.SyncTxQueue \in Seq(RowOf(SyncSet))
    BY <1>1 DEF Queue
  <2> QED  BY <2>1, TxsOfQueue
<1>7. PorOf(Queued(mainchainDb.SyncTxQueue)) \in Int
  <2>1. <<>> \in Seq(SyncSet)
    OBVIOUS
  <2> QED  BY <1>6, <2>1, PorOfJoined
<1>8. PorOfBlocks(blocks) \in Int
  <2>1. NoBlock \in BlockSet
    BY DEF NoBlock, BlockSet
  <2> QED  BY <1>1, <2>1, PorOfMore
<1> QED  BY <1>1, <1>2, <1>3, <1>4, <1>5, <1>6, <1>7, <1>8

\* The oldest sync transaction leaves the queue.
LEMMA SyncPopped ==
    ASSUME NEW q \in Queue(SyncSet), q # <<>>
    PROVE  /\ PorOf(Queued(q)) = PorOf(<<q[1].tx>>) + PorOf(Queued(WithoutFirst(q, 1)))
           /\ q[1].tx \in SyncSet
           /\ PorOf(Queued(WithoutFirst(q, 1))) \in Int
<1>1. q \in Seq(RowOf(SyncSet)) /\ Len(q) \in Nat /\ 1 \in 0..Len(q) /\ 1 \in 1..Len(q)
  BY DEF Queue
<1>2. /\ WithoutFirst(q, 1) \in Queue(SyncSet)
      /\ Queued(q) = [i \in 1..1 |-> q[i].tx] \o Queued(WithoutFirst(q, 1))
  BY <1>1, RestOfQueue
<1>3. q[1].tx \in SyncSet
  BY <1>1, TxsOfQueue
<1>4. [i \in 1..1 |-> q[i].tx] = <<q[1].tx>>
  OBVIOUS
<1>5. Queued(WithoutFirst(q, 1)) \in Seq(SyncSet)
  <2>1. WithoutFirst(q, 1) \in Seq(RowOf(SyncSet))
    BY <1>2 DEF Queue
  <2> QED  BY <2>1, TxsOfQueue
<1> DEFINE x == <<q[1].tx>>
           r == Queued(WithoutFirst(q, 1))
<1>6. x \in Seq(SyncSet) /\ r \in Seq(SyncSet) /\ <<>> \in Seq(SyncSet)
  BY <1>3, <1>5
<1>7. Queued(q) = x \o r
  BY <1>2, <1>4
<1> HIDE DEF x, r
<1>8. PorOf(x \o r) = PorOf(x) + PorOf(r) /\ PorOf(r) \in Int
  BY <1>6, PorOfJoined
<1> QED  BY <1>3, <1>7, <1>8 DEF x, r

\* A round issues the PoRs that the agreements owe, on either chain.
LEMMA PoRsIssued ==
    ASSUME LedgerTyped, EmptyBlock \/ FullBlock
    PROVE  \E d, k \in Nat : /\ CountPoRs(issued') = CountPoRs(issued) + d
                             /\ Len(sidechainDb'.FirstQueue) = Len(sidechainDb.FirstQueue) + k
                             /\ porIssued' = porIssued + (d + k)
<1>1. /\ sidechainDb' = BulkInsertIntoSideChainFirstQueue(sidechainDb, NewPoRs)
      /\ issued' = issued \o NewTxs
      /\ porIssued' = porIssued + Cardinality({a \in Agreements : OwesPoR(Market[a])})
  BY DEF EmptyBlock, FullBlock, CollectRest, CollectedSideDb
<1>4. issued \in Seq(TxSet) /\ CountPoRs(issued) \in Int
  BY PoRNumbers
<1>7. NewTxs \in Seq(TxSet) /\ NewPoRs \in Seq(PoRSet)
  BY NewAreTxs
<1>8. CountPoRs(issued') = CountPoRs(issued) + CountPoRs(NewTxs) /\ CountPoRs(NewTxs) \in Nat
  BY <1>1, <1>4, <1>7, CountsAdd, PoRsCounted
<1>9. Len(sidechainDb'.FirstQueue) = Len(sidechainDb.FirstQueue) + Len(NewPoRs)
      /\ Len(NewPoRs) \in Nat
  <2>1. sidechainDb'.FirstQueue = InsertRows(sidechainDb.FirstQueue, NewPoRs)
    BY <1>1, <1>7, SideInserted DEF LedgerTyped
  <2>2. sidechainDb.FirstQueue \in Queue(PoRSet)
    BY PoRNumbers
  <2> DEFINE x == sidechainDb.FirstQueue
             y == NewPoRs
  <2>3. x \in Queue(PoRSet) /\ y \in Seq(PoRSet)
    BY <1>7, <2>2
  <2>4. sidechainDb'.FirstQueue = InsertRows(x, y)
    BY <2>1
  <2>5. Len(y) \in Nat
    BY <2>3
  <2> HIDE DEF x, y
  <2>6. Len(InsertRows(x, y)) = Len(x) + Len(y)
    BY <2>3, InsertedRows
  <2> QED  BY <2>4, <2>5, <2>6 DEF x, y
<1>10. CountPoRs(NewTxs) + Len(NewPoRs) = Cardinality({a \in Agreements : OwesPoR(Market[a])})
  BY RoundOwes
<1> QED  BY <1>1, <1>8, <1>9, <1>10

LEMMA RoundKeepsPoRs ==
    ASSUME LedgerTyped, PoRsKept, mcPurge = 0, EmptyBlock \/ FullBlock, UNCHANGED purgeVars
    PROVE  PoRsKept'
<1>1. /\ sidechainDb' = BulkInsertIntoSideChainFirstQueue(sidechainDb, NewPoRs)
      /\ issued' = issued \o NewTxs
      /\ porIssued' = porIssued + Cardinality({a \in Agreements : OwesPoR(Market[a])})
      /\ UNCHANGED <<SummPoRTxs, porPurged>>
  BY DEF EmptyBlock, FullBlock, CollectRest, purgeVars, CollectedSideDb
<1>2. PICK b, n : RoundClosed(b, n)
  BY RoundCloses
<1> DEFINE q == mainchainDb.SyncTxQueue
           r == mainchainDb'.SyncTxQueue
<1>3. /\ b \in BlockSet /\ blocks' = Append(blocks, b)
      /\ \/ b.syncs = <<>> /\ r = q
         \/ q # <<>> /\ b.syncs = <<q[1].tx>> /\ r = WithoutFirst(q, 1)
  BY <1>2 DEF RoundClosed, BlockFrom
<1>4. q \in Queue(SyncSet) /\ PorOf(Queued(q)) \in Int /\ blocks \in Seq(BlockSet)
      /\ PorOfBlocks(blocks) \in Int /\ issued \in Seq(TxSet) /\ CountPoRs(issued) \in Int
      /\ Len(sidechainDb.FirstQueue) \in Nat /\ Total(SummPoRTxs) \in Int
      /\ porPurged \in Int /\ porIssued \in Int
  BY PoRNumbers
<1> HIDE DEF q, r
<1>5. PorOf(Queued(r)) + PorOf(b.syncs) = PorOf(Queued(q))
      /\ PorOf(Queued(r)) \in Int /\ PorOf(b.syncs) \in Int
  <2>1. CASE b.syncs = <<>> /\ r = q
    BY <1>4, <2>1, PorOfFew
  <2>2. CASE q # <<>> /\ b.syncs = <<q[1].tx>> /\ r = WithoutFirst(q, 1)
    <3>1. /\ PorOf(Queued(q)) = PorOf(b.syncs) + PorOf(Queued(r))
          /\ PorOf(Queued(r)) \in Int /\ q[1].tx \in SyncSet
      BY <1>4, <2>2, SyncPopped
    <3>2. PorOf(b.syncs) \in Int
      BY <2>2, <3>1, PorOfFew
    <3> QED  BY <3>1, <3>2
  <2> QED  BY <1>3, <2>1, <2>2
<1>6. PorOfBlocks(blocks') = PorOfBlocks(blocks) + PorOf(b.syncs)
  BY <1>3, <1>4, PorOfMore
<1>7. PICK d \in Nat, k \in Nat :
          /\ CountPoRs(issued') = CountPoRs(issued) + d
          /\ Len(sidechainDb'.FirstQueue) = Len(sidechainDb.FirstQueue) + k
          /\ porIssued' = porIssued + (d + k)
  BY PoRsIssued
<1> DEFINE c == CountPoRs(issued)
           l == Len(sidechainDb.FirstQueue)
           t == Total(SummPoRTxs)
           o == PorOf(Queued(q))
           p == PorOf(Queued(r))
           w == PorOf(b.syncs)
           z == PorOfBlocks(blocks)
<1>11. porIssued = c + (l + t + o + z + porPurged)
  BY DEF PoRsKept, PoRsOf, q
<1> HIDE DEF c, l, t, o, p, w, z
<1>13. porIssued' = (c + d) + ((l + k) + t + p + (z + w) + porPurged)
  <2>1. /\ c \in Int /\ d \in Int /\ l \in Int /\ k \in Int /\ t \in Int /\ o \in Int
        /\ p \in Int /\ w \in Int /\ z \in Int /\ porPurged \in Int /\ porIssued \in Int
    BY <1>4, <1>5 DEF c, l, t, o, p, w, z
  <2>2. p + w = o
    BY <1>5 DEF p, w, o
  <2> QED  BY <1>7, <1>11, <2>1, <2>2
<1>14. /\ CountPoRs(issued') = c + d /\ Len(sidechainDb'.FirstQueue) = l + k
       /\ Total(SummPoRTxs') = t /\ PorOf(Queued(mainchainDb'.SyncTxQueue)) = p
       /\ PorOfBlocks(blocks') = z + w /\ porPurged' = porPurged
  BY <1>1, <1>6, <1>7 DEF c, l, t, p, z, w, r
<1>15. /\ CountPoRs(issued)' = CountPoRs(issued') /\ Len(sidechainDb.FirstQueue)' = Len(sidechainDb'.FirstQueue)
       /\ Total(SummPoRTxs)' = Total(SummPoRTxs')
       /\ PorOf(Queued(mainchainDb.SyncTxQueue))' = PorOf(Queued(mainchainDb'.SyncTxQueue))
       /\ PorOfBlocks(blocks)' = PorOfBlocks(blocks')
  BY DEF CountPoRs, Total, PorOf, Queued, PorOfBlocks
<1> QED  BY <1>13, <1>14, <1>15 DEF PoRsKept, PoRsOf

\* n PoRs leave the side chain's queue.
LEMMA PoRsGone ==
    ASSUME LedgerTyped, NEW txs, NEW n, PoRsLeft(txs, n)
    PROVE  /\ Len(sidechainDb'.FirstQueue) = Len(sidechainDb.FirstQueue) - Len(txs)
           /\ Len(txs) \in Nat /\ txs \in Seq(PoRSet) /\ Len(txs) = n
<1>1. /\ n \in 0..Len(sidechainDb.FirstQueue) /\ txs \in Seq(PoRSet)
      /\ txs = [i \in 1..n |-> sidechainDb.FirstQueue[i].tx]
      /\ sidechainDb'.FirstQueue = WithoutFirst(sidechainDb.FirstQueue, n)
  BY DEF PoRsLeft
<1>2. sidechainDb.FirstQueue \in Queue(PoRSet) /\ Len(sidechainDb.FirstQueue) \in Nat
  BY PoRNumbers
<1>3. Len(txs) = n /\ n \in Nat
  BY <1>1, <1>2
<1>4. Len(WithoutFirst(sidechainDb.FirstQueue, n)) = Len(sidechainDb.FirstQueue) - n
  BY <1>1, <1>2, RestOfQueue
<1> QED  BY <1>1, <1>3, <1>4

LEMMA MetaKeepsPoRs ==
    ASSUME LedgerTyped, PoRsKept, MetaBlock, UNCHANGED purgeVars
    PROVE  PoRsKept'
<1>1. UNCHANGED <<conf, mainchainDb, blocks, issued, porIssued, porPurged>>
  BY DEF MetaBlock, purgeVars
<1>2. PICK txs, n : /\ PoRsLeft(txs, n)
                    /\ SummPoRTxs' = [a \in Agreements |-> SummPoRTxs[a] +
                          Cardinality({i \in 1..Len(txs) : txs[i].agr = a})]
  BY MetaBlocks
<1>3. /\ Len(sidechainDb'.FirstQueue) = Len(sidechainDb.FirstQueue) - Len(txs)
      /\ Len(txs) \in Nat /\ txs \in Seq(PoRSet)
  BY <1>2, PoRsGone
<1>4. Agreements = 1..NumAgreements /\ NumAgreements \in Nat
  BY ConfIsSound DEF LedgerTyped
<1>5. Total(SummPoRTxs') = Total(SummPoRTxs) + Len(txs)
  <2> DEFINE N == NumAgreements
             s == SummPoRTxs
             t == PerAgreement(txs, N)
             u == SummPoRTxs'
  <2>1. \A i \in 1..Len(txs) : txs[i].agr \in 1..N
    <3>1. \A i \in 1..Len(txs) : txs[i] \in PoRSet
      BY <1>3
    <3> QED  BY <1>4, <3>1 DEF PoRSet
  <2> HIDE DEF N
  <2>2. N \in Nat /\ Agreements = 1..N
    BY <1>4 DEF N
  <2>3. t \in Seq(Int) /\ Total(t) = Len(txs)
    BY <1>3, <2>1, <2>2, CountedPerAgreement
  <2>4. Len(t) = N /\ \A a \in 1..N : t[a] = Cardinality({i \in 1..Len(txs) : txs[i].agr = a})
    BY <2>2 DEF PerAgreement
  <2>5. s \in Seq(Int) /\ Len(s) = N
    BY PoRNumbers DEF N
  <2>6. u = [a \in 1..N |-> s[a] + t[a]]
    BY <1>2, <2>2, <2>4
  <2> HIDE DEF s, t, u
  <2>7. u \in Seq(Int) /\ Len(u) = N /\ \A a \in 1..N : u[a] = s[a] + t[a]
    <3>1. \A a \in 1..N : s[a] + t[a] \in Int
      BY <2>3, <2>4, <2>5
    <3> QED  BY <2>2, <2>6, <3>1
  <2>8. Total(u) = Total(s) + Total(t)
    <3>1. /\ s \in Seq(Int) /\ t \in Seq(Int) /\ u \in Seq(Int)
          /\ Len(t) = Len(s) /\ Len(u) = Len(s)
      BY <2>3, <2>4, <2>5, <2>7
    <3>2. \A a \in 1..Len(s) : u[a] = s[a] + t[a]
      BY <2>5, <2>7
    <3> QED  BY <3>1, <3>2, TotalPlus
  <2> QED  BY <2>3, <2>8 DEF s, t, u
<1>6. /\ CountPoRs(issued) \in Int /\ PorOf(Queued(mainchainDb.SyncTxQueue)) \in Int
      /\ PorOfBlocks(blocks) \in Int
      /\ Len(sidechainDb.FirstQueue) \in Nat /\ Total(SummPoRTxs) \in Int
      /\ porPurged \in Int /\ porIssued \in Int
  BY PoRNumbers
<1> DEFINE c == CountPoRs(issued)
           l == Len(sidechainDb.FirstQueue)
           k == Len(txs)
           t == Total(SummPoRTxs)
           p == PorOf(Queued(mainchainDb.SyncTxQueue))
           z == PorOfBlocks(blocks)
<1>7. porIssued = c + (l + t + p + z + porPurged)
  BY DEF PoRsKept, PoRsOf
<1>8. c \in Int /\ l \in Int /\ k \in Int /\ t \in Int /\ p \in Int /\ z \in Int
  BY <1>3, <1>6
<1> HIDE DEF c, l, k, t, p, z
<1>9. porIssued = c + ((l - k) + (t + k) + p + z + porPurged)
  BY <1>6, <1>7, <1>8
<1>10. /\ Len(sidechainDb'.FirstQueue) = l - k /\ Total(SummPoRTxs') = t + k
  BY <1>3, <1>5 DEF l, k, t
<1>11. /\ CountPoRs(issued)' = CountPoRs(issued)
       /\ Len(sidechainDb.FirstQueue)' = Len(sidechainDb'.FirstQueue)
       /\ Total(SummPoRTxs)' = Total(SummPoRTxs')
       /\ PorOf(Queued(mainchainDb.SyncTxQueue))' = PorOf(Queued(mainchainDb.SyncTxQueue))
       /\ PorOfBlocks(blocks)' = PorOfBlocks(blocks)
       /\ porIssued' = porIssued /\ porPurged' = porPurged
  BY <1>1 DEF CountPoRs, Total, PorOf, Queued, PorOfBlocks
<1> QED  BY <1>9, <1>10, <1>11 DEF PoRsKept, PoRsOf, c, p, z

\* The payments that are issued with a summary block are no PoRs.
LEMMA SummaryHasNoPoRs ==
    ASSUME LedgerTyped, SummaryBlock
    PROVE  CountPoRs(issued') = CountPoRs(issued)
<1>1. SummaryPayments \in Seq(TxSet) /\ issued' = issued \o SummaryPayments /\ issued \in Seq(TxSet)
  BY SummaryDone DEF LedgerTyped
<1>2. CountPoRs(SummaryPayments) = 0
  <2>1. \A i \in 1..Len(SummaryPayments) : SummaryPayments[i].name = "TxStoragePayment"
    <3>1. CASE PaymentsDue
      <4>1. SummaryPayments = [a \in Agreements |-> Tx("TxStoragePayment", ServerOf(a))]
        BY <3>1 DEF SummaryPayments, StoragePayments
      <4>2. Agreements = 1..NumAgreements /\ NumAgreements \in Nat
        BY ConfIsSound DEF LedgerTyped
      <4>3. \A a \in Agreements : SummaryPayments[a].name = "TxStoragePayment"
        BY <4>1 DEF Tx
      <4>4. Len(SummaryPayments) = NumAgreements
        BY <4>1, <4>2
      <4> QED  BY <4>2, <4>3, <4>4
    <3>2. CASE ~PaymentsDue
      BY <3>2 DEF SummaryPayments
    <3> QED  BY <3>1, <3>2
  <2>2. {i \in 1..Len(SummaryPayments) : SummaryPayments[i].name = "TxPor"} = {}
    BY <2>1
  <2> QED  BY <2>2, FS_EmptySet DEF CountPoRs
<1>3. CountPoRs(issued) \in Int
  BY PoRNumbers
<1> QED  BY <1>1, <1>2, <1>3, CountsAdd

LEMMA SummaryKeepsPoRs ==
    ASSUME LedgerTyped, PoRsKept, SummaryBlock, UNCHANGED purgeVars
    PROVE  PoRsKept'
<1>1. /\ SummPoRTxs' = [a \in Agreements |-> 0]
      /\ UNCHANGED <<conf, blocks, porIssued, porPurged>>
  BY DEF SummaryBlock, SumsAfterSync, purgeVars
<1>2. /\ SummaryPayments \in Seq(TxSet)
      /\ SummaryTx \in SyncSet
      /\ mainchainDb'.SyncTxQueue = InsertRows(mainchainDb.SyncTxQueue, <<SummaryTx>>)
      /\ sidechainDb'.FirstQueue = sidechainDb.FirstQueue
      /\ issued' = issued \o SummaryPayments
  BY SummaryDone DEF RowReady
<1>3. /\ CountPoRs(issued) \in Int /\ PorOf(Queued(mainchainDb.SyncTxQueue)) \in Int
      /\ PorOfBlocks(blocks) \in Int /\ issued \in Seq(TxSet)
      /\ Len(sidechainDb.FirstQueue) \in Nat /\ Total(SummPoRTxs) \in Int
      /\ porPurged \in Int /\ porIssued \in Int
      /\ mainchainDb.SyncTxQueue \in Queue(SyncSet)
      /\ Queued(mainchainDb.SyncTxQueue) \in Seq(SyncSet)
  BY PoRNumbers
<1>4. Total(SummPoRTxs') = 0
  <2>1. Agreements = 1..NumAgreements /\ NumAgreements \in Nat
    BY ConfIsSound DEF LedgerTyped
  <2>2. SummPoRTxs' \in Seq(Int) /\ \A i \in 1..Len(SummPoRTxs') : SummPoRTxs'[i] = 0
    BY <1>1, <2>1
  <2> QED  BY <2>2, TotalOfZeros
<1>6. CountPoRs(issued') = CountPoRs(issued)
  BY SummaryHasNoPoRs
<1>7. PorOf(Queued(mainchainDb'.SyncTxQueue)) = PorOf(Queued(mainchainDb.SyncTxQueue)) + Total(SummPoRTxs)
  <2> DEFINE x == SummaryTx
             s == Queued(mainchainDb.SyncTxQueue)
  <2>1. <<x>> \in Seq(SyncSet) /\ x \in SyncSet /\ s \in Seq(SyncSet)
    BY <1>2, <1>3
  <2>2. Queued(mainchainDb'.SyncTxQueue) = s \o <<x>>
    BY <1>2, <1>3, <2>1, InsertedRows
  <2>3. x.por = Total(SummPoRTxs)
    BY DEF SummaryTx
  <2> HIDE DEF x, s
  <2>4. PorOf(s \o <<x>>) = PorOf(s) + PorOf(<<x>>)
    BY <2>1, PorOfJoined
  <2>5. PorOf(<<x>>) = x.por
    BY <2>1, PorOfFew
  <2> QED  BY <2>2, <2>3, <2>4, <2>5 DEF s
<1> DEFINE c == CountPoRs(issued)
           l == Len(sidechainDb.FirstQueue)
           t == Total(SummPoRTxs)
           p == PorOf(Queued(mainchainDb.SyncTxQueue))
           z == PorOfBlocks(blocks)
<1>8. porIssued = c + (l + t + p + z + porPurged)
  BY DEF PoRsKept, PoRsOf
<1>9. c \in Int /\ l \in Int /\ t \in Int /\ p \in Int /\ z \in Int
  BY <1>3
<1> HIDE DEF c, l, t, p, z
<1>10. porIssued = c + (l + 0 + (p + t) + z + porPurged)
  BY <1>3, <1>8, <1>9
<1>11. /\ CountPoRs(issued)' = c
       /\ Len(sidechainDb.FirstQueue)' = l
       /\ Total(SummPoRTxs)' = 0
       /\ PorOf(Queued(mainchainDb.SyncTxQueue))' = p + t
       /\ PorOfBlocks(blocks)' = z
       /\ porIssued' = porIssued /\ porPurged' = porPurged
  <2>1. /\ CountPoRs(issued)' = CountPoRs(issued')
        /\ Len(sidechainDb.FirstQueue)' = Len(sidechainDb'.FirstQueue)
        /\ Total(SummPoRTxs)' = Total(SummPoRTxs')
        /\ PorOf(Queued(mainchainDb.SyncTxQueue))' = PorOf(Queued(mainchainDb'.SyncTxQueue))
        /\ PorOfBlocks(blocks)' = PorOfBlocks(blocks')
    BY DEF CountPoRs, Total, PorOf, Queued, PorOfBlocks
  <2> QED  BY <1>1, <1>2, <1>4, <1>6, <1>7, <2>1 DEF c, l, t, p, z
<1> QED  BY <1>10, <1>11 DEF PoRsKept, PoRsOf

LEMMA PurgedPoRs ==
    ASSUME LedgerTyped, PoRsKept, SidePurgeRound
    PROVE  PoRsKept'
<1>1. UNCHANGED <<conf, mainchainDb, blocks, issued, porIssued, SummPoRTxs>>
  BY DEF SidePurgeRound
<1>2. PICK txs, n : PoRsLeft(txs, n) /\ porPurged' = porPurged + Len(txs)
  BY SidePurgeRounds
<1>3. /\ Len(sidechainDb'.FirstQueue) = Len(sidechainDb.FirstQueue) - Len(txs)
      /\ Len(txs) \in Nat
  BY <1>2, PoRsGone
<1>4. /\ CountPoRs(issued) \in Int /\ PorOf(Queued(mainchainDb.SyncTxQueue)) \in Int
      /\ PorOfBlocks(blocks) \in Int
      /\ Len(sidechainDb.FirstQueue) \in Nat /\ Total(SummPoRTxs) \in Int
      /\ porPurged \in Int /\ porIssued \in Int
  BY PoRNumbers
<1> DEFINE c == CountPoRs(issued)
           l == Len(sidechainDb.FirstQueue)
           k == Len(txs)
           t == Total(SummPoRTxs)
           p == PorOf(Queued(mainchainDb.SyncTxQueue))
           z == PorOfBlocks(blocks)
<1>7. porIssued = c + (l + t + p + z + porPurged)
  BY DEF PoRsKept, PoRsOf
<1>8. c \in Int /\ l \in Int /\ k \in Int /\ t \in Int /\ p \in Int /\ z \in Int
  BY <1>3, <1>4
<1> HIDE DEF c, l, k, t, p, z
<1>9. porIssued = c + ((l - k) + t + p + z + (porPurged + k))
  BY <1>4, <1>7, <1>8
<1>10. Len(sidechainDb'.FirstQueue) = l - k /\ porPurged' = porPurged + k
  BY <1>2, <1>3 DEF l, k
<1>11. /\ CountPoRs(issued)' = CountPoRs(issued)
       /\ Len(sidechainDb.FirstQueue)' = Len(sidechainDb'.FirstQueue)
       /\ Total(SummPoRTxs)' = Total(SummPoRTxs)
       /\ PorOf(Queued(mainchainDb.SyncTxQueue))' = PorOf(Queued(mainchainDb.SyncTxQueue))
       /\ PorOfBlocks(blocks)' = PorOfBlocks(blocks)
       /\ porIssued' = porIssued
  BY <1>1 DEF CountPoRs, Total, PorOf, Queued, PorOfBlocks
<1> QED  BY <1>9, <1>10, <1>11 DEF PoRsKept, PoRsOf, c, t, p, z


\* The rounds of mainchain-purge take no sync transaction.
LEMMA MainPurgeKeepsPoRs ==
    ASSUME LedgerTyped, PoRsKept, MainPurgeRound
    PROVE  PoRsKept'
<1> DEFINE added == InsertIntoMainChainRoundTable(mainchainDb, mcPurge, -1)
<1>1. /\ IF NothingQueued(added) THEN mainchainDb' = added /\ mcPurge' = -1 /\ blocks' = blocks
         ELSE mcPurge' = mcPurge + 1 /\ \E b, n : PurgeRoundDone(b, n)
      /\ UNCHANGED <<sidechainDb, SummPoRTxs, issued, porIssued, porPurged>>
  BY PurgeRounds DEF MainPurgeRound
<1>2. blocks \in Seq(BlockSet) /\ PorOfBlocks(blocks) \in Int
  BY PoRNumbers
<1>3. mainchainDb'.SyncTxQueue = mainchainDb.SyncTxQueue /\ PorOfBlocks(blocks') = PorOfBlocks(blocks)
  <2>1. added.SyncTxQueue = mainchainDb.SyncTxQueue
    BY DEF InsertIntoMainChainRoundTable, LedgerTyped, MainTyped, MainShape
  <2>2. CASE NothingQueued(added)
    BY <1>1, <2>1, <2>2
  <2>3. CASE ~NothingQueued(added)
    <3>1. PICK b, n : PurgeRoundDone(b, n)
      BY <1>1, <2>3
    <3>2. /\ b \in BlockSet /\ b.syncs = <<>> /\ blocks' = Append(blocks, b)
          /\ mainchainDb'.SyncTxQueue = mainchainDb.SyncTxQueue
      BY <3>1 DEF PurgeRoundDone, BlockFrom
    <3>3. PorOfBlocks(blocks') = PorOfBlocks(blocks) + PorOf(<<>>)
      BY <1>2, <3>2, PorOfMore
    <3> QED  BY <1>2, <3>2, <3>3, PorOfFew
  <2> QED  BY <2>2, <2>3
<1>4. /\ CountPoRs(issued)' = CountPoRs(issued)
      /\ Len(sidechainDb.FirstQueue)' = Len(sidechainDb.FirstQueue)
      /\ Total(SummPoRTxs)' = Total(SummPoRTxs)
      /\ PorOf(Queued(mainchainDb.SyncTxQueue))' = PorOf(Queued(mainchainDb'.SyncTxQueue))
      /\ PorOfBlocks(blocks)' = PorOfBlocks(blocks')
      /\ porIssued' = porIssued /\ porPurged' = porPurged
  BY <1>1 DEF CountPoRs, Total, PorOf, Queued, PorOfBlocks
<1>5. /\ PorOf(Queued(mainchainDb.SyncTxQueue))' = PorOf(Queued(mainchainDb.SyncTxQueue))
      /\ PorOfBlocks(blocks)' = PorOfBlocks(blocks)
  BY <1>3, <1>4
<1> QED  BY <1>4, <1>5 DEF PoRsKept, PoRsOf

LEMMA PoRsKeptStep ==
    ASSUME LedgerTyped, PoRsKept, [PurgeNext]_<<vars, purgeVars>>
    PROVE  PoRsKept'
<1>1. ASSUME /\ sidechainDb'.FirstQueue = sidechainDb.FirstQueue
             /\ mainchainDb'.SyncTxQueue = mainchainDb.SyncTxQueue
             /\ UNCHANGED <<blocks, issued, porIssued, porPurged, SummPoRTxs>>
      PROVE  PoRsKept'
  <2>1. /\ CountPoRs(issued)' = CountPoRs(issued)
        /\ Len(sidechainDb.FirstQueue)' = Len(sidechainDb.FirstQueue)
        /\ Total(SummPoRTxs)' = Total(SummPoRTxs)
        /\ PorOf(Queued(mainchainDb.SyncTxQueue))' = PorOf(Queued(mainchainDb.SyncTxQueue))
        /\ PorOfBlocks(blocks)' = PorOfBlocks(blocks)
        /\ porIssued' = porIssued /\ porPurged' = porPurged
    BY <1>1 DEF CountPoRs, Total, PorOf, Queued, PorOfBlocks
  <2> QED  BY <2>1 DEF PoRsKept, PoRsOf
<1>2. ASSUME CrashWithoutPower, UNCHANGED purgeVars PROVE PoRsKept'
  <2>1. mainchainDb' = PoweredDb
        /\ UNCHANGED <<sidechainDb, blocks, issued, porIssued, porPurged, SummPoRTxs>>
    BY <1>2 DEF CrashWithoutPower, purgeVars
  <2>2. PoweredDb.SyncTxQueue = mainchainDb.SyncTxQueue
    BY RoundPrepared
  <2> QED  BY <1>1, <2>1, <2>2
<1>3. ASSUME StartMainPurge PROVE PoRsKept'
  <2>1. UNCHANGED <<sidechainDb, blocks, issued, porIssued, porPurged, SummPoRTxs>>
    BY <1>3 DEF StartMainPurge
  <2>2. mainchainDb'.SyncTxQueue = mainchainDb.SyncTxQueue
    BY <1>3, StartMainTyped
  <2> QED  BY <1>1, <2>1, <2>2
<1>4. ASSUME StartSidePurge PROVE PoRsKept'
  <2>1. /\ sidechainDb' = SideChainEndPosition(sidechainDb).db
        /\ UNCHANGED <<mainchainDb, blocks, issued, porIssued, porPurged, SummPoRTxs>>
    BY <1>4 DEF StartSidePurge
  <2>2. sidechainDb'.FirstQueue = sidechainDb.FirstQueue
    BY <2>1, SideEnded DEF LedgerTyped
  <2> QED  BY <1>1, <2>1, <2>2
<1>5. ASSUME SidePurgeSummary PROVE PoRsKept'
  <2>1. UNCHANGED <<mainchainDb, blocks, issued, porIssued, porPurged, SummPoRTxs>>
    BY <1>5 DEF SidePurgeSummary
  <2>2. sidechainDb'.FirstQueue = sidechainDb.FirstQueue
    BY <1>5, SidePurgeSummaryTyped DEF RowReady
  <2> QED  BY <1>1, <2>1, <2>2
<1>6. ASSUME UNCHANGED <<vars, purgeVars>> PROVE PoRsKept'
  BY <1>1, <1>6 DEF vars, purgeVars
<1>7. ASSUME mcPurge = 0, Next, UNCHANGED purgeVars PROVE PoRsKept'
  BY <1>2, <1>7, RoundKeepsPoRs, MetaKeepsPoRs, SummaryKeepsPoRs DEF Next
<1> QED  BY <1>3, <1>4, <1>5, <1>6, <1>7, PurgedPoRs, MainPurgeKeepsPoRs DEF PurgeNext

\* Nothing is owed at first.
LEMMA PoRsKeptAtFirst ==
    ASSUME PurgeInit
    PROVE  PoRsKept
<1>1. /\ conf \in Experiments /\ blocks = <<>> /\ issued = <<>> /\ porIssued = 0 /\ porPurged = 0
      /\ mainchainDb = finalMainChainBCInitialization
      /\ sidechainDb = InitalizeSideChainDbTables
      /\ SummPoRTxs = [a \in Agreements |-> 0]
  BY DEF PurgeInit, Init
<1>2. mainchainDb.SyncTxQueue = <<>> /\ Len(sidechainDb.FirstQueue) = 0
  BY <1>1, FirstDb DEF InitalizeSideChainDbTables
<1>3. CountPoRs(issued) = 0
  <2>1. {i \in 1..Len(<<>>) : <<>>[i].name = "TxPor"} = {}
    OBVIOUS
  <2> QED  BY <1>1, <2>1, FS_EmptySet DEF CountPoRs
<1>4. Total(SummPoRTxs) = 0
  <2>1. Agreements = 1..NumAgreements /\ NumAgreements \in Nat
    BY <1>1, ConfIsSound
  <2>2. SummPoRTxs \in Seq(Int) /\ \A i \in 1..Len(SummPoRTxs) : SummPoRTxs[i] = 0
    BY <1>1, <2>1
  <2> QED  BY <2>2, TotalOfZeros
<1>5. PorOf(Queued(mainchainDb.SyncTxQueue)) = 0
  <2>1. Queued(<<>>) = <<>>
    BY DEF Queued
  <2> QED  BY <1>2, <2>1, PorOfFew
<1>6. PorOfBlocks(blocks) = 0
  <2>1. [i \in 1..0 |-> PorOf(<<>>[i].syncs)] = <<>>
    OBVIOUS
  <2>2. PorOfBlocks(<<>>) = Total(<<>>)
    BY <2>1 DEF PorOfBlocks
  <2> QED  BY <1>1, <2>2, TotalOfNone
<1> QED  BY <1>1, <1>2, <1>3, <1>4, <1>5, <1>6 DEF PoRsKept, PoRsOf

\* What the chain and the queue hold is what was issued, also in number.
LEMMA PoRsOnTheirWay ==
    ASSUME LedgerTyped, FirstInFirstOut
    PROVE  /\ CountPoRs(Queued(mainchainDb.FirstQueue)) + CountPoRs(OnChain) = CountPoRs(issued)
           /\ CountPoRs(Queued(mainchainDb.FirstQueue)) \in Nat /\ CountPoRs(OnChain) \in Nat
<1>1. mainchainDb.FirstQueue \in Seq(RowOf(TxSet)) /\ blocks \in Seq(BlockSet)
  BY DEF LedgerTyped, MainTyped, Queue
<1> DEFINE x == OnChain
           y == Queued(mainchainDb.FirstQueue)
<1>2. y \in Seq(TxSet)
  BY <1>1, TxsOfQueue
<1>3. x \in Seq(TxSet)
  <2>1. TxsOf(blocks) \in Seq(Seq(TxSet))
    <3>1. \A z \in BlockSet : z.txs \in Seq(TxSet)
      BY DEF BlockSet
    <3> QED  BY <1>1, <3>1 DEF TxsOf
  <2>2. <<>> \in Seq(TxSet)
    OBVIOUS
  <2>3. FlattenSeq(TxsOf(blocks)) \in Seq(TxSet)
    BY <2>1, <2>2, FlattenAppend
  <2> QED  BY <2>3 DEF OnChain, TxsOf
<1>4. x \o y = issued
  BY DEF FirstInFirstOut
<1> HIDE DEF x, y
<1>5. CountPoRs(x \o y) = CountPoRs(x) + CountPoRs(y)
  BY <1>2, <1>3, CountsAdd
<1>6. CountPoRs(x) \in Nat /\ CountPoRs(y) \in Nat
  BY <1>2, <1>3, PoRsCounted
<1> QED  BY <1>4, <1>5, <1>6 DEF x, y

\* Every proof of retrievability that an agreement owed is in exactly one
\* place: in a queue, a block, the epoch's sum of its agreement, a sync
\* transaction or a block of sidechain-purge (SummPoRTxs is read and reset in
\* syncMainChainBCTransactionQueueCollect after the meta blocks took the rows
\* of the side chain's queue, SideChainBlockChain.go; a sync transaction is
\* taken by one main chain round).
THEOREM PoRsAreConserved == PurgeSpec => []PoRConserved
<1>1. PurgeInit => LedgerTyped /\ FirstInFirstOut /\ PoRsKept
  BY InitTyped, FifoAtFirst, PoRsKeptAtFirst
<1>2. LedgerTyped /\ FirstInFirstOut /\ PoRsKept /\ [PurgeNext]_<<vars, purgeVars>>
        => LedgerTyped' /\ FirstInFirstOut' /\ PoRsKept'
  BY StepTyped, FifoStep, PoRsKeptStep
<1>3. LedgerTyped /\ FirstInFirstOut /\ PoRsKept => PoRConserved
  <2> SUFFICES ASSUME LedgerTyped, FirstInFirstOut, PoRsKept PROVE PoRConserved
    OBVIOUS
  <2> DEFINE f == CountPoRs(Queued(mainchainDb.FirstQueue))
             x == CountPoRs(OnChain)
             c == CountPoRs(issued)
             l == Len(sidechainDb.FirstQueue)
             t == Total(SummPoRTxs)
             p == PorOf(Queued(mainchainDb.SyncTxQueue))
             z == PorOfBlocks(blocks)
  <2>1. f + x = c /\ f \in Nat /\ x \in Nat
    BY PoRsOnTheirWay
  <2>2. /\ c \in Int /\ l \in Int /\ t \in Int /\ p \in Int /\ z \in Int
        /\ porPurged \in Int /\ porIssued \in Int
    BY PoRNumbers
  <2>3. porIssued = c + (l + t + p + z + porPurged)
    BY DEF PoRsKept, PoRsOf
  <2>4. SumOver(Queued(mainchainDb.SyncTxQueue), LAMBDA s : s.por) = p
    BY DEF SumOver, PorOf
  <2>5. SumOver(blocks, LAMBDA b : SumOver(b.syncs, LAMBDA s : s.por)) = z
    BY DEF SumOver, PorOf, PorOfBlocks
  <2>6. PoRsAccounted = f + x + l + t + p + z
    BY <2>4, <2>5 DEF PoRsAccounted
  <2> HIDE DEF f, x, c, l, t, p, z
  <2> QED  BY <2>1, <2>2, <2>3, <2>6 DEF PoRConserved
<1> QED  BY <1>1, <1>2, <1>3, PTL DEF PurgeSpec



-----------------------------------------------------------------------------
(* Agreements go round.                                                    *)

\* Where txs say something about agreement a before the i-th, PoRs aside.
Places(txs, a, i) == {j \in 1..(i - 1) : txs[j].agr = a /\ txs[j].name # "TxPor"}
Lived(txs, a) == Cardinality(Places(txs, a, Len(txs) + 1))

\* Every one of txs is the one that its agreement has next.
InTurn(txs) ==
    \A i \in 1..Len(txs) : txs[i].name # "TxPor" =>
        txs[i].name = LifecycleOrder[(Cardinality(Places(txs, txs[i].agr, i)) % 3) + 1]

\* The phase of an agreement can be read off its flags.
InPhase(txs, m) ==
    \A a \in Agreements : Lived(txs, a) % 3 = IF m[a].TxIssued THEN 0 ELSE 1

\* One commit at most waits for each agreement, and only while that is issued
\* and not published.
CommitsWait(txs, m) ==
    /\ \A i \in 1..Len(txs) : txs[i].name = "TxServAgrCommit" =>
          m[txs[i].agr].TxIssued /\ ~m[txs[i].agr].Published
    /\ \A i, j \in 1..Len(txs) :
          txs[i].name = "TxServAgrCommit" /\ txs[j].name = "TxServAgrCommit"
          /\ txs[i].agr = txs[j].agr => i = j

\* What was issued, what waits, and the agreements' flags.
GoesRound(txs, waiting, m) ==
    /\ \A a \in Agreements : m[a].Published => m[a].TxIssued
    /\ CommitsWait(waiting, m)
    /\ conf.StoragePaymentEpoch = 0 => InTurn(txs) /\ InPhase(txs, m)

LEMMA OneMoreLived ==
    ASSUME NEW txs \in Seq(TxSet), NEW x \in TxSet
    PROVE  /\ \A a \in Agreements :
                 /\ Lived(txs, a) \in Nat
                 /\ Lived(Append(txs, x), a) =
                       Lived(txs, a) + IF x.agr = a /\ x.name # "TxPor" THEN 1 ELSE 0
           /\ (x.name # "TxPor" => x.name = LifecycleOrder[(Lived(txs, x.agr) % 3) + 1])
                 => (InTurn(txs) => InTurn(Append(txs, x)))
<1> DEFINE t == Append(txs, x)
           n == Len(txs)
<1>1. /\ t \in Seq(TxSet) /\ Len(t) = n + 1 /\ n \in Nat /\ t[n + 1] = x
      /\ \A i \in 1..n : t[i] = txs[i]
  OBVIOUS
<1> HIDE DEF t
<1>2. ASSUME NEW a, NEW i \in 1..(n + 1) PROVE Places(t, a, i) = Places(txs, a, i)
  <2>1. \A j \in 1..(i - 1) : j \in 1..n /\ t[j] = txs[j]
    BY <1>1
  <2> QED  BY <2>1 DEF Places
<1>3. ASSUME NEW a \in Agreements
      PROVE  /\ Lived(txs, a) \in Nat
             /\ Lived(t, a) = Lived(txs, a) + IF x.agr = a /\ x.name # "TxPor" THEN 1 ELSE 0
  <2> DEFINE P == Places(txs, a, n + 1)
             Q == Places(t, a, n + 2)
  <2>1. IsFiniteSet(P) /\ Cardinality(P) \in Nat
    <3>1. P \subseteq 1..n
      BY <1>1 DEF Places
    <3> HIDE DEF P
    <3> QED  BY <1>1, <3>1, CountOf
  <2>2. n + 1 \notin P
    BY <1>1 DEF Places
  <2>3. Lived(txs, a) = Cardinality(P) /\ Lived(t, a) = Cardinality(Q)
    <3>1. Len(t) + 1 = n + 2
      BY <1>1
    <3> QED  BY <3>1 DEF Lived
  <2>4. CASE x.agr = a /\ x.name # "TxPor"
    <3>1. Q = P \cup {n + 1}
      BY <1>1, <2>4 DEF Places
    <3> HIDE DEF P, Q
    <3>2. Cardinality(Q) = Cardinality(P) + 1
      BY <2>1, <2>2, <3>1, FS_AddElement
    <3> QED  BY <2>1, <2>3, <2>4, <3>2
  <2>5. CASE ~(x.agr = a /\ x.name # "TxPor")
    <3>1. Q = P
      BY <1>1, <2>5 DEF Places
    <3> HIDE DEF P, Q
    <3> QED  BY <2>1, <2>3, <2>5, <3>1
  <2> QED  BY <2>4, <2>5
<1>4. ASSUME x.name # "TxPor" => x.name = LifecycleOrder[(Lived(txs, x.agr) % 3) + 1], InTurn(txs)
      PROVE  InTurn(t)
  <2>1. ASSUME NEW i \in 1..Len(t), t[i].name # "TxPor"
        PROVE  t[i].name = LifecycleOrder[(Cardinality(Places(t, t[i].agr, i)) % 3) + 1]
    <3>1. Places(t, t[i].agr, i) = Places(txs, t[i].agr, i)
      BY <1>1, <1>2
    <3>2. CASE i \in 1..n
      <4>1. t[i] = txs[i]
        BY <1>1, <3>2
      <4> QED  BY <1>4, <2>1, <3>1, <3>2, <4>1 DEF InTurn
    <3>3. CASE i = n + 1
      <4>1. t[i] = x
        BY <1>1, <3>3
      <4>2. Cardinality(Places(txs, x.agr, i)) = Lived(txs, x.agr)
        BY <3>3 DEF Lived
      <4> QED  BY <1>4, <2>1, <3>1, <4>1, <4>2
    <3> QED  BY <1>1, <3>2, <3>3
  <2> QED  BY <2>1 DEF InTurn
<1> QED  BY <1>3, <1>4 DEF t

\* x may be put behind txs while the flags m become u.
MayWait(txs, x, m, u) ==
    /\ \A i \in 1..Len(txs) : txs[i].name = "TxServAgrCommit" =>
          txs[i].agr # x.agr \/ (x.name # "TxServAgrCommit" /\ u[x.agr] = m[x.agr])
    /\ \A a \in Agreements : a # x.agr => u[a] = m[a]
    /\ x.name = "TxServAgrCommit" => u[x.agr].TxIssued /\ ~u[x.agr].Published

\* Another transaction waits.
LEMMA OneMoreWaits ==
    ASSUME NEW txs \in Seq(TxSet), NEW x \in TxSet, NEW m, NEW u, CommitsWait(txs, m),
           MayWait(txs, x, m, u)
    PROVE  CommitsWait(Append(txs, x), u)
<1> DEFINE t == Append(txs, x)
           n == Len(txs)
<1>1. /\ Len(t) = n + 1 /\ n \in Nat /\ t[n + 1] = x
      /\ \A i \in 1..n : t[i] = txs[i] /\ txs[i].agr \in Agreements
  <2>1. \A y \in TxSet : y.agr \in Agreements
    BY DEF TxSet
  <2> QED  BY <2>1
<1> HIDE DEF t
<1>2. ASSUME NEW i \in 1..n, txs[i].name = "TxServAgrCommit"
      PROVE  /\ u[txs[i].agr].TxIssued /\ ~u[txs[i].agr].Published
             /\ x.name = "TxServAgrCommit" => txs[i].agr # x.agr
  BY <1>1, <1>2 DEF CommitsWait, MayWait
<1>3. ASSUME NEW i \in 1..Len(t), t[i].name = "TxServAgrCommit"
      PROVE  u[t[i].agr].TxIssued /\ ~u[t[i].agr].Published
  <2>1. CASE i \in 1..n
    BY <1>1, <1>2, <1>3, <2>1
  <2>2. CASE i = n + 1
    BY <1>1, <1>3, <2>2 DEF MayWait
  <2> QED  BY <1>1, <2>1, <2>2
<1>4. ASSUME NEW i \in 1..Len(t), NEW j \in 1..Len(t), t[i].name = "TxServAgrCommit",
             t[j].name = "TxServAgrCommit", t[i].agr = t[j].agr
      PROVE  i = j
  <2>1. CASE i \in 1..n /\ j \in 1..n
    <3>1. t[i] = txs[i] /\ t[j] = txs[j]
      BY <1>1, <2>1
    <3> QED  BY <1>4, <2>1, <3>1 DEF CommitsWait
  <2>2. CASE i \in 1..n /\ j = n + 1
    BY <1>1, <1>2, <1>4, <2>2
  <2>3. CASE i = n + 1 /\ j \in 1..n
    BY <1>1, <1>2, <1>4, <2>3
  <2> QED  BY <1>1, <2>1, <2>2, <2>3
<1> QED  BY <1>3, <1>4 DEF CommitsWait, t


\* Agreement k's transactions of a round.
LEMMA OneCollected ==
    ASSUME LedgerTyped, NEW txs \in Seq(TxSet), NEW waiting \in Seq(TxSet),
           NEW m \in [Agreements -> MarketRow], NEW k \in Agreements, m[k] = Market[k],
           NEW u, u = [m EXCEPT ![k] = AfterCollect(Market[k])], GoesRound(txs, waiting, m)
    PROVE  GoesRound(txs \o CollectedTxs(k), waiting \o CollectedTxs(k), u)
<1> DEFINE r == Market[k]
           p == Tx("TxServAgrPropose", k)
           c == Tx("TxServAgrCommit", k)
           y == Tx("TxStoragePayment", k)
           z == Tx("TxPor", k)
<1>1. /\ {p, c, y, z} \subseteq TxSet
      /\ p.name = "TxServAgrPropose" /\ c.name = "TxServAgrCommit"
      /\ y.name = "TxStoragePayment" /\ z.name = "TxPor"
      /\ p.agr = k /\ c.agr = k /\ y.agr = k /\ z.agr = k
  <2>1. {"TxServAgrPropose", "TxServAgrCommit", "TxStoragePayment", "TxPor"} \subseteq TxNames
    BY DEF TxNames
  <2> QED  BY <2>1, CollectedAreTxs
<1>2. /\ \A a \in Agreements : a # k => u[a] = m[a]
      /\ u[k] = AfterCollect(r) /\ r \in MarketRow /\ r = m[k]
  OBVIOUS
<1>3. /\ LifecycleOrder[1] = "TxStoragePayment" /\ LifecycleOrder[2] = "TxServAgrPropose"
      /\ LifecycleOrder[3] = "TxServAgrCommit"
  BY DEF LifecycleOrder
<1>4. \A a \in Agreements : Lived(txs, a) \in Nat
  BY <1>1, OneMoreLived
<1>5. /\ \A a \in Agreements : m[a].Published => m[a].TxIssued
      /\ CommitsWait(waiting, m)
      /\ conf.StoragePaymentEpoch = 0 => InTurn(txs) /\ InPhase(txs, m)
  BY DEF GoesRound
<1>e. (Inactive(r) => ~Expires(r)) /\ (Inactive(r) => ~OwesPoR(r)) /\ (Expires(r) => ~OwesPoR(r))
  BY DEF Inactive, Expires, OwesPoR
<1> HIDE DEF r, p, c, y, z
<1>6. CASE Inactive(r)
  <2>1. CollectedTxs(k) = <<p, c>> /\ ~r.Published /\ ~r.TxIssued
    BY <1>6, <1>e DEF CollectedTxs, r, p, c, Inactive
  <2>2. u[k] = [r EXCEPT !.TxIssued = TRUE]
    BY <1>2, <1>6, <1>e DEF AfterCollect
  <2>3. u[k].TxIssued /\ ~u[k].Published
    BY <1>2, <2>1, <2>2 DEF MarketRow
  <2> DEFINE s == Append(txs, p)
             v == Append(waiting, p)
  <2>4. s \in Seq(TxSet) /\ v \in Seq(TxSet)
    BY <1>1
  <2>5. txs \o <<p, c>> = Append(s, c) /\ waiting \o <<p, c>> = Append(v, c)
    OBVIOUS
  <2>w. \A i \in 1..Len(waiting) : waiting[i].name = "TxServAgrCommit" => waiting[i].agr # k
    BY <1>2, <1>5, <2>1 DEF CommitsWait
  <2>6. CommitsWait(v, m)
    <3>1. MayWait(waiting, p, m, m)
      BY <1>1, <2>w DEF MayWait
    <3> QED  BY <1>1, <1>5, <3>1, OneMoreWaits
  <2>7. \A i \in 1..Len(v) : v[i].name = "TxServAgrCommit" => v[i].agr # k
    <3>1. ASSUME NEW i \in 1..Len(v), v[i].name = "TxServAgrCommit" PROVE v[i].agr # k
      <4>1. i \in 1..Len(waiting) /\ v[i] = waiting[i]
        BY <1>1, <3>1
      <4> QED  BY <2>w, <3>1, <4>1
    <3> QED  BY <3>1
  <2> HIDE DEF s, v
  <2>8. CommitsWait(Append(v, c), u)
    <3>1. MayWait(v, c, m, u)
      BY <1>1, <1>2, <2>3, <2>7 DEF MayWait
    <3> QED  BY <1>1, <2>4, <2>6, <3>1, OneMoreWaits
  <2>9. \A a \in Agreements : u[a].Published => u[a].TxIssued
    BY <1>2, <1>5, <2>3
  <2>10. ASSUME conf.StoragePaymentEpoch = 0
         PROVE  InTurn(Append(s, c)) /\ InPhase(Append(s, c), u)
    <3>1. Lived(txs, k) % 3 = 1 /\ InTurn(txs)
      BY <1>2, <1>5, <2>1, <2>10 DEF InPhase
    <3>2. InTurn(s) /\ \A a \in Agreements : Lived(s, a) = Lived(txs, a) + IF a = k THEN 1 ELSE 0
      <4>1. p.name = LifecycleOrder[(Lived(txs, p.agr) % 3) + 1]
        BY <1>1, <1>3, <3>1
      <4>2. \A a \in Agreements : Lived(s, a) = Lived(txs, a)
                                    + IF p.agr = a /\ p.name # "TxPor" THEN 1 ELSE 0
        BY <1>1, OneMoreLived DEF s
      <4>3. InTurn(s)
        BY <1>1, <3>1, <4>1, OneMoreLived DEF s
      <4> QED  BY <1>1, <4>2, <4>3
    <3>3. Lived(s, k) % 3 = 2
      BY <1>4, <3>1, <3>2
    <3>4. /\ InTurn(Append(s, c))
          /\ \A a \in Agreements : Lived(Append(s, c), a) = Lived(s, a) + IF a = k THEN 1 ELSE 0
      <4>1. c.name = LifecycleOrder[(Lived(s, c.agr) % 3) + 1]
        BY <1>1, <1>3, <3>3
      <4>2. \A a \in Agreements : Lived(Append(s, c), a) = Lived(s, a)
                                    + IF c.agr = a /\ c.name # "TxPor" THEN 1 ELSE 0
        BY <1>1, <2>4, OneMoreLived
      <4>3. InTurn(Append(s, c))
        BY <1>1, <2>4, <3>2, <4>1, OneMoreLived
      <4> QED  BY <1>1, <4>2, <4>3
    <3>5. ASSUME NEW a \in Agreements
          PROVE  Lived(Append(s, c), a) % 3 = IF u[a].TxIssued THEN 0 ELSE 1
      <4>1. CASE a = k
        <5>1. Lived(Append(s, c), k) = Lived(txs, k) + 2
          BY <1>4, <3>2, <3>4
        <5>2. (Lived(txs, k) + 2) % 3 = 0
          <6>1. \A n \in Nat : n % 3 = 1 => (n + 2) % 3 = 0
            OBVIOUS
          <6>2. Lived(txs, k) \in Nat
            BY <1>4
          <6> QED  BY <3>1, <6>1, <6>2
        <5> QED  BY <2>3, <4>1, <5>1, <5>2
      <4>2. CASE a # k
        <5>1. Lived(Append(s, c), a) = Lived(txs, a) /\ u[a] = m[a]
          BY <1>2, <1>4, <3>2, <3>4, <4>2
        <5> QED  BY <1>5, <2>10, <5>1 DEF InPhase
      <4> QED  BY <4>1, <4>2
    <3> QED  BY <3>4, <3>5 DEF InPhase
  <2> QED  BY <2>1, <2>5, <2>8, <2>9, <2>10 DEF GoesRound
<1>7. CASE Expires(r)
  <2>1. /\ CollectedTxs(k) = IF conf.StoragePaymentEpoch = 0 THEN <<y>> ELSE <<>>
        /\ r.Published /\ r.TxIssued
    BY <1>7, <1>e DEF CollectedTxs, r, y, Expires
  <2>2. ~u[k].TxIssued /\ ~u[k].Published
    <3>1. u[k] = [r EXCEPT !.Published = FALSE, !.TxIssued = FALSE]
      BY <1>2, <1>7 DEF AfterCollect
    <3> QED  BY <1>2, <3>1 DEF MarketRow
  <2>w. \A i \in 1..Len(waiting) : waiting[i].name = "TxServAgrCommit" => waiting[i].agr # k
    BY <1>2, <1>5, <2>1 DEF CommitsWait
  <2>3. \A a \in Agreements : u[a].Published => u[a].TxIssued
    BY <1>2, <1>5, <2>2
  <2>4. CASE conf.StoragePaymentEpoch = 0
    <3>1. txs \o CollectedTxs(k) = Append(txs, y) /\ waiting \o CollectedTxs(k) = Append(waiting, y)
      BY <2>1, <2>4
    <3>2. CommitsWait(Append(waiting, y), u)
      <4>1. MayWait(waiting, y, m, u)
        BY <1>1, <1>2, <2>w DEF MayWait
      <4> QED  BY <1>1, <1>5, <4>1, OneMoreWaits
    <3>3. Lived(txs, k) % 3 = 0 /\ InTurn(txs)
      BY <1>2, <1>5, <2>1, <2>4 DEF InPhase
    <3>4. /\ InTurn(Append(txs, y))
          /\ \A a \in Agreements : Lived(Append(txs, y), a) = Lived(txs, a) + IF a = k THEN 1 ELSE 0
      <4>1. y.name = LifecycleOrder[(Lived(txs, y.agr) % 3) + 1]
        BY <1>1, <1>3, <3>3
      <4>2. \A a \in Agreements : Lived(Append(txs, y), a) = Lived(txs, a)
                                    + IF y.agr = a /\ y.name # "TxPor" THEN 1 ELSE 0
        BY <1>1, OneMoreLived
      <4>3. InTurn(Append(txs, y))
        BY <1>1, <3>3, <4>1, OneMoreLived
      <4> QED  BY <1>1, <4>2, <4>3
    <3>5. ASSUME NEW a \in Agreements
          PROVE  Lived(Append(txs, y), a) % 3 = IF u[a].TxIssued THEN 0 ELSE 1
      <4>1. CASE a = k
        <5>1. Lived(Append(txs, y), k) = Lived(txs, k) + 1
          BY <3>4
        <5> QED  BY <1>4, <2>2, <3>3, <4>1, <5>1
      <4>2. CASE a # k
        <5>1. Lived(Append(txs, y), a) = Lived(txs, a) /\ u[a] = m[a]
          BY <1>2, <1>4, <3>4, <4>2
        <5> QED  BY <1>5, <2>4, <5>1 DEF InPhase
      <4> QED  BY <4>1, <4>2
    <3> QED  BY <2>3, <3>1, <3>2, <3>4, <3>5 DEF GoesRound, InPhase
  <2>5. CASE conf.StoragePaymentEpoch # 0
    <3>1. txs \o CollectedTxs(k) = txs /\ waiting \o CollectedTxs(k) = waiting
      BY <2>1, <2>5
    <3>2. CommitsWait(waiting, u)
      <4>1. \A i \in 1..Len(waiting) : waiting[i].agr \in Agreements
        <5>1. \A x \in TxSet : x.agr \in Agreements
          BY DEF TxSet
        <5> QED  BY <5>1
      <4> QED  BY <1>2, <1>5, <2>w, <4>1 DEF CommitsWait
    <3> QED  BY <2>3, <2>5, <3>1, <3>2 DEF GoesRound
  <2> QED  BY <2>4, <2>5
<1>8. CASE ~Inactive(r) /\ ~Expires(r)
  <2>1. u = m
    BY <1>2, <1>8 DEF AfterCollect
  <2>2. CASE CollectedTxs(k) = <<>>
    <3>1. txs \o CollectedTxs(k) = txs /\ waiting \o CollectedTxs(k) = waiting
      BY <2>2
    <3> QED  BY <2>1, <3>1
  <2>3. CASE CollectedTxs(k) = <<z>>
    <3>1. txs \o CollectedTxs(k) = Append(txs, z) /\ waiting \o CollectedTxs(k) = Append(waiting, z)
      BY <2>3
    <3>2. CommitsWait(Append(waiting, z), u)
      <4>1. MayWait(waiting, z, m, u)
        BY <1>1, <2>1 DEF MayWait
      <4> QED  BY <1>1, <1>5, <4>1, OneMoreWaits
    <3>3. /\ InTurn(txs) => InTurn(Append(txs, z))
          /\ \A a \in Agreements : Lived(Append(txs, z), a) = Lived(txs, a)
      <4>1. \A a \in Agreements : Lived(Append(txs, z), a) = Lived(txs, a)
                                    + IF z.agr = a /\ z.name # "TxPor" THEN 1 ELSE 0
        BY <1>1, OneMoreLived
      <4>2. InTurn(txs) => InTurn(Append(txs, z))
        BY <1>1, OneMoreLived
      <4> QED  BY <1>1, <1>4, <4>1, <4>2
    <3> QED  BY <1>5, <2>1, <3>1, <3>2, <3>3 DEF GoesRound, InPhase
  <2> QED  BY <1>8, <2>2, <2>3 DEF CollectedTxs, r, z
<1> QED  BY <1>6, <1>7, <1>8


\* All agreements' transactions of a round.
LEMMA AllCollected ==
    ASSUME LedgerTyped, NEW waiting \in Seq(TxSet), GoesRound(issued, waiting, Market)
    PROVE  GoesRound(issued \o NewTxs, waiting \o NewTxs, [a \in Agreements |-> AfterCollect(Market[a])])
<1> DEFINE N == NumAgreements
           s == [a \in Agreements |-> CollectedTxs(a)]
           F(k) == FlattenSeq(First(s, k))
           M(k) == [a \in Agreements |-> IF a <= k THEN AfterCollect(Market[a]) ELSE Market[a]]
           T == {k \in 0..N : ~GoesRound(issued \o F(k), waiting \o F(k), M(k))}
<1>1. N \in Nat /\ Agreements = 1..N /\ issued \in Seq(TxSet)
  BY ConfIsSound DEF LedgerTyped
<1>2. s \in Seq(Seq(TxSet)) /\ Len(s) = N /\ \A a \in 1..N : s[a] = CollectedTxs(a)
  BY <1>1, NewAreTxs DEF LedgerTyped
<1>3. Market \in [Agreements -> MarketRow]
  BY DEF LedgerTyped, MainTyped, Market, MainChainGetMarketMatchingRows
<1>4. \A a \in Agreements : AfterCollect(Market[a]) \in MarketRow
  BY <1>3 DEF AfterCollect, MarketRow
<1> HIDE DEF s, N
<1>5. /\ F(0) = <<>>
      /\ \A k \in 0..N : F(k) \in Seq(TxSet)
      /\ \A k \in 1..N : F(k) = F(k - 1) \o s[k]
      /\ F(N) = NewTxs
  <2>1. /\ \A k \in 0..Len(s) : FlattenSeq(First(s, k)) \in Seq(TxSet)
        /\ FlattenSeq(First(s, 0)) = <<>>
        /\ \A k \in 1..Len(s) : FlattenSeq(First(s, k)) = FlattenSeq(First(s, k - 1)) \o s[k]
        /\ First(s, Len(s)) = s
    BY <1>2, FlattenStep
  <2>2. NewTxs = FlattenSeq(s)
    BY DEF NewTxs, s
  <2> QED  BY <1>2, <2>1, <2>2
<1> HIDE DEF F
<1>6. 0 \notin T
  <2>1. M(0) = Market
    BY <1>1, <1>3
  <2>2. issued \o F(0) = issued /\ waiting \o F(0) = waiting
    BY <1>1, <1>5
  <2> HIDE DEF M
  <2> QED  BY <2>1, <2>2
<1>7. ASSUME NEW k \in T, k # 0 PROVE k - 1 \in T
  <2>1. k \in 1..N /\ k - 1 \in 0..N /\ k \in Agreements
    BY <1>1, <1>7
  <2> DEFINE i == issued \o F(k - 1)
             w == waiting \o F(k - 1)
             m == M(k - 1)
             u == M(k)
  <2>2. i \in Seq(TxSet) /\ w \in Seq(TxSet) /\ s[k] = CollectedTxs(k) /\ s[k] \in Seq(TxSet)
    BY <1>1, <1>2, <1>5, <2>1
  <2>3. issued \o F(k) = i \o CollectedTxs(k) /\ waiting \o F(k) = w \o CollectedTxs(k)
    <3> DEFINE e == F(k - 1)
               c == s[k]
    <3>1. e \in Seq(TxSet) /\ c \in Seq(TxSet) /\ F(k) = e \o c
      BY <1>5, <2>1, <2>2
    <3> HIDE DEF e, c
    <3>2. (issued \o e) \o c = issued \o (e \o c) /\ (waiting \o e) \o c = waiting \o (e \o c)
      <4>1. \A x, y, z \in Seq(TxSet) : (x \o y) \o z = x \o (y \o z)
        <5> TAKE x, y, z \in Seq(TxSet)
        <5> QED  BY ConcatAssoc
      <4> QED  BY <1>1, <3>1, <4>1
    <3> QED  BY <2>2, <3>1, <3>2 DEF e, c
  <2>4. m \in [Agreements -> MarketRow] /\ m[k] = Market[k]
    BY <1>1, <1>3, <1>4, <2>1
  <2>5. u = [m EXCEPT ![k] = AfterCollect(Market[k])]
    <3>1. \A a \in Agreements : a # k => (a <= k <=> a <= k - 1)
      BY <1>1, <2>1
    <3>2. \A a \in Agreements : u[a] = IF a = k THEN AfterCollect(Market[k]) ELSE m[a]
      BY <1>1, <2>1, <3>1
    <3>3. DOMAIN u = Agreements /\ u = [a \in Agreements |-> u[a]] /\ DOMAIN m = Agreements
      OBVIOUS
    <3> HIDE DEF u, m
    <3> QED  BY <2>1, <3>2, <3>3
  <2>6. ~GoesRound(i \o CollectedTxs(k), w \o CollectedTxs(k), u)
    <3>1. ~GoesRound(issued \o F(k), waiting \o F(k), M(k))
      BY <1>7
    <3> HIDE DEF M
    <3> QED  BY <2>3, <3>1
  <2> HIDE DEF i, w, m, u, M
  <2>7. ~GoesRound(i, w, m)
    BY <2>1, <2>2, <2>4, <2>5, <2>6, OneCollected
  <2> QED  BY <2>1, <2>7 DEF i, w, m
<1>8. T = {}
  <2>1. T \subseteq 0..N
    OBVIOUS
  <2> HIDE DEF T
  <2> QED  BY <1>1, <2>1, <1>6, <1>7, NoLeastFailure
<1>9. GoesRound(issued \o F(N), waiting \o F(N), M(N))
  <2>1. N \in 0..N
    BY <1>1
  <2> HIDE DEF M
  <2> QED  BY <1>8, <2>1
<1>10. M(N) = [a \in Agreements |-> AfterCollect(Market[a])]
  BY <1>1
<1> HIDE DEF M
<1> QED  BY <1>5, <1>9, <1>10

\* A block takes the first n transactions.
LEMMA CommitsLeave ==
    ASSUME NEW q \in Queue(TxSet), NEW n \in 0..Len(q), NEW m \in [Agreements -> MarketRow],
           NEW round \in Int, NEW txs, GoesRound(txs, Queued(q), m)
    PROVE  GoesRound(txs, Queued(WithoutFirst(q, n)), CommittedMarket(m, q, n, round))
<1> DEFINE u == CommittedMarket(m, q, n, round)
           p == Queued(q)
           r == WithoutFirst(q, n)
           w == Queued(r)
           C(a) == \E i \in 1..n : q[i].tx.name = "TxServAgrCommit" /\ q[i].tx.agr = a
<1>1. /\ q \in Seq(RowOf(TxSet)) /\ Len(q) \in Nat /\ Len(p) = Len(q)
      /\ \A i \in 1..Len(q) : p[i] = q[i].tx /\ p[i] \in TxSet
  <2>1. q \in Seq(RowOf(TxSet))
    BY DEF Queue
  <2> QED  BY <2>1, TxsOfQueue
<1>2. /\ Len(r) = Len(q) - n /\ \A i \in 1..(Len(q) - n) : r[i] = q[i + n]
      /\ r \in Seq(RowOf(TxSet))
  BY RestOfQueue DEF Queue
<1>3. Len(w) = Len(q) - n /\ \A i \in 1..(Len(q) - n) : w[i] = p[i + n] /\ i + n \in 1..Len(q)
  <2>1. Len(w) = Len(r) /\ \A i \in 1..Len(r) : w[i] = r[i].tx
    BY <1>2, TxsOfQueue
  <2> HIDE DEF p, r, w
  <2>2. \A i \in 1..(Len(q) - n) : i + n \in 1..Len(q) /\ i \in 1..Len(r)
    BY <1>1, <1>2
  <2> QED  BY <1>1, <1>2, <2>1, <2>2
<1>4. \A a \in Agreements : u[a] = IF C(a) THEN Started(m[a], round) ELSE m[a]
  BY DEF CommittedMarket
<1>5. \A a \in Agreements : /\ u[a].TxIssued = m[a].TxIssued
                            /\ u[a].Published <=> m[a].Published \/ C(a)
  <2> TAKE a \in Agreements
  <2>1. /\ Started(m[a], round).TxIssued = m[a].TxIssued
        /\ Started(m[a], round).Published = TRUE
    BY DEF Started, MarketRow
  <2>2. m[a].Published \in BOOLEAN
    BY DEF MarketRow
  <2> HIDE DEF C, u
  <2>3. CASE C(a)
    BY <1>4, <2>1, <2>2, <2>3
  <2>4. CASE ~C(a)
    BY <1>4, <2>2, <2>4
  <2> QED  BY <2>3, <2>4
<1>6. \A a \in Agreements : C(a) => \E i \in 1..n : i \in 1..Len(q) /\ p[i].name = "TxServAgrCommit" /\ p[i].agr = a
  BY <1>1
<1>7. CommitsWait(p, m)
  BY DEF GoesRound
<1>t. \A i \in 1..Len(q) : p[i].agr \in Agreements
  BY <1>1 DEF TxSet
<1> HIDE DEF C, u, p, w, r
<1>8. \A a \in Agreements : C(a) => m[a].TxIssued
  BY <1>1, <1>6, <1>7 DEF CommitsWait
<1>9. \A a \in Agreements : u[a].Published => u[a].TxIssued
  BY <1>5, <1>8 DEF GoesRound
<1>10. CommitsWait(w, u)
  <2>1. ASSUME NEW i \in 1..Len(w), w[i].name = "TxServAgrCommit"
        PROVE  u[w[i].agr].TxIssued /\ ~u[w[i].agr].Published
    <3>1. i + n \in 1..Len(p) /\ w[i] = p[i + n] /\ w[i].agr \in Agreements
      BY <1>1, <1>3, <1>t
    <3>2. m[w[i].agr].TxIssued /\ ~m[w[i].agr].Published
      BY <1>7, <2>1, <3>1 DEF CommitsWait
    <3>3. ~C(w[i].agr)
      <4> SUFFICES ASSUME C(w[i].agr) PROVE FALSE
        OBVIOUS
      <4>1. PICK j \in 1..n : j \in 1..Len(q) /\ p[j].name = "TxServAgrCommit" /\ p[j].agr = w[i].agr
        BY <1>6, <3>1
      <4>2. j = i + n
        BY <1>1, <1>7, <2>1, <3>1, <4>1 DEF CommitsWait
      <4>3. i \in 1..(Len(q) - n)
        BY <1>3
      <4> QED  BY <1>1, <4>1, <4>2, <4>3
    <3> QED  BY <1>5, <3>1, <3>2, <3>3
  <2>2. ASSUME NEW i \in 1..Len(w), NEW j \in 1..Len(w), w[i].name = "TxServAgrCommit",
               w[j].name = "TxServAgrCommit", w[i].agr = w[j].agr
        PROVE  i = j
    <3>1. /\ i + n \in 1..Len(p) /\ w[i] = p[i + n]
          /\ j + n \in 1..Len(p) /\ w[j] = p[j + n]
      BY <1>1, <1>3
    <3>2. i + n = j + n
      BY <1>7, <2>2, <3>1 DEF CommitsWait
    <3> QED  BY <1>1, <1>3, <3>2
  <2> QED  BY <2>1, <2>2 DEF CommitsWait
<1>11. conf.StoragePaymentEpoch = 0 => InTurn(txs) /\ InPhase(txs, u)
  BY <1>5 DEF GoesRound, InPhase
<1> QED  BY <1>9, <1>10, <1>11 DEF GoesRound, u, w, r

\* Agreements are paid for at the end of epochs.
LEMMA PaymentsWait ==
    ASSUME LedgerTyped, NEW waiting \in Seq(TxSet), GoesRound(issued, waiting, Market)
    PROVE  GoesRound(issued \o SummaryPayments, waiting \o SummaryPayments, Market)
<1>1. CASE ~PaymentsDue
  <2>1. SummaryPayments = <<>> /\ issued \in Seq(TxSet)
    BY <1>1 DEF SummaryPayments, LedgerTyped
  <2>2. issued \o SummaryPayments = issued /\ waiting \o SummaryPayments = waiting
    BY <2>1
  <2> QED  BY <2>2
<1>2. CASE PaymentsDue
  <2>1. conf.StoragePaymentEpoch # 0
    BY <1>2 DEF PaymentsDue
  <2> DEFINE y == SummaryPayments
             t == waiting \o y
  <2>2. Agreements = 1..NumAgreements /\ NumAgreements \in Nat
    BY ConfIsSound DEF LedgerTyped
  <2>3. /\ y = [a \in Agreements |-> Tx("TxStoragePayment", ServerOf(a))]
        /\ \A i \in 1..Len(y) : y[i].name = "TxStoragePayment"
    <3>1. y = [a \in Agreements |-> Tx("TxStoragePayment", ServerOf(a))]
      BY <1>2 DEF SummaryPayments, StoragePayments
    <3>2. \A a \in Agreements : y[a].name = "TxStoragePayment"
      BY <3>1 DEF Tx
    <3>3. Len(y) = NumAgreements
      BY <2>2, <3>1
    <3> HIDE DEF y
    <3> QED  BY <2>2, <3>1, <3>2, <3>3
  <2>4. Len(y) \in Nat
    <3>1. Len(y) = NumAgreements
      BY <2>2, <2>3
    <3> QED  BY <2>2, <3>1
  <2>5. ASSUME NEW i \in 1..Len(t), t[i].name = "TxServAgrCommit"
        PROVE  i \in 1..Len(waiting) /\ t[i] = waiting[i]
    <3> HIDE DEF y
    <3>1. Len(t) = Len(waiting) + Len(y) /\ Len(waiting) \in Nat
      BY <2>3, <2>4
    <3>2. CASE i \in 1..Len(waiting)
      BY <3>2
    <3>3. CASE i \notin 1..Len(waiting)
      <4>1. i - Len(waiting) \in 1..Len(y) /\ t[i] = y[i - Len(waiting)]
        BY <2>4, <3>1, <3>3
      <4> QED  BY <2>3, <2>5, <4>1
    <3> QED  BY <3>2, <3>3
  <2> HIDE DEF t
  <2>6. CommitsWait(t, Market)
    BY <2>5 DEF GoesRound, CommitsWait
  <2> QED  BY <2>1, <2>6 DEF GoesRound, t
<1> QED  BY <1>1, <1>2


RoundRespected == GoesRound(issued, Queued(mainchainDb.FirstQueue), Market)

LEMMA GoesRoundStep ==
    ASSUME LedgerTyped, RoundRespected, [PurgeNext]_<<vars, purgeVars>>
    PROVE  RoundRespected'
<1> DEFINE q == mainchainDb.FirstQueue
           same == conf' = conf
<1>1. /\ q \in Queue(TxSet) /\ Queued(q) \in Seq(TxSet) /\ Market \in [Agreements -> MarketRow]
      /\ MCRoundNumber \in Int /\ mcPurge \in Int /\ GoesRound(issued, Queued(q), Market)
      /\ issued \in Seq(TxSet)
  <2>1. q \in Queue(TxSet) /\ Market \in [Agreements -> MarketRow]
    BY DEF LedgerTyped, MainTyped, Market, MainChainGetMarketMatchingRows
  <2>2. q \in Seq(RowOf(TxSet))
    BY <2>1 DEF Queue
  <2>3. Queued(q) \in Seq(TxSet)
    BY <2>2, TxsOfQueue
  <2> QED  BY <2>1, <2>3 DEF LedgerTyped, RoundRespected
<1>2. ASSUME conf' = conf, NEW txs, NEW p, NEW m, issued' = txs, mainchainDb'.FirstQueue = p,
             mainchainDb'.MarketMatching = m, GoesRound(txs, Queued(p), m)
      PROVE  RoundRespected'
  <2>1. Agreements' = Agreements /\ Market' = m /\ Queued(mainchainDb.FirstQueue)' = Queued(p)
    BY <1>2 DEF Agreements, Market, MainChainGetMarketMatchingRows, Queued
  <2>2. /\ \A a \in Agreements : m[a].Published => m[a].TxIssued
        /\ CommitsWait(Queued(p), m)
        /\ conf.StoragePaymentEpoch = 0 => InTurn(txs) /\ InPhase(txs, m)
    BY <1>2 DEF GoesRound
  <2> QED  BY <1>2, <2>1, <2>2
        DEF RoundRespected, GoesRound, CommitsWait, InTurn, InPhase, Lived, Places
<1>3. ASSUME mcPurge = 0, EmptyBlock \/ FullBlock PROVE RoundRespected'
  <2>1. PICK b, n : RoundClosed(b, n)
    BY <1>3, RoundCloses
  <2> DEFINE r == InsertRows(q, NewTxs)
             u == [a \in Agreements |-> AfterCollect(Market[a])]
             v == CommittedMarket(u, r, n, MCRoundNumber)
  <2>2. /\ mainchainDb'.FirstQueue = WithoutFirst(r, n) /\ n \in 0..Len(r)
        /\ mainchainDb'.MarketMatching = v
    BY <2>1 DEF RoundClosed, BlockFrom
  <2>3. issued' = issued \o NewTxs /\ conf' = conf
    BY <1>3 DEF EmptyBlock, FullBlock, CollectRest
  <2>4. NewTxs \in Seq(TxSet)
    BY NewAreTxs DEF LedgerTyped
  <2>5. r \in Queue(TxSet) /\ Queued(r) = Queued(q) \o NewTxs
    BY <1>1, <2>4, InsertedRows
  <2>6. u \in [Agreements -> MarketRow]
    BY <1>1 DEF AfterCollect, MarketRow
  <2>7. GoesRound(issued \o NewTxs, Queued(r), u)
    BY <1>1, <2>5, AllCollected
  <2> HIDE DEF r, u, q
  <2>8. GoesRound(issued \o NewTxs, Queued(WithoutFirst(r, n)), v)
    BY <1>1, <2>2, <2>5, <2>6, <2>7, CommitsLeave
  <2> HIDE DEF v
  <2> QED  BY <1>2, <2>2, <2>3, <2>8
<1>4. ASSUME SummaryBlock PROVE RoundRespected'
  <2>1. /\ SummaryPayments \in Seq(TxSet) /\ issued' = issued \o SummaryPayments
        /\ mainchainDb'.FirstQueue = InsertRows(q, SummaryPayments)
        /\ mainchainDb'.MarketMatching = mainchainDb.MarketMatching
    BY <1>4, SummaryDone
  <2>2. conf' = conf
    BY <1>4 DEF SummaryBlock
  <2>3. Queued(InsertRows(q, SummaryPayments)) = Queued(q) \o SummaryPayments
    BY <1>1, <2>1, InsertedRows
  <2>4. GoesRound(issued \o SummaryPayments, Queued(InsertRows(q, SummaryPayments)), Market)
    BY <1>1, <2>3, PaymentsWait
  <2>5. mainchainDb'.MarketMatching = Market
    BY <2>1 DEF Market, MainChainGetMarketMatchingRows
  <2> HIDE DEF q
  <2> QED  BY <1>2, <2>1, <2>2, <2>4, <2>5
<1>5. ASSUME mainchainDb'.FirstQueue = q, mainchainDb'.MarketMatching = Market, issued' = issued,
             conf' = conf
      PROVE  RoundRespected'
  BY <1>1, <1>2, <1>5
<1>6. ASSUME MainPurgeRound PROVE RoundRespected'
  <2> DEFINE added == InsertIntoMainChainRoundTable(mainchainDb, mcPurge, -1)
  <2>1. /\ IF NothingQueued(added) THEN mainchainDb' = added /\ mcPurge' = -1 /\ blocks' = blocks
           ELSE mcPurge' = mcPurge + 1 /\ \E b, n : PurgeRoundDone(b, n)
        /\ issued' = issued /\ conf' = conf
    BY <1>6, PurgeRounds DEF MainPurgeRound
  <2>2. added.FirstQueue = q /\ added.MarketMatching = Market
    BY DEF InsertIntoMainChainRoundTable, LedgerTyped, MainTyped, MainShape, Market,
           MainChainGetMarketMatchingRows
  <2>3. CASE NothingQueued(added)
    <3>1. mainchainDb'.FirstQueue = q /\ mainchainDb'.MarketMatching = Market
      BY <2>1, <2>2, <2>3
    <3> QED  BY <1>5, <2>1, <3>1
  <2>4. CASE ~NothingQueued(added)
    <3>1. PICK b, n : PurgeRoundDone(b, n)
      BY <2>1, <2>4
    <3> DEFINE v == CommittedMarket(Market, q, n, mcPurge)
    <3>2. /\ mainchainDb'.FirstQueue = WithoutFirst(q, n) /\ n \in 0..Len(q)
          /\ mainchainDb'.MarketMatching = v
      BY <3>1 DEF PurgeRoundDone, BlockFrom
    <3> HIDE DEF q
    <3>3. GoesRound(issued, Queued(WithoutFirst(q, n)), v)
      BY <1>1, <3>2, CommitsLeave
    <3> HIDE DEF v
    <3> QED  BY <1>2, <2>1, <3>2, <3>3
  <2> QED  BY <2>3, <2>4
<1>7. ASSUME CrashWithoutPower PROVE RoundRespected'
  <2>1. mainchainDb' = PoweredDb /\ conf' = conf /\ issued' = issued
    BY <1>7 DEF CrashWithoutPower
  <2>2. PoweredDb.FirstQueue = q /\ PoweredDb.MarketMatching = Market
    BY RoundPrepared
  <2> QED  BY <1>5, <2>1, <2>2
<1>8. ASSUME StartMainPurge PROVE RoundRespected'
  <2>1. /\ mainchainDb'.FirstQueue = q /\ mainchainDb'.MarketMatching = mainchainDb.MarketMatching
        /\ conf' = conf /\ issued' = issued
    BY <1>8, StartMainTyped DEF StartMainPurge
  <2> QED  BY <1>5, <2>1 DEF Market, MainChainGetMarketMatchingRows
<1>9. ASSUME MetaBlock \/ StartSidePurge \/ SidePurgeSummary \/ SidePurgeRound
             \/ UNCHANGED <<vars, purgeVars>>
      PROVE  RoundRespected'
  <2>1. mainchainDb' = mainchainDb /\ conf' = conf /\ issued' = issued
    BY <1>9 DEF MetaBlock, StartSidePurge, SidePurgeSummary, SidePurgeRound, vars
  <2> QED  BY <1>5, <2>1 DEF Market, MainChainGetMarketMatchingRows
<1> QED  BY <1>3, <1>4, <1>6, <1>7, <1>8, <1>9 DEF PurgeNext, Next

\* At first every agreement is running.
LEMMA GoesRoundAtFirst ==
    ASSUME PurgeInit
    PROVE  RoundRespected
<1>1. /\ conf \in Experiments /\ issued = <<>> /\ mainchainDb = finalMainChainBCInitialization
  BY DEF PurgeInit, Init
<1>2. mainchainDb.FirstQueue = <<>> /\ mainchainDb.MarketMatching = FirstMarket
  BY <1>1, FirstDb
<1>3. \A a \in Agreements : Market[a].TxIssued
  BY <1>2 DEF Market, MainChainGetMarketMatchingRows, FirstMarket
<1>4. CommitsWait(Queued(mainchainDb.FirstQueue), Market)
  <2>1. Queued(<<>>) = <<>>
    BY DEF Queued
  <2> QED  BY <1>2, <2>1 DEF CommitsWait
<1>5. InTurn(issued) /\ \A a : Lived(issued, a) = 0
  <2>1. \A a : Places(<<>>, a, 1) = {}
    BY DEF Places
  <2>2. \A a : Lived(<<>>, a) = 0
    BY <2>1, FS_EmptySet DEF Lived
  <2> QED  BY <1>1, <2>2 DEF InTurn
<1>6. InPhase(issued, Market)
  BY <1>3, <1>5 DEF InPhase
<1> QED  BY <1>3, <1>4, <1>5, <1>6 DEF RoundRespected, GoesRound

\* An agreement expires and is paid for, is proposed again, and is committed
\* to, in this order and each once, however long its transactions wait in the
\* queue (the flags Published and TxIssued, which
\* updateMainChainBCTransactionQueueCollect reads a round at a time and which
\* a commit that leaves the queue sets, MainChainBlockChain.go:243, 263, 517;
\* StoragePaymentEpoch = 0).
THEOREM AgreementsGoRound == PurgeSpec => []PaidProposedCommitted
<1>1. PurgeInit => LedgerTyped /\ RoundRespected
  BY InitTyped, GoesRoundAtFirst
<1>2. LedgerTyped /\ RoundRespected /\ [PurgeNext]_<<vars, purgeVars>> => LedgerTyped' /\ RoundRespected'
  BY StepTyped, GoesRoundStep
<1>3. RoundRespected => PaidProposedCommitted
  BY DEF RoundRespected, GoesRound, InTurn, Places, PaidProposedCommitted, LifecycleBefore
<1> QED  BY <1>1, <1>2, <1>3, PTL DEF PurgeSpec

-----------------------------------------------------------------------------
(* The purges empty the queues.                                            *)

\* A SELECT of the oldest rows returns none exactly when there are none.
LEMMA NothingRead ==
    ASSUME NEW S, NEW q \in Queue(S)
    PROVE  /\ FetchRows(q) \in Seq(RowOf(S))
           /\ FetchRows(q) = <<>> <=> q = <<>>
           /\ q # <<>> => Len(FetchRows(q)) # 0
<1>1. q \in Seq(RowOf(S))
  BY DEF Queue
<1>2. 0 \in 0..Len(FetchRows(q))
  BY <1>1, FetchLimitAssumption DEF FetchRows
<1>3. /\ Len(FetchRows(q)) \in Nat /\ Len(FetchRows(q)) <= Len(q)
      /\ FetchRows(q) \in Seq(RowOf(S))
      /\ (Len(q) # 0 => Len(FetchRows(q)) # 0)
  BY <1>2, DeletedRows
<1>4. (FetchRows(q) = <<>> <=> Len(FetchRows(q)) = 0) /\ (q = <<>> <=> Len(q) = 0)
  BY <1>1, <1>3
<1> QED  BY <1>1, <1>3, <1>4

MainDrained ==
    mcPurge = -1 => mainchainDb.FirstQueue = <<>> /\ mainchainDb.SecondQueue = <<>>

SideDrained ==
    scPurge.state = "ended" => sidechainDb.FirstQueue = <<>>

\* The row of a round of mainchain-purge leaves the queues alone.
LEMMA PurgeRowAdded ==
    ASSUME LedgerTyped, NEW added, added = InsertIntoMainChainRoundTable(mainchainDb, mcPurge, -1)
    PROVE  /\ added.FirstQueue = mainchainDb.FirstQueue
           /\ added.SecondQueue = mainchainDb.SecondQueue
           /\ mainchainDb.FirstQueue \in Queue(TxSet) /\ mainchainDb.SecondQueue \in Queue(PaySet)
           /\ NothingQueued(added) <=>
                 mainchainDb.FirstQueue = <<>> /\ mainchainDb.SecondQueue = <<>>
<1>1. /\ added.FirstQueue = mainchainDb.FirstQueue /\ added.SecondQueue = mainchainDb.SecondQueue
      /\ mainchainDb.FirstQueue \in Queue(TxSet) /\ mainchainDb.SecondQueue \in Queue(PaySet)
  BY DEF InsertIntoMainChainRoundTable, LedgerTyped, MainTyped, MainShape
<1>2. /\ FetchRows(mainchainDb.FirstQueue) = <<>> <=> mainchainDb.FirstQueue = <<>>
      /\ FetchRows(mainchainDb.SecondQueue) = <<>> <=> mainchainDb.SecondQueue = <<>>
  BY <1>1, NothingRead
<1> QED  BY <1>1, <1>2 DEF NothingQueued, MainChainGetFirstQueue, MainChainGetSecondQueue

\* mainchain-purge ends in a round that finds both queues empty.
LEMMA MainDrainedStep ==
    ASSUME LedgerTyped, MainDrained, [PurgeNext]_<<vars, purgeVars>>
    PROVE  MainDrained'
<1>1. ASSUME MainPurgeRound PROVE MainDrained'
  <2> DEFINE added == InsertIntoMainChainRoundTable(mainchainDb, mcPurge, -1)
  <2>1. /\ mcPurge > 0
        /\ IF NothingQueued(added) THEN mainchainDb' = added /\ mcPurge' = -1 /\ blocks' = blocks
           ELSE mcPurge' = mcPurge + 1 /\ \E b, n : PurgeRoundDone(b, n)
    BY <1>1, PurgeRounds DEF MainPurgeRound
  <2>2. /\ added.FirstQueue = mainchainDb.FirstQueue /\ added.SecondQueue = mainchainDb.SecondQueue
        /\ NothingQueued(added) =>
              mainchainDb.FirstQueue = <<>> /\ mainchainDb.SecondQueue = <<>>
    BY PurgeRowAdded
  <2> HIDE DEF added
  <2>3. mcPurge \in Nat \cup {-1}
    BY DEF LedgerTyped
  <2>4. CASE NothingQueued(added)
    BY <2>1, <2>2, <2>4 DEF MainDrained
  <2>5. CASE ~NothingQueued(added)
    <3>1. mcPurge' = mcPurge + 1 /\ mcPurge > 0
      BY <2>1, <2>5
    <3> QED  BY <2>3, <3>1 DEF MainDrained
  <2> QED  BY <2>4, <2>5
<1>2. ASSUME mcPurge = 0, UNCHANGED purgeVars PROVE MainDrained'
  BY <1>2 DEF MainDrained, purgeVars
<1>3. ASSUME StartMainPurge PROVE MainDrained'
  <2>1. mcPurge' = conf.SimulationRounds + 1 /\ conf.SimulationRounds \in Nat
    BY <1>3, ConfIsSound DEF StartMainPurge, LedgerTyped
  <2> QED  BY <2>1 DEF MainDrained
<1>4. ASSUME UNCHANGED <<mainchainDb, mcPurge>> PROVE MainDrained'
  BY <1>4 DEF MainDrained
<1>5. StartSidePurge \/ SidePurgeSummary \/ SidePurgeRound \/ UNCHANGED <<vars, purgeVars>>
        => UNCHANGED <<mainchainDb, mcPurge>>
  BY DEF StartSidePurge, SidePurgeSummary, SidePurgeRound, vars, purgeVars
<1> QED  BY <1>1, <1>2, <1>3, <1>4, <1>5 DEF PurgeNext

\* sidechain-purge ends in a round that finds the queue empty.
LEMMA SideDrainedStep ==
    ASSUME LedgerTyped, SideDrained, [PurgeNext]_<<vars, purgeVars>>
    PROVE  SideDrained'
<1>1. ASSUME SidePurgeRound PROVE SideDrained'
  <2>1. PICK txs, n :
           /\ PoRsLeft(txs, n)
           /\ scPurge'.state = IF sidechainDb.FirstQueue = <<>> THEN "ended" ELSE "running"
    BY <1>1, SidePurgeRounds
  <2>2. SUFFICES ASSUME sidechainDb.FirstQueue = <<>> PROVE sidechainDb'.FirstQueue = <<>>
    BY <2>1 DEF SideDrained
  <2>3. /\ Len(sidechainDb'.FirstQueue) = Len(sidechainDb.FirstQueue) - Len(txs)
        /\ Len(txs) \in Nat
    BY <2>1, PoRsGone
  <2>4. sidechainDb'.FirstQueue \in Seq(RowOf(PoRSet))
    BY <2>1 DEF PoRsLeft, SideTyped, Queue
  <2>5. Len(sidechainDb.FirstQueue) = 0
    BY <2>2
  <2>6. Len(sidechainDb'.FirstQueue) \in Nat
    BY <2>4
  <2>7. Len(sidechainDb'.FirstQueue) = 0
    BY <2>3, <2>5, <2>6
  <2> QED  BY <2>4, <2>7
<1>2. ASSUME scPurge.state = "idle", UNCHANGED purgeVars PROVE SideDrained'
  BY <1>2 DEF SideDrained, purgeVars
<1>3. ASSUME StartSidePurge PROVE SideDrained'
  BY <1>3 DEF SideDrained, StartSidePurge
<1>4. ASSUME SidePurgeSummary PROVE SideDrained'
  <2>1. scPurge' = SidePurgeNext("running")
    BY <1>4 DEF SidePurgeSummary
  <2>2. scPurge'.state = "running"
    BY <2>1 DEF SidePurgeNext, LedgerTyped
  <2> QED  BY <2>2 DEF SideDrained
<1>5. ASSUME UNCHANGED <<sidechainDb, scPurge>> PROVE SideDrained'
  BY <1>5 DEF SideDrained
<1>6. StartMainPurge \/ MainPurgeRound \/ UNCHANGED <<vars, purgeVars>>
        => UNCHANGED <<sidechainDb, scPurge>>
  BY DEF StartMainPurge, MainPurgeRound, vars, purgeVars
<1> QED  BY <1>1, <1>2, <1>3, <1>4, <1>5, <1>6 DEF PurgeNext

\* The PoRs in side chain blocks.
Lens(bs) == Total([i \in 1..Len(bs) |-> Len(bs[i])])

LEMMA LensMore ==
    ASSUME NEW bs \in Seq(Seq(PoRSet)), NEW b \in Seq(PoRSet)
    PROVE  Lens(bs) \in Int /\ Lens(Append(bs, b)) = Lens(bs) + Len(b)
<1> DEFINE s == [i \in 1..Len(bs) |-> Len(bs[i])]
           c == Append(bs, b)
           t == [i \in 1..Len(c) |-> Len(c[i])]
<1>1. /\ Len(bs) \in Nat /\ Len(c) = Len(bs) + 1 /\ c[Len(bs) + 1] = b
      /\ \A i \in 1..Len(bs) : c[i] = bs[i] /\ Len(bs[i]) \in Int
  OBVIOUS
<1>2. Len(b) \in Int
  OBVIOUS
<1>3. s \in Seq(Int) /\ Len(s) = Len(bs) /\ \A i \in 1..Len(bs) : s[i] = Len(c[i])
  BY <1>1
<1> HIDE DEF s, c
<1>4. Append(s, Len(b)) \in Seq(Int)
  BY <1>2, <1>3
<1>5. Len(t) = Len(bs) + 1 /\ t \in Seq(Int)
  <2>1. \A i \in 1..Len(c) : Len(c[i]) \in Int
    <3> TAKE i \in 1..Len(c)
    <3>1. i \in 1..Len(bs) \/ i = Len(bs) + 1
      BY <1>1
    <3> QED  BY <1>1, <1>2, <3>1
  <2> QED  BY <1>1, <2>1
<1>6. t = Append(s, Len(b))
  <2>1. \A i \in 1..Len(t) : t[i] = Append(s, Len(b))[i]
    <3> TAKE i \in 1..Len(t)
    <3>1. t[i] = Len(c[i]) /\ (i \in 1..Len(bs) \/ i = Len(bs) + 1)
      BY <1>1, <1>5
    <3> QED  BY <1>1, <1>2, <1>3, <3>1
  <2>2. Len(Append(s, Len(b))) = Len(t)
    BY <1>3, <1>5
  <2> HIDE DEF t
  <2> QED  BY <1>4, <1>5, <2>1, <2>2, SameSeq
<1>7. Total(s) \in Int
  BY <1>3, TotalStep
<1>8. Total(Append(s, Len(b))) = Total(s) + Len(b)
  BY <1>2, <1>3, TotalAppend
<1> QED  BY <1>6, <1>7, <1>8 DEF Lens, s, c

\* A PoR that was issued is a main chain transaction, in a side chain block or
\* in the side chain's queue.
PoRsBlocked ==
    porIssued = CountPoRs(issued) + Lens(scBlocks) + Len(sidechainDb.FirstQueue)

LEMMA PoRsBlockedStep ==
    ASSUME LedgerTyped, PoRsBlocked, [PurgeNext]_<<vars, purgeVars>>
    PROVE  PoRsBlocked'
<1> DEFINE c == CountPoRs(issued)
           l == Lens(scBlocks)
           k == Len(sidechainDb.FirstQueue)
<1>1. /\ c \in Int /\ k \in Nat /\ porIssued \in Int /\ scBlocks \in Seq(Seq(PoRSet))
  BY PoRNumbers DEF LedgerTyped
<1>2. l \in Int /\ \A txs \in Seq(PoRSet) : Lens(Append(scBlocks, txs)) = l + Len(txs)
  <2>1. <<>> \in Seq(PoRSet)
    OBVIOUS
  <2> QED  BY <1>1, <2>1, LensMore
<1>3. porIssued = c + l + k
  BY DEF PoRsBlocked
<1>4. /\ CountPoRs(issued)' = CountPoRs(issued') /\ Lens(scBlocks)' = Lens(scBlocks')
      /\ Len(sidechainDb.FirstQueue)' = Len(sidechainDb'.FirstQueue)
  BY DEF CountPoRs, Lens, Total
<1>5. SUFFICES porIssued' = CountPoRs(issued') + Lens(scBlocks') + Len(sidechainDb'.FirstQueue)
  BY <1>4 DEF PoRsBlocked
<1>6. ASSUME EmptyBlock \/ FullBlock
      PROVE  porIssued' = CountPoRs(issued') + Lens(scBlocks') + Len(sidechainDb'.FirstQueue)
  <2>1. PICK d \in Nat, e \in Nat :
           /\ CountPoRs(issued') = c + d
           /\ Len(sidechainDb'.FirstQueue) = k + e
           /\ porIssued' = porIssued + (d + e)
    BY <1>6, PoRsIssued
  <2>2. Lens(scBlocks') = l
    BY <1>6 DEF EmptyBlock, FullBlock, CollectRest
  <2> HIDE DEF c, l, k
  <2> QED  BY <1>1, <1>2, <1>3, <2>1, <2>2
<1>7. ASSUME NEW txs, NEW n, PoRsLeft(txs, n), UNCHANGED <<issued, porIssued>>
      PROVE  porIssued' = CountPoRs(issued') + Lens(scBlocks') + Len(sidechainDb'.FirstQueue)
  <2>1. /\ Len(sidechainDb'.FirstQueue) = k - Len(txs)
        /\ Len(txs) \in Nat /\ txs \in Seq(PoRSet) /\ scBlocks' = Append(scBlocks, txs)
    BY <1>7, PoRsGone DEF PoRsLeft
  <2>2. Lens(scBlocks') = l + Len(txs) /\ CountPoRs(issued') = c /\ porIssued' = porIssued
    BY <1>2, <1>7, <2>1
  <2> HIDE DEF c, l, k
  <2> QED  BY <1>1, <1>2, <1>3, <2>1, <2>2
<1>8. ASSUME CountPoRs(issued') = CountPoRs(issued), porIssued' = porIssued,
             sidechainDb'.FirstQueue = sidechainDb.FirstQueue,
             scBlocks' = scBlocks \/ scBlocks' = Append(scBlocks, <<>>)
      PROVE  porIssued' = CountPoRs(issued') + Lens(scBlocks') + Len(sidechainDb'.FirstQueue)
  <2>1. <<>> \in Seq(PoRSet) /\ Len(<<>>) = 0
    OBVIOUS
  <2>2. Lens(scBlocks') = l
    <3>1. CASE scBlocks' = scBlocks
      BY <3>1
    <3>2. CASE scBlocks' = Append(scBlocks, <<>>)
      <4>1. Lens(scBlocks') = l + Len(<<>>)
        BY <1>2, <2>1, <3>2
      <4> QED  BY <1>2, <2>1, <4>1
    <3> QED  BY <1>8, <3>1, <3>2
  <2> QED  BY <1>3, <1>8, <2>2
<1>9. CASE MetaBlock
  BY <1>7, <1>9, MetaBlocks DEF MetaBlock
<1>10. CASE SidePurgeRound
  BY <1>7, <1>10, SidePurgeRounds DEF SidePurgeRound
<1>11. CASE SummaryBlock
  <2>1. CountPoRs(issued') = CountPoRs(issued)
    BY <1>11, SummaryHasNoPoRs
  <2>2. sidechainDb'.FirstQueue = sidechainDb.FirstQueue
    BY <1>11, SummaryDone DEF RowReady
  <2> QED  BY <1>8, <1>11, <2>1, <2>2 DEF SummaryBlock
<1>12. CASE SidePurgeSummary
  <2>1. sidechainDb'.FirstQueue = sidechainDb.FirstQueue
    BY <1>12, SidePurgeSummaryTyped DEF RowReady
  <2> QED  BY <1>8, <1>12, <2>1 DEF SidePurgeSummary
<1>13. CASE StartSidePurge
  <2>1. sidechainDb'.FirstQueue = sidechainDb.FirstQueue
    BY <1>13, SideEnded DEF StartSidePurge, LedgerTyped
  <2> QED  BY <1>8, <1>13, <2>1 DEF StartSidePurge
<1>14. CASE CrashWithoutPower \/ StartMainPurge \/ MainPurgeRound \/ UNCHANGED <<vars, purgeVars>>
  BY <1>8, <1>14 DEF CrashWithoutPower, StartMainPurge, MainPurgeRound, vars
<1> QED  BY <1>6, <1>9, <1>10, <1>11, <1>12, <1>13, <1>14 DEF PurgeNext, Next

LEMMA PoRsBlockedAtFirst ==
    ASSUME PurgeInit
    PROVE  PoRsBlocked
<1>1. /\ issued = <<>> /\ scBlocks = <<>> /\ porIssued = 0
      /\ sidechainDb = InitalizeSideChainDbTables
  BY DEF PurgeInit, Init
<1>2. Len(sidechainDb.FirstQueue) = 0
  BY <1>1 DEF InitalizeSideChainDbTables
<1>3. CountPoRs(issued) = 0
  <2>1. {i \in 1..Len(<<>>) : <<>>[i].name = "TxPor"} = {}
    OBVIOUS
  <2> QED  BY <1>1, <2>1, FS_EmptySet DEF CountPoRs
<1>4. Lens(scBlocks) = 0
  <2>1. [i \in 1..Len(<<>>) |-> Len(<<>>[i])] = <<>>
    OBVIOUS
  <2> QED  BY <1>1, <2>1, TotalOfNone DEF Lens
<1> QED  BY <1>1, <1>2, <1>3, <1>4 DEF PoRsBlocked

\* With an empty queue, the main chain holds what was issued.
LEMMA AllOnChain ==
    ASSUME LedgerTyped, FirstInFirstOut, mainchainDb.FirstQueue = <<>>
    PROVE  OnChain = issued
<1>1. Queued(<<>>) = <<>>
  BY DEF Queued
<1>2. OnChain \in Seq(TxSet)
  <2>1. TxsOf(blocks) \in Seq(Seq(TxSet))
    <3>1. \A z \in BlockSet : z.txs \in Seq(TxSet)
      BY DEF BlockSet
    <3> QED  BY <3>1 DEF TxsOf, LedgerTyped
  <2>2. <<>> \in Seq(TxSet)
    OBVIOUS
  <2> QED  BY <2>1, <2>2, FlattenAppend DEF OnChain, TxsOf
<1>3. OnChain \o <<>> = issued
  BY <1>1 DEF FirstInFirstOut
<1> HIDE DEF OnChain
<1>4. OnChain \o <<>> = OnChain
  BY <1>2
<1> QED  BY <1>3, <1>4

\* The two purge programs leave nothing behind: when mainchain-purge ends,
\* the blocks hold every transaction that was issued and no payment waits;
\* when sidechain-purge ends, its blocks hold every PoR that the side chain
\* was sent (the loops end in a round that finds the queues empty,
\* mainchain-purge/main.go:174; sidechain-purge/main.go:64).
THEOREM PurgesLeaveNothing == PurgeSpec => []LeavesNothing
<1> DEFINE Inv == /\ LedgerTyped /\ FirstInFirstOut /\ PoRsBlocked
                  /\ MainDrained /\ SideDrained
<1>1. PurgeInit => Inv
  <2>1. PurgeInit => MainDrained /\ SideDrained
    BY DEF PurgeInit, MainDrained, SideDrained
  <2> QED  BY <2>1, InitTyped, FifoAtFirst, PoRsBlockedAtFirst
<1>2. Inv /\ [PurgeNext]_<<vars, purgeVars>> => Inv'
  BY StepTyped, FifoStep, PoRsBlockedStep, MainDrainedStep, SideDrainedStep
<1>3. Inv => LeavesNothing
  <2> SUFFICES ASSUME Inv PROVE LeavesNothing
    OBVIOUS
  <2>1. mcPurge = -1 => OnChain = issued /\ mainchainDb.SecondQueue = <<>>
    BY AllOnChain DEF MainDrained
  <2> DEFINE sum == SumOver(scBlocks, LAMBDA b : Len(b))
  <2>2. ASSUME scPurge.state = "ended"
        PROVE  porIssued = CountPoRs(issued) + sum
    <3>1. Len(sidechainDb.FirstQueue) = 0
      BY <2>2 DEF SideDrained
    <3>2. sum = Lens(scBlocks)
      BY DEF SumOver, Lens
    <3>3. Lens(scBlocks) \in Int /\ CountPoRs(issued) \in Int
      <4>1. <<>> \in Seq(PoRSet)
        OBVIOUS
      <4> QED  BY <4>1, LensMore, PoRNumbers DEF LedgerTyped
    <3> HIDE DEF sum
    <3> QED  BY <3>1, <3>2, <3>3 DEF PoRsBlocked
  <2> QED  BY <2>1, <2>2 DEF LeavesNothing
<1> QED  BY <1>1, <1>2, <1>3, PTL DEF PurgeSpec

\* One transaction fits into a block of its own, and one payment into the
\* payments' share of a block.
RoomForOne ==
    \A e \in Experiments :
        /\ \A name \in TxNames : BlockMeasurement + TxSize[name] <= e.MainChainBlockSize
        /\ 100 * TxSize["TxPay"] <= PercentageTxPay * (e.MainChainBlockSize - BlockMeasurement)

\* What has room alone is taken.
LEMMA PaymentHasRoom ==
    ASSUME RoomForOne, conf \in Experiments, NEW q \in Queue(PaySet), q # <<>>
    PROVE  NumPayments(FetchRows(q)) # 0
<1> DEFINE rows == FetchRows(q)
           pay == TxSize["TxPay"]
           share == PercentageTxPay * (conf.MainChainBlockSize - BlockMeasurement)
<1>1. rows \in Seq(RowOf(PaySet)) /\ Len(rows) # 0
  BY NothingRead
<1>2. rows[1].tx.size = pay
  <2>1. rows[1] \in RowOf(PaySet)
    BY <1>1
  <2> HIDE DEF rows
  <2> QED  BY <2>1 DEF RowOf, PaySet
<1>3. pay \in Nat
  BY SizesAreNumbers
<1>4. share \in Int
  <2>1. conf.MainChainBlockSize \in Nat
    BY ConfIsSound
  <2>2. BlockMeasurement \in Nat
    BY SizesAreNumbers
  <2>3. PercentageTxPay \in 0..100
    BY PaymentsAssumption
  <2> DEFINE z == conf.MainChainBlockSize - BlockMeasurement
  <2>4. z \in Int /\ PercentageTxPay \in Int
    BY <2>1, <2>2, <2>3
  <2> HIDE DEF z
  <2>5. PercentageTxPay * z \in Int
    BY <2>4
  <2> QED  BY <2>5 DEF z
<1>5. 100 * pay <= share
  BY DEF RoomForOne
<1>6. \A t \in PaySet : t.size \in Int
  BY <1>3 DEF PaySet
<1> HIDE DEF rows, pay
<1>7. /\ 100 * rows[1].tx.size <= PercentageTxPay * (conf.MainChainBlockSize - BlockMeasurement)
      /\ 0 <= PercentageTxPay * (conf.MainChainBlockSize - BlockMeasurement)
  <2> HIDE DEF share
  <2>1. 100 * rows[1].tx.size <= share /\ 0 <= share
    BY <1>2, <1>3, <1>4, <1>5
  <2> QED  BY <2>1 DEF share
<1>8. NumPayments(rows) # 0
  BY <1>1, <1>6, <1>7, NumbersOfPayments
<1> QED  BY <1>8 DEF rows

LEMMA TransactionHasRoom ==
    ASSUME RoomForOne, conf \in Experiments, NEW q \in Queue(TxSet), q # <<>>
    PROVE  NumFitting(FetchRows(q), 0, otherTxsShare(0)) # 0
<1> DEFINE rows == FetchRows(q)
           share == otherTxsShare(0)
           size == rows[1].tx.size
<1>1. rows \in Seq(RowOf(TxSet)) /\ Len(rows) # 0
  BY NothingRead
<1>2. PICK name \in TxNames : size = TxSize[name]
  <2>1. rows[1] \in RowOf(TxSet)
    BY <1>1
  <2> HIDE DEF rows
  <2> QED  BY <2>1 DEF RowOf, TxSet, TxSizes
<1>3. size \in Nat /\ BlockMeasurement \in Nat
  BY <1>2, SizesAreNumbers
<1>4. BlockMeasurement + size <= conf.MainChainBlockSize
  BY <1>2 DEF RoomForOne
<1>5. conf.MainChainBlockSize \in Nat
  BY ConfIsSound
<1>6. share = conf.MainChainBlockSize - BlockMeasurement
  BY <1>3, <1>5 DEF otherTxsShare
<1> HIDE DEF share, size
<1>7. share \in Int /\ 0 + size <= share /\ 0 <= share
  BY <1>3, <1>4, <1>5, <1>6
<1> HIDE DEF rows
<1>8. NumFitting(rows, 0, share) # 0
  <2>1. \A t \in TxSet : t.size \in Int
    BY SizesOfTxs
  <2>2. 0 \in Int
    OBVIOUS
  <2> QED  BY <1>1, <1>7, <2>1, <2>2, NumbersFitting DEF size
<1> QED  BY <1>8 DEF rows, share

\* A round of mainchain-purge that finds something takes something.
LEMMA PurgeTakes ==
    ASSUME RoomForOne, LedgerTyped, MainPurgeRound, mcPurge' # -1
    PROVE  \E b \in BlockSet : blocks' = Append(blocks, b) /\ (b.txs # <<>> \/ b.pays > 0)
<1> DEFINE added == InsertIntoMainChainRoundTable(mainchainDb, mcPurge, -1)
           pay == TakePayments(added, mcPurge)
           first == TakeFirst(pay.db, 0, pay.size, mcPurge)
           b == [txs |-> [i \in 1..first.num |-> first.rows[i].tx], pays |-> pay.num,
                 syncs |-> <<>>, size |-> first.size + pay.size + BlockMeasurement]
           q == mainchainDb.FirstQueue
           r == mainchainDb.SecondQueue
<1>1. ~NothingQueued(added) /\ blocks' = Append(blocks, b)
  BY DEF MainPurgeRound
<1>2. /\ added.FirstQueue = q /\ added.SecondQueue = r
      /\ q \in Queue(TxSet) /\ r \in Queue(PaySet)
      /\ NothingQueued(added) <=> q = <<>> /\ r = <<>>
  BY PurgeRowAdded
<1>3. conf \in Experiments /\ mcPurge \in Int /\ MainTyped(added)
  <2> DEFINE seed == -1
  <2>1. conf \in Experiments /\ mcPurge \in Int /\ MainTyped(mainchainDb) /\ seed \in Int
    BY DEF LedgerTyped
  <2>2. added = InsertIntoMainChainRoundTable(mainchainDb, mcPurge, seed)
    OBVIOUS
  <2> HIDE DEF seed, added
  <2> QED  BY <2>1, <2>2, RowAdded
<1> HIDE DEF added
<1>4. /\ MainTyped(pay.db) /\ pay.db.FirstQueue = q
      /\ pay.num = NumPayments(FetchRows(r)) /\ pay.num \in Nat /\ pay.size \in Int
      /\ (pay.num = 0 => pay.size = 0)
  BY <1>2, <1>3, PaymentsTaken
<1>5. b \in BlockSet
  <2>1. \E c, n : PurgeRoundDone(c, n) /\ blocks' = Append(blocks, c)
    BY <1>1, PurgeRounds DEF added, PurgeRoundDone
  <2>2. \E c \in BlockSet : blocks' = Append(blocks, c)
    BY <2>1 DEF PurgeRoundDone, BlockFrom
  <2>3. PICK c \in BlockSet : Append(blocks, b) = Append(blocks, c)
    BY <1>1, <2>2
  <2> HIDE DEF b
  <2>4. blocks \in Seq(BlockSet) /\ Len(blocks) \in Nat
    BY DEF LedgerTyped
  <2>5. Append(blocks, b)[Len(blocks) + 1] = b /\ Append(blocks, c)[Len(blocks) + 1] = c
    BY <2>4
  <2> QED  BY <2>3, <2>5
<1>6. b.pays = pay.num /\ b.txs = [i \in 1..first.num |-> first.rows[i].tx]
  OBVIOUS
<1> HIDE DEF b, pay
<1>7. CASE r # <<>>
  <2>1. pay.num # 0
    BY <1>2, <1>3, <1>4, <1>7, PaymentHasRoom
  <2> QED  BY <1>1, <1>4, <1>5, <1>6, <2>1
<1>8. CASE r = <<>>
  <2>1. q # <<>>
    BY <1>1, <1>2, <1>8
  <2>2. pay.num = 0 => pay.size = 0
    BY <1>4
  <2>3. CASE pay.num # 0
    BY <1>1, <1>4, <1>5, <1>6, <2>3
  <2>4. CASE pay.num = 0
    <3>1. first = TakeFirst(pay.db, 0, 0, mcPurge)
      BY <2>2, <2>4
    <3>2. FirstLeft(TakeFirst(pay.db, 0, 0, mcPurge), pay.db, 0, 0, mcPurge)
      <4>1. 0 \in Int
        OBVIOUS
      <4> QED  BY <1>3, <1>4, <4>1, FirstTaken
    <3> HIDE DEF first
    <3>3. first.num = NumFitting(FetchRows(q), 0, otherTxsShare(0)) /\ first.num \in Nat
      BY <1>4, <3>1, <3>2 DEF FirstLeft
    <3>4. first.num # 0
      BY <1>2, <1>3, <2>1, <3>3, TransactionHasRoom
    <3>5. b.txs # <<>>
      <4>1. 1 \in DOMAIN b.txs
        BY <1>6, <3>3, <3>4
      <4> QED  BY <4>1
    <3> QED  BY <1>1, <1>5, <3>5
  <2> QED  BY <2>3, <2>4
<1> QED  BY <1>7, <1>8

\* The blocks of the simulation are not those of a purge.
LEMMA TakesSomethingStep ==
    ASSUME RoomForOne, LedgerTyped, TakesSomething, LedgerTyped', RoundsExact',
           [PurgeNext]_<<vars, purgeVars>>
    PROVE  TakesSomething'
<1>1. ASSUME UNCHANGED <<conf, blocks>> PROVE TakesSomething'
  BY <1>1 DEF TakesSomething
<1>2. ASSUME mcPurge = 0, UNCHANGED purgeVars PROVE TakesSomething'
  <2>1. Len(blocks') = MCRoundNumber' - 1
    BY <1>2 DEF RoundsExact, purgeVars
  <2>2. /\ MCRoundNumber' \in Nat /\ MCRoundNumber' <= conf'.SimulationRounds + 1
        /\ conf' \in Experiments
    BY DEF LedgerTyped
  <2>3. conf'.SimulationRounds \in Nat
    BY <2>2, ExperimentsAssumption
  <2>4. (conf'.SimulationRounds + 1)..Len(blocks') = {}
    BY <2>1, <2>2, <2>3
  <2> QED  BY <2>4 DEF TakesSomething
<1>3. ASSUME MainPurgeRound PROVE TakesSomething'
  <2>1. conf' = conf
    BY <1>3 DEF MainPurgeRound
  <2>2. CASE mcPurge' = -1
    <3> DEFINE added == InsertIntoMainChainRoundTable(mainchainDb, mcPurge, -1)
    <3>1. mcPurge \in Nat \cup {-1} /\ mcPurge > 0
      <4>1. mcPurge \in Nat \cup {-1}
        BY DEF LedgerTyped
      <4>2. mcPurge > 0
        BY <1>3 DEF MainPurgeRound
      <4> QED  BY <4>1, <4>2
    <3>2. mcPurge + 1 # -1
      BY <3>1
    <3>3. blocks' = blocks
      BY <1>3, <2>2, <3>2, PurgeRounds
    <3> QED  BY <1>1, <2>1, <3>3
  <2>3. CASE mcPurge' # -1
    <3>1. PICK b \in BlockSet : blocks' = Append(blocks, b) /\ (b.txs # <<>> \/ b.pays > 0)
      BY <1>3, <2>3, PurgeTakes
    <3>2. blocks \in Seq(BlockSet) /\ Len(blocks) \in Nat /\ conf.SimulationRounds \in Nat
      <4>1. blocks \in Seq(BlockSet) /\ conf \in Experiments
        BY DEF LedgerTyped
      <4> QED  BY <4>1, ConfIsSound
    <3>3. /\ Len(blocks') = Len(blocks) + 1 /\ blocks'[Len(blocks) + 1] = b
          /\ \A i \in 1..Len(blocks) : blocks'[i] = blocks[i]
      BY <3>1, <3>2
    <3> DEFINE R == conf.SimulationRounds
    <3>4. \A i \in (R + 1)..Len(blocks') : blocks'[i].txs # <<>> \/ blocks'[i].pays > 0
      <4> TAKE i \in (R + 1)..Len(blocks')
      <4> HIDE DEF R
      <4>1. R \in Nat
        BY <3>2 DEF R
      <4>2. i = Len(blocks) + 1 \/ (i \in 1..Len(blocks) /\ i \in (R + 1)..Len(blocks))
        BY <3>2, <3>3, <4>1
      <4>3. CASE i = Len(blocks) + 1
        BY <3>1, <3>3, <4>3
      <4>4. CASE i \in 1..Len(blocks) /\ i \in (R + 1)..Len(blocks)
        BY <3>3, <4>4 DEF TakesSomething, R
      <4> QED  BY <4>2, <4>3, <4>4
    <3> QED  BY <2>1, <3>4 DEF TakesSomething
  <2> QED  BY <2>2, <2>3
<1>4. StartMainPurge \/ StartSidePurge \/ SidePurgeSummary \/ SidePurgeRound
        \/ UNCHANGED <<vars, purgeVars>> => UNCHANGED <<conf, blocks>>
  BY DEF StartMainPurge, StartSidePurge, SidePurgeSummary, SidePurgeRound, vars
<1> QED  BY <1>1, <1>2, <1>3, <1>4 DEF PurgeNext

\* If a block has room for one transaction, every round of mainchain-purge but
\* the last takes something, so that the queues become empty, and both purges
\* end with everything in the blocks (mainchain-purge/main.go:174, 216;
\* sidechain-purge/main.go:64, 123; without room for one, the loop would make
\* empty blocks forever).
THEOREM PurgesDrain ==
    ASSUME RoomForOne
    PROVE  PurgeSpec => []PurgeDrains
<1> DEFINE Inv == LedgerTyped /\ RoundsExact /\ TakesSomething
<1>1. PurgeInit => Inv
  <2>1. ASSUME PurgeInit PROVE TakesSomething
    <3>1. blocks = <<>> /\ conf \in Experiments
      BY <2>1 DEF PurgeInit, Init
    <3>2. conf.SimulationRounds \in Nat
      BY <3>1, ConfIsSound
    <3>3. (conf.SimulationRounds + 1)..Len(blocks) = {}
      BY <3>1, <3>2
    <3> QED  BY <3>3 DEF TakesSomething
  <2> QED  BY <2>1, InitTyped, ExactAtFirst
<1>2. Inv /\ [PurgeNext]_<<vars, purgeVars>> => Inv'
  <2> SUFFICES ASSUME Inv, [PurgeNext]_<<vars, purgeVars>> PROVE Inv'
    OBVIOUS
  <2>1. LedgerTyped' /\ RoundsExact'
    BY StepTyped, ExactStep
  <2> QED  BY <2>1, TakesSomethingStep
<1>3. PurgeSpec => []TakesSomething
  <2>1. Inv => TakesSomething
    OBVIOUS
  <2> QED  BY <1>1, <1>2, <2>1, PTL DEF PurgeSpec
<1>4. TakesSomething /\ LeavesNothing => PurgeDrains
  BY DEF PurgeDrains
<1> QED  BY <1>3, <1>4, PurgesLeaveNothing, PTL


-----------------------------------------------------------------------------
(* The blocks fit.                                                         *)

\* A block that is appended is one that a round was closed with, which took
\* transactions only as far as the block had room for them.
LEMMA FitsStep ==
    ASSUME LedgerTyped, BlockFits, [PurgeNext]_<<vars, purgeVars>>
    PROVE  BlockFits'
<1>0. blocks \in Seq(BlockSet)
  BY DEF LedgerTyped
<1>1. ASSUME UNCHANGED <<conf, blocks>> PROVE BlockFits'
  BY <1>1 DEF BlockFits
<1>2. ASSUME NEW b, NotTooLarge(b), blocks' = Append(blocks, b), conf' = conf
      PROVE  BlockFits'
  <2>1. /\ Len(blocks') = Len(blocks) + 1 /\ Len(blocks) \in Nat
        /\ blocks'[Len(blocks) + 1] = b
        /\ \A i \in 1..Len(blocks) : blocks'[i] = blocks[i]
    BY <1>0, <1>2
  <2>2. SUFFICES ASSUME NEW i \in 1..Len(blocks') PROVE NotTooLarge(blocks'[i])
    BY <1>2 DEF BlockFits, NotTooLarge
  <2>3. CASE i = Len(blocks) + 1
    BY <1>2, <2>1, <2>3
  <2>4. CASE i \in 1..Len(blocks)
    BY <2>1, <2>4 DEF BlockFits, NotTooLarge
  <2> QED  BY <2>1, <2>3, <2>4
<1>3. ASSUME mcPurge = 0, EmptyBlock \/ FullBlock PROVE BlockFits'
  <2>1. PICK b, n : RoundClosed(b, n)
    BY <1>3, RoundCloses
  <2>2. NotTooLarge(b) /\ blocks' = Append(blocks, b)
    BY <2>1 DEF RoundClosed, BlockFrom
  <2>3. conf' = conf
    BY <1>3 DEF EmptyBlock, FullBlock, CollectRest
  <2> QED  BY <1>2, <2>2, <2>3
<1>4. ASSUME MainPurgeRound PROVE BlockFits'
  <2>1. conf' = conf
    BY <1>4 DEF MainPurgeRound
  <2> DEFINE added == InsertIntoMainChainRoundTable(mainchainDb, mcPurge, -1)
  <2>2. IF NothingQueued(added) THEN blocks' = blocks ELSE \E b, n : PurgeRoundDone(b, n)
    BY <1>4, PurgeRounds
  <2>3. CASE NothingQueued(added)
    BY <1>1, <2>1, <2>2, <2>3
  <2>4. CASE ~NothingQueued(added)
    <3>1. PICK b, n : PurgeRoundDone(b, n)
      BY <2>2, <2>4
    <3>2. NotTooLarge(b) /\ blocks' = Append(blocks, b)
      BY <3>1 DEF PurgeRoundDone, BlockFrom
    <3> QED  BY <1>2, <2>1, <3>2
  <2> QED  BY <2>3, <2>4
<1>5. SummaryBlock \/ MetaBlock \/ CrashWithoutPower \/ StartMainPurge \/ StartSidePurge
        \/ SidePurgeSummary \/ SidePurgeRound \/ UNCHANGED <<vars, purgeVars>>
        => UNCHANGED <<conf, blocks>>
  BY DEF SummaryBlock, MetaBlock, CrashWithoutPower, StartMainPurge, StartSidePurge,
         SidePurgeSummary, SidePurgeRound, vars
<1> QED  BY <1>1, <1>3, <1>4, <1>5 DEF PurgeNext, Next

\* No block is larger than MainChainBlockSize, except one without a
\* transaction of the first queue: the sync transaction is taken whatever its
\* size, and may fill what the regular payments left of the block and more
\* (MainChainBlockChain.go:449, 467, 499; the rounds of mainchain-purge take
\* their blocks with the same loops).
THEOREM BlocksFit == PurgeSpec => []BlockFits
<1>1. PurgeInit => LedgerTyped /\ BlockFits
  <2>1. ASSUME PurgeInit PROVE BlockFits
    <3>1. blocks = <<>>
      BY <2>1 DEF PurgeInit, Init
    <3> QED  BY <3>1 DEF BlockFits
  <2> QED  BY <2>1, InitTyped
<1>2. LedgerTyped /\ BlockFits /\ [PurgeNext]_<<vars, purgeVars>> => LedgerTyped' /\ BlockFits'
  BY StepTyped, FitsStep
<1> QED  BY <1>1, <1>2, PTL DEF PurgeSpec
=============================================================================
