----------------------------- MODULE Twm_proofs -----------------------------
(***************************************************************************)
(* Proofs about Twm, for any dbg_guvs and dummies, stacks of any size and  *)
(* any number of nodes, up to the first state where a fault shows.         *)
(***************************************************************************)
EXTENDS Twm, Integers, FiniteSetTheorems, SequenceTheorems, WellFoundedInduction, TLAPS

LEMMA Sizes == MaxChildren \in Nat /\ MaxChildren > 1 /\ MaxNodes \in Nat /\ MaxNodes > 0
BY TwmAssumption

LEMMA LeastNat ==
  ASSUME NEW S \in SUBSET Nat, S # {}
  PROVE  \E m \in S : \A k \in S : m <= k
<1>. DEFINE R == OpToRel(<, Nat)
<1>1. IsWellFoundedOn(R, Nat)
  BY NatLessThanWellFounded
<1>2. \A k, m \in Nat : k < m => <<k, m>> \in R
  BY DEF OpToRel
<1>. HIDE DEF R
<1>3. PICK m \in S : \A k \in S : ~ (<<k, m>> \in R)
  BY <1>1, WFMin, Zenon
<1>4. \A k \in S : ~ (k < m)
  BY <1>2, <1>3, Zenon
<1>5. \A k \in S : m <= k
  BY <1>4
<1>. QED  BY <1>5

(* Induction over the numbers, for the set of those a fact holds of. *)
LEMMA SetInduction ==
  ASSUME NEW S, 0 \in S, \A n \in Nat : n \in S => n + 1 \in S
  PROVE  \A n \in Nat : n \in S
<1>. SUFFICES ASSUME Nat \ S # {} PROVE FALSE
  OBVIOUS
<1>1. PICK m \in Nat \ S : \A k \in Nat \ S : m <= k
  BY LeastNat, Zenon
<1>2. m # 0 /\ m - 1 \in Nat
  BY <1>1
<1>3. m - 1 \in S
  BY <1>1, <1>2
<1>. QED  BY <1>1, <1>2, <1>3

-----------------------------------------------------------------------------
(* Iterate *)

(* What the recursive function of Iterate is, up to n turns. *)
Turns(A, f, n, g) ==
  /\ g \in [0 .. n -> [A -> A]]
  /\ \A i \in 0 .. n : \A y \in A :
       g[i][y] = IF i = 0 \/ f[y] = y THEN y ELSE g[i - 1][f[y]]

LEMMA TurnsExist ==
  ASSUME NEW A, NEW f \in [A -> A]
  PROVE  \A n \in Nat : \E g : Turns(A, f, n, g)
<1>. DEFINE S == {n \in Nat : \E g : Turns(A, f, n, g)}
<1>1. 0 \in S
  <2>. DEFINE g == [i \in 0 .. 0 |-> [y \in A |-> y]]
  <2>1. g \in [0 .. 0 -> [A -> A]] /\ \A y \in A : g[0][y] = y
    OBVIOUS
  <2>2. \A i \in 0 .. 0 : i = 0
    OBVIOUS
  <2>. HIDE DEF g
  <2>3. Turns(A, f, 0, g)
    BY <2>1, <2>2 DEF Turns
  <2>. QED  BY <2>3
<1>2. ASSUME NEW n \in Nat, n \in S PROVE n + 1 \in S
  <2>1. PICK g : Turns(A, f, n, g)
    BY <1>2
  <2>. DEFINE last == [y \in A |-> IF f[y] = y THEN y ELSE g[n][f[y]]]
              h == [i \in 0 .. n + 1 |-> IF i = n + 1 THEN last ELSE g[i]]
  <2>2. g[n] \in [A -> A]
    BY <2>1 DEF Turns
  <2>3. last \in [A -> A] /\ \A y \in A : last[y] = IF f[y] = y THEN y ELSE g[n][f[y]]
    BY <2>2
  <2>. HIDE DEF last
  <2>4. h \in [0 .. n + 1 -> [A -> A]]
    BY <2>1, <2>3 DEF Turns
  <2>5. h[n + 1] = last /\ \A i \in 0 .. n : h[i] = g[i]
    OBVIOUS
  <2>. HIDE DEF h
  <2>6. ASSUME NEW i \in 0 .. n + 1, NEW y \in A
        PROVE  h[i][y] = IF i = 0 \/ f[y] = y THEN y ELSE h[i - 1][f[y]]
    <3>1. CASE i = n + 1
      <4>1. h[i] = last /\ h[i - 1] = g[n]
        BY <2>5, <3>1
      <4>. QED  BY <2>3, <3>1, <4>1
    <3>2. CASE i # n + 1
      <4>1. i \in 0 .. n /\ h[i] = g[i]
        BY <2>5, <3>2
      <4>2. i # 0 => h[i - 1] = g[i - 1]
        BY <2>5, <4>1
      <4>. QED  BY <2>1, <4>1, <4>2 DEF Turns
    <3>. QED  BY <3>1, <3>2
  <2>7. Turns(A, f, n + 1, h)
    BY <2>4, <2>6 DEF Turns
  <2>. QED  BY <2>7
<1>3. \A n \in Nat : n \in S
  <2>. HIDE DEF S
  <2>. QED  BY <1>1, <1>2, SetInduction
<1>. QED  BY <1>3

LEMMA IterateIs ==
  ASSUME NEW A, NEW f \in [A -> A]
  PROVE  \E g : Turns(A, f, MaxNodes, g) /\ \A x : Iterate(f, x) = g[MaxNodes][x]
<1>. DEFINE F(g) == [i \in 0 .. MaxNodes |->
              [y \in DOMAIN f |-> IF i = 0 \/ f[y] = y THEN y ELSE g[i - 1][f[y]]]]
            turns == CHOOSE g : g = F(g)
<1>1. PICK g : Turns(A, f, MaxNodes, g)
  BY TurnsExist, Sizes
<1>2. DOMAIN f = A
  OBVIOUS
<1>3. g = F(g)
  <2>. DEFINE k == F(g)
  <2>1. DOMAIN g = 0 .. MaxNodes /\ DOMAIN k = 0 .. MaxNodes
    BY <1>1 DEF Turns
  <2>2. ASSUME NEW i \in 0 .. MaxNodes PROVE g[i] = k[i]
    <3>1. g[i] \in [A -> A]
      BY <1>1 DEF Turns
    <3>2. \A y \in A : g[i][y] = IF i = 0 \/ f[y] = y THEN y ELSE g[i - 1][f[y]]
      BY <1>1 DEF Turns
    <3>3. k[i] = [y \in A |-> IF i = 0 \/ f[y] = y THEN y ELSE g[i - 1][f[y]]]
      BY <1>2
    <3>. QED  BY <3>1, <3>2, <3>3
  <2>3. k = [i \in 0 .. MaxNodes |-> k[i]] /\ g = [i \in 0 .. MaxNodes |-> g[i]]
    BY <1>1 DEF Turns
  <2>. HIDE DEF k
  <2>4. g = k
    BY <2>2, <2>3
  <2>. QED  BY <2>4 DEF k
<1>4. turns = F(turns)
  <2>. HIDE DEF F
  <2>. QED  BY <1>3, Zenon
<1>5. \A x : Iterate(f, x) = turns[MaxNodes][x]
  BY DEF Iterate
<1>. HIDE DEF turns
<1>6. Turns(A, f, MaxNodes, turns)
  <2>. DEFINE S == {n \in Nat : n <= MaxNodes => turns[n] \in [A -> A]}
  <2>1. \A i \in 0 .. MaxNodes :
          turns[i] = [y \in A |-> IF i = 0 \/ f[y] = y THEN y ELSE turns[i - 1][f[y]]]
    BY <1>2, <1>4
  <2>2. 0 \in S
    <3>1. turns[0] = [y \in A |-> IF 0 = 0 \/ f[y] = y THEN y ELSE turns[0 - 1][f[y]]]
      BY <2>1, Sizes
    <3>. QED  BY <3>1
  <2>3. ASSUME NEW n \in Nat, n \in S PROVE n + 1 \in S
    <3>. SUFFICES ASSUME n + 1 <= MaxNodes PROVE turns[n + 1] \in [A -> A]
      OBVIOUS
    <3>1. n + 1 \in 0 .. MaxNodes /\ (n + 1) - 1 = n /\ n <= MaxNodes
      BY Sizes
    <3>2. turns[n] \in [A -> A]
      BY <2>3, <3>1
    <3>3. turns[n + 1] = [y \in A |-> IF n + 1 = 0 \/ f[y] = y THEN y ELSE turns[n][f[y]]]
      BY <2>1, <3>1
    <3>. QED  BY <3>2, <3>3
  <2>4. \A n \in Nat : n \in S
    <3>. HIDE DEF S
    <3>. QED  BY <2>2, <2>3, SetInduction
  <2>5. \A i \in 0 .. MaxNodes : turns[i] \in [A -> A]
    BY <2>4
  <2>6. turns = [i \in 0 .. MaxNodes |-> turns[i]]
    BY <1>4
  <2>7. turns \in [0 .. MaxNodes -> [A -> A]]
    BY <2>5, <2>6
  <2>. QED  BY <2>1, <2>7 DEF Turns
<1>. QED  BY <1>5, <1>6

(* What every turn keeps, the last keeps. *)
LEMMA IterateIn ==
  ASSUME NEW A, NEW f \in [A -> A], NEW I \in SUBSET A, NEW x \in I, \A y \in I : f[y] \in I
  PROVE  Iterate(f, x) \in I
<1>1. PICK g : Turns(A, f, MaxNodes, g) /\ \A z : Iterate(f, z) = g[MaxNodes][z]
  BY IterateIs
<1>. DEFINE S == {n \in Nat : n <= MaxNodes => \A y \in I : g[n][y] \in I}
<1>2. 0 \in S
  BY <1>1, Sizes DEF Turns
<1>3. ASSUME NEW n \in Nat, n \in S PROVE n + 1 \in S
  <2>. SUFFICES ASSUME n + 1 <= MaxNodes, NEW y \in I PROVE g[n + 1][y] \in I
    OBVIOUS
  <2>1. n + 1 \in 0 .. MaxNodes /\ (n + 1) - 1 = n /\ n <= MaxNodes
    BY Sizes
  <2>2. g[n + 1][y] = IF f[y] = y THEN y ELSE g[n][f[y]]
    BY <1>1, <2>1 DEF Turns
  <2>3. g[n][f[y]] \in I
    BY <1>3, <2>1
  <2>. QED  BY <2>2, <2>3
<1>4. \A n \in Nat : n \in S
  <2>. HIDE DEF S
  <2>. QED  BY <1>2, <1>3, SetInduction
<1>. QED  BY <1>1, <1>4, Sizes

LEMMA NodesFinite == IsFiniteSet(Node) /\ Cardinality(Node) = MaxNodes
BY FS_Interval, Sizes DEF Node

(* MaxNodes turns are enough if each that changes anything adds a node to  *)
(* what has been seen.                                                     *)
LEMMA IterateEnds ==
  ASSUME NEW A, NEW f \in [A -> A], NEW I \in SUBSET A, NEW x \in I, \A y \in I : f[y] \in I,
         NEW Seen \in [I -> SUBSET Node],
         \A y \in I : f[y] = y \/ (Seen[y] \subseteq Seen[f[y]] /\ Seen[y] # Seen[f[y]])
  PROVE  f[Iterate(f, x)] = Iterate(f, x)
<1>1. PICK g : Turns(A, f, MaxNodes, g) /\ \A z : Iterate(f, z) = g[MaxNodes][z]
  BY IterateIs
<1>. DEFINE N(y) == Cardinality(Seen[y])
            S == {i \in Nat : i <= MaxNodes =>
                   \A y \in I : g[i][y] \in I /\ (f[g[i][y]] = g[i][y] \/ N(g[i][y]) >= N(y) + i)}
<1>2. \A y \in I : N(y) \in Nat /\ N(y) <= MaxNodes
  BY NodesFinite, FS_Subset, FS_CardinalityType
<1>3. 0 \in S
  <2>1. \A y \in I : g[0][y] = y
    BY <1>1, Sizes DEF Turns
  <2>. QED  BY <1>2, <2>1
<1>4. ASSUME NEW i \in Nat, i \in S PROVE i + 1 \in S
  <2>. SUFFICES ASSUME i + 1 <= MaxNodes, NEW y \in I
                PROVE  /\ g[i + 1][y] \in I
                       /\ f[g[i + 1][y]] = g[i + 1][y] \/ N(g[i + 1][y]) >= N(y) + (i + 1)
    OBVIOUS
  <2>1. i + 1 \in 0 .. MaxNodes /\ (i + 1) - 1 = i /\ i <= MaxNodes
    BY Sizes
  <2>2. g[i + 1][y] = IF f[y] = y THEN y ELSE g[i][f[y]]
    BY <1>1, <2>1 DEF Turns
  <2>3. CASE f[y] = y
    BY <2>2, <2>3
  <2>4. CASE f[y] # y
    <3>1. f[y] \in I /\ Seen[y] \subseteq Seen[f[y]] /\ Seen[y] # Seen[f[y]] /\ Seen[f[y]] \in SUBSET Node
      BY <2>4
    <3>2. N(y) < N(f[y])
      <4>1. IsFiniteSet(Seen[f[y]])
        BY <3>1, NodesFinite, FS_Subset
      <4>2. N(y) <= N(f[y]) /\ (N(y) = N(f[y]) => Seen[y] = Seen[f[y]])
        BY <3>1, <4>1, FS_Subset
      <4>3. N(y) \in Nat /\ N(f[y]) \in Nat
        BY <1>2, <3>1
      <4>. HIDE DEF N
      <4>. QED  BY <3>1, <4>2, <4>3
    <3>3. g[i][f[y]] \in I /\ (f[g[i][f[y]]] = g[i][f[y]] \/ N(g[i][f[y]]) >= N(f[y]) + i)
      BY <1>4, <2>1, <3>1
    <3>4. N(y) \in Nat /\ N(f[y]) \in Nat /\ N(g[i][f[y]]) \in Nat
      BY <1>2, <3>1, <3>3
    <3>. HIDE DEF N
    <3>. QED  BY <2>2, <2>4, <3>2, <3>3, <3>4
  <2>. QED  BY <2>3, <2>4
<1>5. \A i \in Nat : i \in S
  <2>. HIDE DEF S
  <2>. QED  BY <1>3, <1>4, SetInduction
<1>. DEFINE y == Iterate(f, x)
<1>6. y \in I /\ (f[y] = y \/ N(y) >= N(x) + MaxNodes)
  BY <1>1, <1>5, Sizes
<1>7. CASE N(y) >= N(x) + MaxNodes
  <2>1. N(y) = MaxNodes
    BY <1>2, <1>6, <1>7, Sizes
  <2>. HIDE DEF y
  <2>2. Seen[y] = Node
    BY <1>6, <2>1, NodesFinite, FS_Subset
  <2>3. f[y] # y => Node \subseteq Seen[f[y]] /\ Seen[f[y]] # Node /\ Seen[f[y]] \in SUBSET Node
    BY <1>6, <2>2
  <2>. QED  BY <2>3 DEF y
<1>. QED  BY <1>6, <1>7

(* One turn is enough if the second changes nothing. *)
LEMMA IterateOnce ==
  ASSUME NEW A, NEW f \in [A -> A], NEW x \in A, f[f[x]] = f[x]
  PROVE  Iterate(f, x) = f[x]
<1>1. PICK g : Turns(A, f, MaxNodes, g) /\ \A z : Iterate(f, z) = g[MaxNodes][z]
  BY IterateIs
<1>2. MaxNodes \in 0 .. MaxNodes /\ MaxNodes - 1 \in 0 .. MaxNodes /\ MaxNodes # 0
  BY Sizes
<1>3. g[MaxNodes][x] = IF f[x] = x THEN x ELSE g[MaxNodes - 1][f[x]]
  BY <1>1, <1>2 DEF Turns
<1>4. g[MaxNodes - 1][f[x]] = f[x]
  BY <1>1, <1>2 DEF Turns
<1>. QED  BY <1>1, <1>3, <1>4

-----------------------------------------------------------------------------
(* Reach *)

(* What is reached is closed, and nothing more than has to be. *)
LEMMA ReachIs ==
  ASSUME NEW next \in [Node -> SUBSET Node], NEW from \in SUBSET Node
  PROVE  /\ Reach(next, from) \in SUBSET Node
         /\ from \subseteq Reach(next, from)
         /\ \A n \in Reach(next, from) : next[n] \subseteq Reach(next, from)
         /\ \A C \in SUBSET Node :
              from \subseteq C /\ (\A n \in C : next[n] \subseteq C) => Reach(next, from) \subseteq C
<1>. DEFINE f == [known \in SUBSET Node |-> known \cup UNION {next[n] : n \in known}]
<1>1. f \in [SUBSET Node -> SUBSET Node]
  OBVIOUS
<1>2. \A k \in SUBSET Node : f[k] = k \cup UNION {next[n] : n \in k}
  OBVIOUS
<1>3. Reach(next, from) = Iterate(f, from)
  BY DEF Reach
<1>. HIDE DEF f
<1>5. Iterate(f, from) \in SUBSET Node /\ from \subseteq Iterate(f, from)
  <2>. DEFINE I == {k \in SUBSET Node : from \subseteq k}
  <2>1. from \in I /\ \A k \in I : f[k] \in I
    BY <1>1, <1>2
  <2>2. Iterate(f, from) \in I
    <3>. HIDE DEF I
    <3>1. I \in SUBSET SUBSET Node
      BY DEF I
    <3>. QED  BY <1>1, <2>1, <3>1, IterateIn
  <2>. QED  BY <2>2
<1>6. ASSUME NEW C \in SUBSET Node, from \subseteq C, \A n \in C : next[n] \subseteq C
      PROVE  Iterate(f, from) \subseteq C
  <2>. DEFINE I == SUBSET C
  <2>1. from \in I /\ I \in SUBSET SUBSET Node /\ \A k \in I : f[k] \in I
    BY <1>2, <1>6
  <2>2. Iterate(f, from) \in I
    <3>. HIDE DEF I
    <3>. QED  BY <1>1, <2>1, IterateIn
  <2>. QED  BY <2>2
<1>7. f[Iterate(f, from)] = Iterate(f, from)
  <2>. DEFINE I == SUBSET Node
              Seen == [k \in I |-> k]
  <2>1. Seen \in [I -> SUBSET Node] /\ \A k \in I : Seen[k] = k
    OBVIOUS
  <2>2. \A k \in I : f[k] \in I /\ k \subseteq f[k]
    BY <1>1, <1>2
  <2>3. \A k \in I : f[k] = k \/ (Seen[k] \subseteq Seen[f[k]] /\ Seen[k] # Seen[f[k]])
    BY <2>1, <2>2
  <2>4. from \in I /\ I \in SUBSET SUBSET Node
    OBVIOUS
  <2>. HIDE DEF Seen, I
  <2>. QED  BY <1>1, <2>1, <2>2, <2>3, <2>4, IterateEnds
<1>8. \A n \in Iterate(f, from) : next[n] \subseteq Iterate(f, from)
  BY <1>2, <1>5, <1>7
<1>. QED  BY <1>3, <1>5, <1>6, <1>8

-----------------------------------------------------------------------------
(* Sequences without repetitions *)

LEMMA Joined ==
  ASSUME NEW S, NEW a \in Seq(S), NEW b \in Seq(S), NEW x \in Nat, NEW y \in Nat, x = Len(a), y = Len(b)
  PROVE  /\ a \o b \in Seq(S) /\ Len(a \o b) = x + y
         /\ \A i \in 1 .. x : (a \o b)[i] = a[i]
         /\ \A i \in 1 .. y : (a \o b)[x + i] = b[i]
OBVIOUS

LEMMA RemoveAtIs ==
  ASSUME NEW S, NEW s \in Seq(S), NEW k \in 1 .. Len(s), IsInjective(s)
  PROVE  /\ RemoveAt(s, k) \in Seq(S)
         /\ Len(RemoveAt(s, k)) = Len(s) - 1
         /\ ToSet(RemoveAt(s, k)) = ToSet(s) \ {s[k]}
         /\ IsInjective(RemoveAt(s, k))
<1>. DEFINE r == RemoveAt(s, k)
            a == SubSeq(s, 1, k - 1)
            b == SubSeq(s, k + 1, Len(s))
<1>1. PICK n \in Nat : n = Len(s)
  OBVIOUS
<1>2. DOMAIN s = 1 .. n /\ k \in 1 .. n
  BY <1>1
<1>3. /\ a \in Seq(S) /\ Len(a) = k - 1
      /\ \A i \in 1 .. k - 1 : a[i] = s[i]
  BY <1>1
<1>4. /\ b \in Seq(S) /\ Len(b) = n - k
      /\ \A i \in 1 .. n - k : b[i] = s[k + i]
  BY <1>1
<1>5. r = a \o b
  BY DEF RemoveAt
<1>. HIDE DEF a, b, r
<1>6. /\ r \in Seq(S) /\ Len(r) = n - 1
      /\ \A i \in 1 .. k - 1 : r[i] = a[i]
      /\ \A i \in 1 .. n - k : r[k - 1 + i] = b[i]
  <2>1. k - 1 \in Nat /\ n - k \in Nat /\ (k - 1) + (n - k) = n - 1
    BY <1>2
  <2>2. ASSUME NEW x \in Nat, NEW y \in Nat, x = Len(a), y = Len(b)
        PROVE  /\ a \o b \in Seq(S) /\ Len(a \o b) = x + y
               /\ \A i \in 1 .. x : (a \o b)[i] = a[i]
               /\ \A i \in 1 .. y : (a \o b)[x + i] = b[i]
    <3>1. a \in Seq(S) /\ b \in Seq(S)
      BY <1>3, <1>4
    <3>. QED  BY <2>2, <3>1, Joined
  <2>3. /\ r \in Seq(S) /\ Len(r) = (k - 1) + (n - k)
        /\ \A i \in 1 .. k - 1 : r[i] = a[i]
        /\ \A i \in 1 .. n - k : r[(k - 1) + i] = b[i]
    BY <1>3, <1>4, <1>5, <2>1, <2>2, Zenon
  <2>. QED  BY <2>1, <2>3
<1>7. \A i \in 1 .. n - 1 : r[i] = IF i < k THEN s[i] ELSE s[i + 1]
  <2>. TAKE i \in 1 .. n - 1
  <2>1. CASE i < k
    BY <1>2, <1>3, <1>6, <2>1
  <2>2. CASE i >= k
    <3>1. PICK j \in 1 .. n - k : j = i - (k - 1)
      BY <1>2, <2>2
    <3>2. k - 1 + j = i /\ k + j = i + 1
      BY <1>2, <3>1
    <3>3. r[k - 1 + j] = b[j] /\ b[j] = s[k + j]
      BY <1>4, <1>6
    <3>. QED  BY <2>2, <3>2, <3>3
  <2>. QED  BY <1>2, <2>1, <2>2
<1>8. \A i, j \in 1 .. n : s[i] = s[j] => i = j
  BY <1>2 DEF IsInjective
<1>9. DOMAIN r = 1 .. n - 1
  BY <1>6
<1>10. IsInjective(r)
  <2>1. ASSUME NEW i \in 1 .. n - 1, NEW j \in 1 .. n - 1, r[i] = r[j] PROVE i = j
    BY <1>2, <1>7, <1>8, <2>1
  <2>. QED  BY <1>9, <2>1 DEF IsInjective
<1>11. ToSet(r) = ToSet(s) \ {s[k]}
  <2>1. ASSUME NEW x \in ToSet(r) PROVE x \in ToSet(s) \ {s[k]}
    <3>1. PICK i \in 1 .. n - 1 : x = r[i]
      BY <1>9, <2>1 DEF ToSet
    <3>2. PICK j \in 1 .. n : j # k /\ x = s[j]
      BY <1>2, <1>7, <3>1
    <3>. QED  BY <1>2, <1>8, <3>2 DEF ToSet
  <2>2. ASSUME NEW x \in ToSet(s) \ {s[k]} PROVE x \in ToSet(r)
    <3>1. PICK j \in 1 .. n : x = s[j]
      BY <1>2, <2>2 DEF ToSet
    <3>2. j # k
      BY <2>2, <3>1
    <3>3. PICK i \in 1 .. n - 1 : i = IF j < k THEN j ELSE j - 1
      BY <1>2, <3>2
    <3>4. r[i] = s[j]
      BY <1>2, <1>7, <3>2, <3>3
    <3>. QED  BY <1>9, <3>1, <3>4 DEF ToSet
  <2>. QED  BY <2>1, <2>2
<1>. QED  BY <1>1, <1>6, <1>10, <1>11 DEF r

LEMMA InsertAtIs ==
  ASSUME NEW S, NEW s \in Seq(S), NEW k \in 1 .. Len(s) + 1, NEW e \in S,
         IsInjective(s), e \notin ToSet(s)
  PROVE  /\ InsertAt(s, k, e) \in Seq(S)
         /\ Len(InsertAt(s, k, e)) = Len(s) + 1
         /\ ToSet(InsertAt(s, k, e)) = ToSet(s) \cup {e}
         /\ IsInjective(InsertAt(s, k, e))
         /\ InsertAt(s, k, e)[k] = e
<1>. DEFINE r == InsertAt(s, k, e)
            a == SubSeq(s, 1, k - 1)
            b == SubSeq(s, k, Len(s))
<1>1. PICK n \in Nat : n = Len(s)
  OBVIOUS
<1>2. DOMAIN s = 1 .. n /\ k \in 1 .. n + 1
  BY <1>1
<1>3. /\ a \in Seq(S) /\ Len(a) = k - 1
      /\ \A i \in 1 .. k - 1 : a[i] = s[i]
  BY <1>1
<1>4. /\ b \in Seq(S) /\ Len(b) = n - k + 1
      /\ \A i \in 1 .. n - k + 1 : b[i] = s[k - 1 + i]
  BY <1>1
<1>5. r = (a \o <<e>>) \o b
  BY DEF InsertAt
<1>. HIDE DEF a, b, r
<1>6. /\ a \o <<e>> \in Seq(S) /\ Len(a \o <<e>>) = k /\ (a \o <<e>>)[k] = e
      /\ \A i \in 1 .. k - 1 : (a \o <<e>>)[i] = s[i]
  BY <1>2, <1>3
<1>7. /\ r \in Seq(S) /\ Len(r) = n + 1
      /\ \A i \in 1 .. k : r[i] = (a \o <<e>>)[i]
      /\ \A i \in 1 .. n - k + 1 : r[k + i] = b[i]
  <2>1. k \in Nat /\ n - k + 1 \in Nat /\ k + (n - k + 1) = n + 1
    BY <1>2
  <2>2. ASSUME NEW x \in Nat, NEW y \in Nat, x = Len(a \o <<e>>), y = Len(b)
        PROVE  /\ r \in Seq(S) /\ Len(r) = x + y
               /\ \A i \in 1 .. x : r[i] = (a \o <<e>>)[i]
               /\ \A i \in 1 .. y : r[x + i] = b[i]
    <3>. DEFINE c == a \o <<e>>
    <3>1. c \in Seq(S) /\ b \in Seq(S) /\ x = Len(c) /\ y = Len(b)
      BY <1>4, <1>6, <2>2
    <3>3. r = c \o b
      BY <1>5
    <3>. HIDE DEF c
    <3>2. /\ c \o b \in Seq(S) /\ Len(c \o b) = x + y
          /\ \A i \in 1 .. x : (c \o b)[i] = c[i]
          /\ \A i \in 1 .. y : (c \o b)[x + i] = b[i]
      BY <3>1, Joined
    <3>. QED  BY <3>2, <3>3 DEF c
  <2>3. /\ r \in Seq(S) /\ Len(r) = k + (n - k + 1)
        /\ \A i \in 1 .. k : r[i] = (a \o <<e>>)[i]
        /\ \A i \in 1 .. n - k + 1 : r[k + i] = b[i]
    BY <1>4, <1>6, <2>1, <2>2, Zenon
  <2>. QED  BY <2>1, <2>3
<1>8. \A i \in 1 .. n + 1 : r[i] = IF i < k THEN s[i] ELSE IF i = k THEN e ELSE s[i - 1]
  <2>. TAKE i \in 1 .. n + 1
  <2>1. CASE i <= k
    BY <1>2, <1>6, <1>7, <2>1
  <2>2. CASE i > k
    <3>1. PICK j \in 1 .. n - k + 1 : j = i - k
      BY <1>2, <2>2
    <3>2. k + j = i /\ k - 1 + j = i - 1
      BY <1>2, <3>1
    <3>3. r[k + j] = b[j] /\ b[j] = s[k - 1 + j]
      BY <1>4, <1>7
    <3>. QED  BY <1>2, <2>2, <3>2, <3>3
  <2>. QED  BY <1>2, <2>1, <2>2
<1>9. \A i, j \in 1 .. n : s[i] = s[j] => i = j
  BY <1>2 DEF IsInjective
<1>10. \A i \in 1 .. n : s[i] # e
  BY <1>2 DEF ToSet
<1>11. DOMAIN r = 1 .. n + 1
  BY <1>7
<1>12. IsInjective(r)
  <2>1. ASSUME NEW i \in 1 .. n + 1, NEW j \in 1 .. n + 1, r[i] = r[j] PROVE i = j
    BY <1>2, <1>8, <1>9, <1>10, <2>1
  <2>. QED  BY <1>11, <2>1 DEF IsInjective
<1>13. ToSet(r) = ToSet(s) \cup {e}
  <2>1. ASSUME NEW x \in ToSet(r) PROVE x \in ToSet(s) \cup {e}
    <3>1. PICK i \in 1 .. n + 1 : x = r[i]
      BY <1>11, <2>1 DEF ToSet
    <3>2. x = e \/ \E j \in 1 .. n : x = s[j]
      BY <1>2, <1>8, <3>1
    <3>. QED  BY <1>2, <3>2 DEF ToSet
  <2>2. ASSUME NEW x \in ToSet(s) PROVE x \in ToSet(r)
    <3>1. PICK j \in 1 .. n : x = s[j]
      BY <1>2, <2>2 DEF ToSet
    <3>2. PICK i \in 1 .. n + 1 : i = IF j < k THEN j ELSE j + 1
      BY <1>2
    <3>3. r[i] = s[j]
      BY <1>2, <1>8, <3>2
    <3>. QED  BY <1>11, <3>1, <3>3 DEF ToSet
  <2>3. e \in ToSet(r)
    <3>1. r[k] = e
      BY <1>2, <1>8
    <3>. QED  BY <1>2, <1>11, <3>1 DEF ToSet
  <2>. QED  BY <2>1, <2>2, <2>3
<1>14. r[k] = e
  BY <1>2, <1>8
<1>. QED  BY <1>1, <1>7, <1>12, <1>13, <1>14 DEF r

LEMMA OneKid ==
  ASSUME NEW S, NEW s \in Seq(S), Len(s) = 1
  PROVE  s[1] \in S /\ ToSet(s) = {s[1]}
<1>1. DOMAIN s = {1}
  OBVIOUS
<1>. QED  BY <1>1 DEF ToSet

LEMMA NoKids ==
  ASSUME NEW S, NEW s \in Seq(S)
  PROVE  /\ s = << >> <=> Len(s) = 0
         /\ s = << >> <=> ToSet(s) = {}
         /\ ToSet(s) \subseteq S
         /\ \A i \in 1 .. Len(s) : s[i] \in ToSet(s)
         /\ \A x \in ToSet(s) : \E i \in 1 .. Len(s) : s[i] = x
<1>1. DOMAIN s = 1 .. Len(s)
  OBVIOUS
<1>2. s = << >> <=> Len(s) = 0
  BY EmptySeq
<1>3. Len(s) # 0 => s[1] \in ToSet(s)
  BY <1>1 DEF ToSet
<1>4. Len(s) = 0 => ToSet(s) = {}
  BY <1>1 DEF ToSet
<1>5. ToSet(s) \subseteq S
  BY <1>1 DEF ToSet
<1>6. /\ \A i \in 1 .. Len(s) : s[i] \in ToSet(s)
      /\ \A x \in ToSet(s) : \E i \in 1 .. Len(s) : s[i] = x
  BY <1>1 DEF ToSet
<1>. QED  BY <1>2, <1>3, <1>4, <1>5, <1>6

-----------------------------------------------------------------------------
(* Trees *)

LEMMA NodeIs ==
  ASSUME NEW t \in Trees, NEW n \in Node
  PROVE  /\ Type(t, n) \in Stack \cup {"LEAF", "FREE"}
         /\ Parent(t, n) \in Node \cup {Null}
         /\ Kids(t, n) \in Seq(Node)
         /\ t.heap[n].item \in Item \cup {NoItem, Gone}
BY DEF Trees, Record, Type, Parent, Kids

LEMMA NullIsNoNode == Null \notin Node /\ Node \subseteq Nat /\ IsFiniteSet(Node)
BY NodesFinite DEF Null, Node

(* Exactly windows show an item. *)
Fit(t) == \A n \in Node : t.heap[n].item # NoItem <=> Type(t, n) = "LEAF"

(* The nodes S are a tree; d grows from a node to its children. *)
Good(t, S, d, n) ==
  /\ Type(t, n) \in Stack \cup {"LEAF"}
  /\ Type(t, n) = "LEAF" => Kids(t, n) = << >>
  /\ IsInjective(Kids(t, n)) /\ Len(Kids(t, n)) <= MaxChildren
  /\ \A c \in ToSet(Kids(t, n)) : c \in S /\ Parent(t, c) = n /\ d[n] < d[c]
Linked(t, S, n) == Parent(t, n) \in S /\ n \in ToSet(Kids(t, Parent(t, n)))

Tree(t, S, d) ==
  /\ S \in SUBSET Node /\ d \in [Node -> Nat]
  /\ t.head \in S /\ Parent(t, t.head) = Null
  /\ \A n \in S : Good(t, S, d, n)
  /\ \A n \in S \ {t.head} : Linked(t, S, n)

(* A stack has a child unless it is the head, and an only child is a       *)
(* window.                                                                 *)
Full(t, n) ==
  /\ Kids(t, n) = << >> => Type(t, n) = "LEAF" \/ n = t.head
  /\ Len(Kids(t, n)) = 1 => Type(t, Kids(t, n)[1]) = "LEAF"

(* The windows of S show different items. *)
Distinct(t, S) ==
  \A m, n \in S : /\ Type(t, m) = "LEAF" /\ Type(t, n) = "LEAF"
                  /\ t.heap[m].item = t.heap[n].item /\ t.heap[m].item # Gone
                  => m = n
Whole(t, S, d) == t \in Trees /\ Fit(t) /\ Tree(t, S, d) /\ \A n \in S : Full(t, n)

(* What the windows of S show. *)
Showing(t, S) == {t.heap[n].item : n \in {m \in S : Type(t, m) = "LEAF"}}

(* Whatever holds of the head and goes down to the children holds of S. *)
LEMMA Rooted ==
  ASSUME NEW t \in Trees, NEW S, NEW d, Tree(t, S, d),
         NEW C, t.head \in C, \A n \in S \cap C : ToSet(Kids(t, n)) \subseteq C
  PROVE  S \subseteq C
<1>. SUFFICES ASSUME S \ C # {} PROVE FALSE
  OBVIOUS
<1>. DEFINE D == {d[n] : n \in S \ C}
<1>1. D \in SUBSET Nat /\ D # {}
  BY DEF Tree
<1>2. PICK k \in D : \A j \in D : k <= j
  BY <1>1, LeastNat
<1>3. PICK n \in S \ C : k = d[n]
  BY <1>2
<1>4. Linked(t, S, n)
  BY <1>3 DEF Tree
<1>5. d[Parent(t, n)] < d[n] /\ Parent(t, n) \in S
  BY <1>4 DEF Tree, Good, Linked
<1>6. Parent(t, n) \notin C
  BY <1>3, <1>4 DEF Linked
<1>7. d[Parent(t, n)] \in D
  BY <1>5, <1>6
<1>. QED  BY <1>2, <1>3, <1>5, <1>7 DEF Tree

LEMMA BelowIs ==
  ASSUME NEW t \in Trees, NEW n \in Node
  PROVE  /\ Below(t, n) \in SUBSET Node /\ n \in Below(t, n)
         /\ \A m \in Below(t, n) : ToSet(Kids(t, m)) \subseteq Below(t, n)
         /\ \A C \in SUBSET Node :
              n \in C /\ (\A m \in C : ToSet(Kids(t, m)) \subseteq C) => Below(t, n) \subseteq C
<1>. DEFINE next == [m \in Node |-> ToSet(Kids(t, m))]
<1>1. \A m \in Node : ToSet(Kids(t, m)) \in SUBSET Node
  BY NodeIs, NoKids
<1>2. next \in [Node -> SUBSET Node] /\ \A m \in Node : next[m] = ToSet(Kids(t, m))
  BY <1>1
<1>3. Below(t, n) = Reach(next, {n})
  BY DEF Below
<1>. HIDE DEF next
<1>4. {n} \in SUBSET Node
  OBVIOUS
<1>5. /\ Reach(next, {n}) \in SUBSET Node /\ {n} \subseteq Reach(next, {n})
      /\ \A m \in Reach(next, {n}) : next[m] \subseteq Reach(next, {n})
      /\ \A C \in SUBSET Node :
           {n} \subseteq C /\ (\A m \in C : next[m] \subseteq C) => Reach(next, {n}) \subseteq C
  BY <1>2, <1>4, ReachIs
<1>6. ASSUME NEW C \in SUBSET Node, n \in C, \A m \in C : ToSet(Kids(t, m)) \subseteq C
      PROVE  Below(t, n) \subseteq C
  <2>1. {n} \subseteq C /\ \A m \in C : next[m] \subseteq C
    BY <1>2, <1>6
  <2>. QED  BY <1>3, <1>5, <2>1
<1>7. ASSUME NEW m \in Below(t, n) PROVE ToSet(Kids(t, m)) \subseteq Below(t, n)
  <2>1. m \in Reach(next, {n}) /\ m \in Node
    BY <1>3, <1>5, <1>7
  <2>2. next[m] \subseteq Reach(next, {n}) /\ next[m] = ToSet(Kids(t, m))
    BY <1>2, <1>5, <2>1
  <2>. QED  BY <1>3, <2>2
<1>. QED  BY <1>3, <1>5, <1>6, <1>7

(* In a tree: the subtree at n is closed upwards as far as n. *)
LEMMA Subtree ==
  ASSUME NEW t \in Trees, NEW S, NEW d, Tree(t, S, d), NEW n \in S
  PROVE  /\ Below(t, n) \subseteq S /\ n \in Below(t, n)
         /\ \A m \in Below(t, n) : ToSet(Kids(t, m)) \subseteq Below(t, n)
         /\ \A m \in Below(t, n) \ {n} : d[n] < d[m] /\ Parent(t, m) \in Below(t, n)
<1>1. n \in Node /\ S \in SUBSET Node
  BY DEF Tree
<1>2. Below(t, n) \subseteq S
  BY <1>1, BelowIs DEF Tree, Good
<1>. DEFINE C == {m \in Below(t, n) : m = n \/ (d[n] < d[m] /\ Parent(t, m) \in Below(t, n))}
<1>3. n \in C /\ C \in SUBSET Node
  BY <1>1, BelowIs
<1>4. ASSUME NEW m \in C, NEW c \in ToSet(Kids(t, m)) PROVE c \in C
  <2>1. m \in Below(t, n) /\ m \in S /\ c \in Below(t, n)
    BY <1>1, <1>2, BelowIs
  <2>2. Parent(t, c) = m /\ d[m] < d[c] /\ c \in S
    BY <2>1 DEF Tree, Good
  <2>3. d[n] \in Nat /\ d[m] \in Nat /\ d[c] \in Nat
    BY <1>1, <2>1, <2>2 DEF Tree
  <2>. QED  BY <2>1, <2>2, <2>3
<1>5. Below(t, n) \subseteq C
  <2>. HIDE DEF C
  <2>. QED  BY <1>1, <1>3, <1>4, BelowIs
<1>. QED  BY <1>1, <1>2, <1>5, BelowIs

LEMMA ShownIs ==
  ASSUME NEW t \in Trees, NEW S, NEW d, Tree(t, S, d)
  PROVE  Shown(t) = S
<1>1. t.head \in S /\ t.head # Null
  BY NullIsNoNode DEF Tree
<1>2. Below(t, t.head) \subseteq S
  BY <1>1, Subtree
<1>3. S \subseteq Below(t, t.head)
  BY <1>1, Subtree, Rooted
<1>. QED  BY <1>1, <1>2, <1>3 DEF Shown

LEMMA HeadHasKids ==
  ASSUME NEW t \in Trees, NEW S, NEW d, Tree(t, S, d), NEW n \in S, n # t.head
  PROVE  Kids(t, t.head) # << >>
<1>. SUFFICES ASSUME Kids(t, t.head) = << >> PROVE FALSE
  OBVIOUS
<1>1. ToSet(Kids(t, t.head)) = {}
  BY DEF ToSet
<1>2. S \subseteq {t.head}
  BY <1>1, Rooted
<1>. QED  BY <1>2

(* Subtrees are nested or apart. *)
LEMMA Nested ==
  ASSUME NEW t \in Trees, NEW n \in Node, NEW m \in Below(t, n)
  PROVE  Below(t, m) \subseteq Below(t, n)
<1>1. m \in Node
  BY BelowIs
<1>. QED  BY <1>1, BelowIs

LEMMA Apart ==
  ASSUME NEW t \in Trees, NEW S, NEW d, Tree(t, S, d), NEW p \in S,
         NEW a \in ToSet(Kids(t, p)), NEW b \in ToSet(Kids(t, p)), a # b
  PROVE  Below(t, a) \cap Below(t, b) = {}
<1>1. /\ S \in SUBSET Node /\ d \in [Node -> Nat]
      /\ a \in S /\ Parent(t, a) = p /\ d[p] < d[a]
      /\ b \in S /\ Parent(t, b) = p /\ d[p] < d[b]
  BY DEF Tree, Good
<1>. DEFINE A == Below(t, a)
            B == Below(t, b)
            C == A \cap B
            D == {d[m] : m \in C}
<1>2. /\ A \subseteq S /\ \A m \in A \ {a} : d[a] < d[m] /\ Parent(t, m) \in A
      /\ B \subseteq S /\ \A m \in B \ {b} : d[b] < d[m] /\ Parent(t, m) \in B
  BY <1>1, Subtree
<1>. HIDE DEF A, B
<1>. SUFFICES ASSUME C # {} PROVE FALSE
  BY DEF A, B
<1>3. D \in SUBSET Nat /\ D # {}
  BY <1>1, <1>2
<1>4. PICK k \in D : \A j \in D : k <= j
  BY <1>3, LeastNat
<1>5. PICK m \in C : k = d[m]
  BY <1>4
<1>6. p \notin A /\ p \notin B
  BY <1>1, <1>2
<1>7. m # a /\ m # b
  BY <1>1, <1>2, <1>5, <1>6
<1>8. Parent(t, m) \in C
  BY <1>2, <1>5, <1>7
<1>9. d[Parent(t, m)] < d[m]
  <2>1. m \in S /\ m # t.head
    BY <1>1, <1>2, <1>5, <1>8, NullIsNoNode DEF Tree
  <2>. QED  BY <2>1 DEF Tree, Linked, Good
<1>10. d[Parent(t, m)] \in D
  BY <1>8
<1>11. d[Parent(t, m)] \in Nat /\ d[m] \in Nat
  BY <1>1, <1>2, <1>5, <1>8
<1>. QED  BY <1>4, <1>5, <1>9, <1>10, <1>11

-----------------------------------------------------------------------------
(* Taking a node out *)

LEMMA RemoveAtSeq ==
  ASSUME NEW S, NEW s \in Seq(S), NEW k \in 1 .. Len(s)
  PROVE  RemoveAt(s, k) \in Seq(S)
BY DEF RemoveAt

LEMMA HeapIs ==
  ASSUME NEW t \in Trees, NEW h \in [Node -> Record]
  PROVE  /\ [t EXCEPT !.heap = h] \in Trees
         /\ [t EXCEPT !.heap = h].heap = h /\ [t EXCEPT !.heap = h].head = t.head
         /\ [t EXCEPT !.heap = h].focus = t.focus /\ [t EXCEPT !.heap = h].err = t.err
<1>. HIDE DEF Record
<1>. QED  BY DEF Trees

LEMMA CutIs ==
  ASSUME NEW t \in Trees, NEW p \in Node, NEW k \in 1 .. Len(Kids(t, p))
  PROVE  /\ Cut(t, p, k) \in Trees
         /\ Cut(t, p, k).head = t.head /\ Cut(t, p, k).focus = t.focus /\ Cut(t, p, k).err = t.err
         /\ \A m \in Node : /\ Type(Cut(t, p, k), m) = Type(t, m)
                            /\ Parent(Cut(t, p, k), m) = Parent(t, m)
                            /\ Cut(t, p, k).heap[m].item = t.heap[m].item
                            /\ m # p => /\ Kids(Cut(t, p, k), m) = Kids(t, m)
                                        /\ Cut(t, p, k).heap[m] = t.heap[m]
         /\ Kids(Cut(t, p, k), p) = RemoveAt(Kids(t, p), k)
<1>1. RemoveAt(Kids(t, p), k) \in Seq(Node)
  BY NodeIs, RemoveAtSeq
<1>. DEFINE s == RemoveAt(Kids(t, p), k)
            h == [t.heap EXCEPT ![p] = [t.heap[p] EXCEPT !.kids = s]]
            u == [t EXCEPT !.heap = h]
<1>2. Cut(t, p, k) = u
  BY DEF Cut, Kids
<1>. HIDE DEF s
<1>3. t.heap \in [Node -> Record]
  BY DEF Trees
<1>4. /\ h \in [Node -> Record]
      /\ \A m \in Node : /\ h[m].type = t.heap[m].type /\ h[m].parent = t.heap[m].parent
                         /\ h[m].item = t.heap[m].item
                         /\ m # p => h[m] = t.heap[m]
      /\ h[p].kids = s
  BY <1>1, <1>3 DEF Record, s
<1>. HIDE DEF h
<1>5. /\ u \in Trees /\ u.heap = h /\ u.head = t.head /\ u.focus = t.focus /\ u.err = t.err
  BY <1>4, HeapIs
<1>. HIDE DEF u
<1>6. \A m \in Node : /\ Type(u, m) = Type(t, m) /\ Parent(u, m) = Parent(t, m)
                     /\ u.heap[m].item = t.heap[m].item
  BY <1>4, <1>5 DEF Type, Parent
<1>7. Kids(u, p) = s
  BY <1>4, <1>5 DEF Kids
<1>8. ASSUME NEW m \in Node, m # p PROVE Kids(u, m) = Kids(t, m) /\ u.heap[m] = t.heap[m]
  BY <1>4, <1>5, <1>8 DEF Kids
<1>. QED  BY <1>2, <1>5, <1>6, <1>7, <1>8, Zenon DEF s

(* The subtree at n is cut off. *)
LEMMA Detached ==
  ASSUME NEW t \in Trees, NEW S, NEW d, Tree(t, S, d), NEW n \in S, n # t.head,
         NEW p, p = Parent(t, n), NEW k \in 1 .. Len(Kids(t, p)), Kids(t, p)[k] = n
  PROVE  Tree(Cut(t, p, k), S \ Below(t, n), d) /\ p \in S \ Below(t, n)
<1>. DEFINE u == Cut(t, p, k)
            B == Below(t, n)
<1>1. /\ p \in S /\ n \in ToSet(Kids(t, p)) /\ S \in SUBSET Node /\ d \in [Node -> Nat]
      /\ d[p] < d[n]
  BY DEF Tree, Linked, Good
<1>2. p \in Node /\ n \in Node /\ IsInjective(Kids(t, p)) /\ Kids(t, p) \in Seq(Node)
  BY <1>1, NodeIs DEF Tree, Good
<1>3. /\ u.head = t.head
      /\ \A m \in Node : /\ Type(u, m) = Type(t, m) /\ Parent(u, m) = Parent(t, m)
                         /\ m # p => Kids(u, m) = Kids(t, m)
      /\ Kids(u, p) = RemoveAt(Kids(t, p), k)
  BY <1>2, CutIs
<1>4. /\ Len(Kids(u, p)) = Len(Kids(t, p)) - 1 /\ IsInjective(Kids(u, p))
      /\ ToSet(Kids(u, p)) = ToSet(Kids(t, p)) \ {n}
  BY <1>2, <1>3, RemoveAtIs
<1>5. /\ B \subseteq S /\ n \in B
      /\ \A m \in B : ToSet(Kids(t, m)) \subseteq B
      /\ \A m \in B \ {n} : d[n] < d[m] /\ Parent(t, m) \in B
  BY Subtree
<1>. HIDE DEF u, B
<1>6. p \notin B
  BY <1>1, <1>5
<1>7. t.head \notin B
  BY <1>1, <1>5, NullIsNoNode DEF Tree
<1>8. ASSUME NEW m \in S \ B PROVE Good(u, S \ B, d, m)
  <2>1. Good(t, S, d, m) /\ m \in Node
    BY <1>1 DEF Tree
  <2>2. ToSet(Kids(u, m)) \subseteq ToSet(Kids(t, m)) \ {n}
    <3>1. CASE m = p
      BY <1>4, <3>1
    <3>2. CASE m # p
      <4>1. n \notin ToSet(Kids(t, m))
        BY <2>1, <3>2 DEF Good
      <4>. QED  BY <1>3, <2>1, <3>2, <4>1
    <3>. QED  BY <3>1, <3>2
  <2>3. ASSUME NEW c \in ToSet(Kids(u, m)) PROVE c \in S \ B /\ Parent(u, c) = m /\ d[m] < d[c]
    <3>1. c \in S /\ Parent(t, c) = m /\ d[m] < d[c] /\ c # n
      BY <2>1, <2>2 DEF Good
    <3>2. c \notin B
      BY <1>5, <3>1
    <3>. QED  BY <1>1, <1>3, <3>1, <3>2
  <2>4. IsInjective(Kids(u, m)) /\ Len(Kids(u, m)) <= MaxChildren
    <3>1. CASE m = p
      <4>1. PICK l \in Nat : l = Len(Kids(t, p))
        BY <1>2
      <4>2. l <= MaxChildren
        BY <2>1, <3>1, <4>1 DEF Good
      <4>. QED  BY <1>4, <3>1, <4>1, <4>2, Sizes
    <3>2. CASE m # p
      BY <1>3, <2>1, <3>2 DEF Good
    <3>. QED  BY <3>1, <3>2
  <2>5. Type(u, m) \in Stack \cup {"LEAF"}
    BY <1>3, <2>1 DEF Good
  <2>6. Type(u, m) = "LEAF" => Kids(u, m) = << >>
    <3>1. CASE m = p
      <4>1. Kids(t, p) # << >>
        BY <1>1, <1>2, NoKids
      <4>. QED  BY <1>3, <2>1, <3>1, <4>1 DEF Good
    <3>2. CASE m # p
      BY <1>3, <2>1, <3>2 DEF Good
    <3>. QED  BY <3>1, <3>2
  <2>. QED  BY <2>3, <2>4, <2>5, <2>6 DEF Good
<1>9. ASSUME NEW m \in (S \ B) \ {t.head} PROVE Linked(u, S \ B, m)
  <2>1. Parent(t, m) \in S /\ m \in ToSet(Kids(t, Parent(t, m))) /\ m # n /\ m \in Node
    BY <1>1, <1>5 DEF Tree, Linked
  <2>2. Parent(t, m) \notin B
    BY <1>5, <2>1
  <2>3. m \in ToSet(Kids(u, Parent(t, m)))
    BY <1>1, <1>3, <1>4, <2>1
  <2>. QED  BY <1>3, <2>1, <2>2, <2>3 DEF Linked
<1>10. u.head \in S \ B /\ Parent(u, u.head) = Null
  BY <1>1, <1>3, <1>7 DEF Tree
<1>11. Tree(u, S \ B, d)
  BY <1>1, <1>3, <1>8, <1>9, <1>10 DEF Tree
<1>. QED  BY <1>1, <1>6, <1>11 DEF u, B

LEMMA MergeIs ==
  ASSUME NEW t \in Trees, NEW p \in Node, NEW c \in Node, c = Kids(t, p)[1], c # p,
         p \notin ToSet(Kids(t, c)), c \notin ToSet(Kids(t, c))
  PROVE  /\ Merge(t, p) \in Trees
         /\ Merge(t, p).head = t.head /\ Merge(t, p).err = t.err
         /\ Merge(t, p).focus = IF t.focus = c THEN p ELSE t.focus
         /\ Merge(t, p).heap[p] = [t.heap[c] EXCEPT !.parent = t.heap[p].parent]
         /\ Merge(t, p).heap[c] = Freed
         /\ \A m \in Node \ {p, c} :
              Merge(t, p).heap[m] = IF m \in ToSet(Kids(t, c)) THEN [t.heap[m] EXCEPT !.parent = p]
                                    ELSE t.heap[m]
<1>. DEFINE K == ToSet(Kids(t, c))
            h == [n \in Node |-> CASE n = p -> [t.heap[c] EXCEPT !.parent = t.heap[p].parent]
                                   [] n = c -> Freed
                                   [] n \in K -> [t.heap[n] EXCEPT !.parent = p]
                                   [] OTHER -> t.heap[n]]
            u == [t EXCEPT !.heap = h]
<1>. HIDE DEF K
<1>1. t.heap \in [Node -> Record] /\ Freed \in Record
  BY DEF Trees, Record, Freed
<1>2. p \notin K /\ c \notin K
  BY DEF K
<1>3. h[p] = [t.heap[c] EXCEPT !.parent = t.heap[p].parent]
  BY <1>2
<1>4. h[c] = Freed
  BY <1>2
<1>5. \A m \in Node \ {p, c} :
         h[m] = IF m \in K THEN [t.heap[m] EXCEPT !.parent = p] ELSE t.heap[m]
  BY <1>2
<1>6. h \in [Node -> Record]
  <2>1. h = [n \in Node |-> h[n]]
    OBVIOUS
  <2>. HIDE DEF h
  <2>2. h[p] \in Record
    BY <1>1, <1>3 DEF Record
  <2>3. ASSUME NEW m \in Node \ {p, c} PROVE h[m] \in Record
    BY <1>1, <1>5, <2>3 DEF Record
  <2>. QED  BY <1>1, <1>4, <2>1, <2>2, <2>3
<1>7. Merge(t, p) = [u EXCEPT !.focus = IF t.focus = c THEN p ELSE t.focus]
  BY DEF Merge, K
<1>. HIDE DEF h
<1>8. u \in Trees /\ u.heap = h /\ u.head = t.head /\ u.focus = t.focus /\ u.err = t.err
  BY <1>6, HeapIs
<1>. DEFINE f == IF t.focus = c THEN p ELSE t.focus
            v == [u EXCEPT !.focus = f]
<1>9. f \in Node \cup {Null}
  BY DEF Trees
<1>. HIDE DEF u, f
<1>10. /\ v \in Trees /\ v.heap = u.heap /\ v.head = u.head /\ v.err = u.err /\ v.focus = f
  BY <1>8, <1>9 DEF Trees
<1>11. Merge(t, p) = v
  BY <1>7 DEF f
<1>. HIDE DEF v
<1>. QED  BY <1>3, <1>4, <1>5, <1>8, <1>10, <1>11 DEF K, f

LEMMA OkIs ==
  ASSUME NEW t \in Trees, NEW code \in Outcomes
  PROVE  /\ Fail(t, code) \in Trees /\ Ok(t) \in Trees
         /\ Fail(t, code).heap = t.heap /\ Fail(t, code).head = t.head
         /\ Fail(t, code).focus = t.focus /\ Fail(t, code).err = code
         /\ Ok(t).heap = t.heap /\ Ok(t).head = t.head
         /\ Ok(t).focus = t.focus /\ Ok(t).err = "SUCC"
BY DEF Fail, Ok, Trees, Outcomes

(* A tree is a matter of the heap and the head. *)
LEMMA SameTree ==
  ASSUME NEW t, NEW u, u.heap = t.heap, u.head = t.head, NEW S, NEW d
  PROVE  /\ Tree(u, S, d) <=> Tree(t, S, d)
         /\ Distinct(u, S) <=> Distinct(t, S)
         /\ Showing(u, S) = Showing(t, S)
         /\ Fit(u) <=> Fit(t)
         /\ \A n : Full(u, n) <=> Full(t, n)
BY DEF Tree, Distinct, Showing, Fit, Full, Good, Linked, Type, Kids, Parent

(* A stack with an only child becomes it. *)
LEMMA Merged ==
  ASSUME NEW t \in Trees, NEW S, NEW d, Tree(t, S, d), Fit(t), NEW a \in S, Type(t, a) \in Stack,
         Len(Kids(t, a)) = 1, \A n \in S \ {a} : Full(t, n)
  PROVE  LET u == Merge(t, a)
             c == Kids(t, a)[1]
         IN  /\ u \in Trees /\ Fit(u) /\ u.head = t.head
             /\ c \in S \ {a}
             /\ u.focus = IF t.focus = c THEN a ELSE t.focus
             /\ \A m \in Node \ S : u.heap[m] = t.heap[m]
             /\ Tree(u, S \ {c}, d)
             /\ \A n \in S \ {c} : Full(u, n)
             /\ Distinct(t, S) => Distinct(u, S \ {c})
             /\ Showing(u, S \ {c}) = Showing(t, S)
             /\ Type(u, c) = "FREE"
<1>. DEFINE u == Merge(t, a)
            c == Kids(t, a)[1]
            K == ToSet(Kids(t, c))
            S2 == S \ {c}
<1>1. /\ S \in SUBSET Node /\ d \in [Node -> Nat] /\ a \in Node /\ Good(t, S, d, a)
      /\ Kids(t, a) \in Seq(Node)
  BY NodeIs DEF Tree
<1>2. ToSet(Kids(t, a)) = {c}
  BY <1>1, OneKid
<1>3. c \in S /\ c \in Node /\ Parent(t, c) = a /\ d[a] < d[c] /\ c # a /\ Good(t, S, d, c)
  BY <1>1, <1>2 DEF Good, Tree
<1>4. c # t.head
  BY <1>1, <1>3, NullIsNoNode DEF Tree
<1>5. \A e \in K : e \in S /\ e \in Node /\ Parent(t, e) = c /\ d[c] < d[e] /\ e # c /\ e # a
  BY <1>1, <1>3 DEF Good
<1>21. a \notin K /\ c \notin K
  BY <1>5
<1>6. /\ u \in Trees /\ u.head = t.head
      /\ u.focus = IF t.focus = c THEN a ELSE t.focus
      /\ u.heap[a] = [t.heap[c] EXCEPT !.parent = t.heap[a].parent]
      /\ u.heap[c] = Freed
      /\ \A m \in Node \ {a, c} : u.heap[m] = IF m \in K THEN [t.heap[m] EXCEPT !.parent = a] ELSE t.heap[m]
  BY <1>1, <1>3, <1>21, MergeIs
<1>. HIDE DEF u, c, K
<1>7. \A m \in Node : t.heap[m] \in [type : Stack \cup {"LEAF", "FREE"}, parent : Node \cup {Null},
                    item : Item \cup {NoItem, Gone}, kids : Seq(Node)]
  BY DEF Trees, Record
<1>8. /\ Type(u, a) = Type(t, c) /\ Kids(u, a) = Kids(t, c) /\ Parent(u, a) = Parent(t, a)
      /\ u.heap[a].item = t.heap[c].item
  BY <1>1, <1>3, <1>6, <1>7 DEF Type, Kids, Parent
<1>9. \A m \in Node \ {a, c} :
        /\ Type(u, m) = Type(t, m) /\ Kids(u, m) = Kids(t, m)
        /\ u.heap[m].item = t.heap[m].item
        /\ Parent(u, m) = IF m \in K THEN a ELSE Parent(t, m)
  BY <1>6, <1>7 DEF Type, Kids, Parent
<1>10. Type(u, c) = "FREE" /\ u.heap[c].item = NoItem
  BY <1>6 DEF Type, Freed
<1>11. Fit(u)
  BY <1>1, <1>3, <1>8, <1>9, <1>10 DEF Fit
<1>12. \A m \in Node \ S : u.heap[m] = t.heap[m]
  BY <1>3, <1>5, <1>6
<1>13. ASSUME NEW m \in S2 PROVE Good(u, S2, d, m)
  <2>1. Good(t, S, d, m) /\ m \in Node /\ m # c
    BY <1>1 DEF Tree
  <2>2. CASE m = a
    <3>1. ASSUME NEW e \in ToSet(Kids(u, m)) PROVE e \in S2 /\ Parent(u, e) = m /\ d[m] < d[e]
      <4>1. e \in K
        BY <1>8, <2>2 DEF K
      <4>2. e \in S2 /\ Parent(u, e) = m
        BY <1>5, <1>9, <2>2, <4>1
      <4>3. d[a] \in Nat /\ d[c] \in Nat /\ d[e] \in Nat
        BY <1>1, <1>3, <1>5, <4>1
      <4>. QED  BY <1>3, <1>5, <2>2, <4>1, <4>2, <4>3
    <3>. QED  BY <1>3, <1>8, <2>2, <3>1 DEF Good
  <2>3. CASE m # a
    <3>1. ASSUME NEW e \in ToSet(Kids(u, m)) PROVE e \in S2 /\ Parent(u, e) = m /\ d[m] < d[e]
      <4>1. e \in S /\ e \in Node /\ Parent(t, e) = m /\ d[m] < d[e]
        BY <1>1, <1>9, <2>1, <2>3 DEF Good
      <4>2. e # c /\ e \notin K
        BY <1>3, <1>5, <2>1, <2>3, <4>1
      <4>. QED  BY <1>8, <1>9, <4>1, <4>2
    <3>. QED  BY <1>9, <2>1, <2>3, <3>1 DEF Good
  <2>. QED  BY <2>2, <2>3
<1>14. ASSUME NEW m \in S2 \ {t.head} PROVE Linked(u, S2, m)
  <2>1. /\ Parent(t, m) \in S /\ m \in ToSet(Kids(t, Parent(t, m))) /\ m \in Node /\ m # c
        /\ d[Parent(t, m)] < d[m]
    BY <1>1 DEF Tree, Linked, Good
  <2>2. CASE m \in K
    <3>1. m # a /\ Parent(u, m) = a
      BY <1>5, <1>9, <2>1, <2>2
    <3>. QED  BY <1>3, <1>8, <2>2, <3>1 DEF Linked, K
  <2>3. CASE m \notin K
    <3>1. Parent(u, m) = Parent(t, m)
      BY <1>8, <1>9, <2>1, <2>3
    <3>2. Parent(t, m) # c
      BY <2>1, <2>3 DEF K
    <3>3. Parent(t, m) # a
      BY <1>2, <2>1
    <3>4. Kids(u, Parent(t, m)) = Kids(t, Parent(t, m))
      BY <1>1, <1>9, <2>1, <3>2, <3>3
    <3>. QED  BY <2>1, <3>1, <3>2, <3>4 DEF Linked
  <2>. QED  BY <2>2, <2>3
<1>15. u.head \in S2 /\ Parent(u, u.head) = Null
  <2>1. t.head \in S /\ Parent(t, t.head) = Null /\ t.head \notin K
    BY <1>3, <1>5, NullIsNoNode DEF Tree
  <2>. QED  BY <1>1, <1>4, <1>6, <1>8, <1>9, <2>1
<1>16. Tree(u, S2, d)
  BY <1>1, <1>6, <1>13, <1>14, <1>15 DEF Tree
<1>17. ASSUME NEW n \in S2 PROVE Full(u, n)
  <2>1. n \in Node /\ n # c /\ Kids(t, n) \in Seq(Node) /\ Kids(t, c) \in Seq(Node)
    BY <1>1, <1>3, NodeIs
  <2>2. CASE n = a
    <3>1. Full(t, c)
      BY <1>3
    <3>2. ASSUME Len(Kids(t, c)) = 1 PROVE Type(u, Kids(t, c)[1]) = "LEAF"
      <4>1. Kids(t, c)[1] \in K
        BY <2>1, <3>2, OneKid DEF K
      <4>2. Kids(t, c)[1] \in Node \ {a, c}
        BY <1>5, <4>1
      <4>. QED  BY <1>9, <3>1, <3>2, <4>2 DEF Full
    <3>. QED  BY <1>4, <1>8, <2>2, <3>1, <3>2 DEF Full
  <2>3. CASE n # a
    <3>1. Full(t, n) /\ Kids(u, n) = Kids(t, n) /\ Type(u, n) = Type(t, n)
      BY <1>9, <2>1, <2>3
    <3>2. ASSUME Len(Kids(t, n)) = 1 PROVE Type(u, Kids(t, n)[1]) = "LEAF"
      <4>1. Type(t, Kids(t, n)[1]) = "LEAF" /\ Kids(t, n)[1] \in ToSet(Kids(t, n))
        BY <2>1, <3>1, <3>2, OneKid DEF Full
      <4>2. Kids(t, n)[1] \in S /\ Parent(t, Kids(t, n)[1]) = n
        BY <4>1 DEF Tree, Good
      <4>3. Kids(t, n)[1] # a
        BY <4>1 DEF Stack
      <4>4. Kids(t, n)[1] # c
        BY <1>3, <2>3, <4>2
      <4>. QED  BY <1>1, <1>9, <4>1, <4>2, <4>3, <4>4
    <3>. QED  BY <1>6, <3>1, <3>2 DEF Full
  <2>. QED  BY <2>2, <2>3
<1>18. Distinct(t, S) => Distinct(u, S2)
  <2>. SUFFICES ASSUME Distinct(t, S), NEW m \in S2, NEW n \in S2,
                       Type(u, m) = "LEAF", Type(u, n) = "LEAF",
                       u.heap[m].item = u.heap[n].item, u.heap[m].item # Gone
                PROVE  m = n
    BY DEF Distinct
  <2>. DEFINE o(x) == IF x = a THEN c ELSE x
  <2>1. \A x \in S2 : o(x) \in S /\ Type(t, o(x)) = Type(u, x) /\ t.heap[o(x)].item = u.heap[x].item
    BY <1>1, <1>3, <1>8, <1>9
  <2>2. o(m) = o(n)
    <3>. HIDE DEF o
    <3>. QED  BY <2>1 DEF Distinct
  <2>. QED  BY <2>2
<1>19. Showing(u, S2) = Showing(t, S)
  <2>1. ASSUME NEW x \in Showing(u, S2) PROVE x \in Showing(t, S)
    <3>1. PICK m \in S2 : Type(u, m) = "LEAF" /\ x = u.heap[m].item
      BY DEF Showing
    <3>2. CASE m = a
      BY <1>3, <1>8, <3>1, <3>2 DEF Showing
    <3>3. CASE m # a
      BY <1>1, <1>9, <3>1, <3>3 DEF Showing
    <3>. QED  BY <3>2, <3>3
  <2>2. ASSUME NEW x \in Showing(t, S) PROVE x \in Showing(u, S2)
    <3>1. PICK m \in S : Type(t, m) = "LEAF" /\ x = t.heap[m].item
      BY DEF Showing
    <3>2. m # a
      BY <3>1 DEF Stack
    <3>3. CASE m = c
      BY <1>3, <1>8, <3>1, <3>3 DEF Showing
    <3>4. CASE m # c
      BY <1>1, <1>9, <3>1, <3>2, <3>4 DEF Showing
    <3>. QED  BY <3>3, <3>4
  <2>. QED  BY <2>1, <2>2
<1>20. c \in S \ {a}
  BY <1>3
<1>. QED  BY <1>6, <1>10, <1>11, <1>12, <1>16, <1>17, <1>18, <1>19, <1>20 DEF u, c

-----------------------------------------------------------------------------
(* twm_remove_node *)

LEMMA IndexIs ==
  ASSUME NEW t \in Trees, NEW p \in Node, NEW n
  PROVE  /\ IndexOf(t, n, p) # 0 =>
              IndexOf(t, n, p) \in 1 .. Len(Kids(t, p)) /\ Kids(t, p)[IndexOf(t, n, p)] = n
         /\ n \in ToSet(Kids(t, p)) =>
              /\ IndexOf(t, n, p) # 0
              /\ IndexOf(t, n, p) \in 1 .. Len(Kids(t, p)) /\ Kids(t, p)[IndexOf(t, n, p)] = n
<1>1. Kids(t, p) \in Seq(Node)
  BY NodeIs
<1>2. DOMAIN Kids(t, p) = 1 .. Len(Kids(t, p))
  BY <1>1
<1>3. n \in ToSet(Kids(t, p)) => \E i \in DOMAIN Kids(t, p) : Kids(t, p)[i] = n
  BY DEF ToSet
<1>4. (\E i \in DOMAIN Kids(t, p) : Kids(t, p)[i] = n)
      => IndexOf(t, n, p) \in DOMAIN Kids(t, p) /\ Kids(t, p)[IndexOf(t, n, p)] = n
  BY DEF IndexOf
<1>5. IndexOf(t, n, p) # 0 => \E i \in DOMAIN Kids(t, p) : Kids(t, p)[i] = n
  BY DEF IndexOf
<1>6. n \in ToSet(Kids(t, p)) => IndexOf(t, n, p) # 0
  BY <1>1, <1>2, <1>3, <1>4
<1>. QED  BY <1>2, <1>3, <1>4, <1>5, <1>6

(* The pointers of A, and the program's, stay in A. *)
Closed(t, A) ==
  /\ {t.head, t.focus} \subseteq A \cup {Null}
  /\ \A n \in A : ToSet(Kids(t, n)) \subseteq A /\ Parent(t, n) \in A \cup {Null}

(* u is t with the nodes S cut down to S2: no window is lost. *)
Pruned(t, S, u, S2) ==
  /\ S2 \subseteq S /\ u.head = t.head
  /\ u.focus = t.focus \/ {t.focus, u.focus} \subseteq S
  /\ \A m \in Node \ S : u.heap[m] = t.heap[m]
  /\ \A m \in S \ S2 : Type(u, m) # "LEAF"
  /\ Distinct(t, S) => Distinct(u, S2)
  /\ Showing(u, S2) = Showing(t, S)
  /\ \A A \in SUBSET Node : S \subseteq A /\ Closed(t, A) => Closed(u, A)

LEMMA PrunedTwice ==
  ASSUME NEW t, NEW S \in SUBSET Node, NEW u, NEW S2, NEW v, NEW S3,
         Pruned(t, S, u, S2), Pruned(u, S2, v, S3)
  PROVE  Pruned(t, S, v, S3)
<1>1. S3 \subseteq S /\ v.head = t.head
  BY DEF Pruned
<1>2. v.focus = t.focus \/ {t.focus, v.focus} \subseteq S
  BY DEF Pruned
<1>3. \A m \in Node \ S : v.heap[m] = t.heap[m]
  BY DEF Pruned
<1>4. \A m \in S \ S3 : Type(v, m) # "LEAF"
  BY DEF Pruned, Type
<1>5. (Distinct(t, S) => Distinct(v, S3)) /\ Showing(v, S3) = Showing(t, S)
  BY DEF Pruned
<1>6. \A A \in SUBSET Node : S \subseteq A /\ Closed(t, A) => Closed(v, A)
  BY DEF Pruned
<1>. QED  BY <1>1, <1>2, <1>3, <1>4, <1>5, <1>6 DEF Pruned

LEMMA PrunedErr ==
  ASSUME NEW t, NEW S, NEW u \in Trees, NEW S2, Pruned(t, S, u, S2), NEW d, Whole(u, S2, d),
         NEW code \in Outcomes
  PROVE  /\ Pruned(t, S, Fail(u, code), S2) /\ Whole(Fail(u, code), S2, d)
         /\ Pruned(t, S, Ok(u), S2) /\ Whole(Ok(u), S2, d)
<1>1. ASSUME NEW v \in Trees, v.heap = u.heap, v.head = u.head, v.focus = u.focus
      PROVE  Pruned(t, S, v, S2) /\ Whole(v, S2, d)
  <2>1. /\ Distinct(v, S2) <=> Distinct(u, S2)
        /\ Showing(v, S2) = Showing(u, S2)
    BY <1>1, SameTree
  <2>2. \A m : Type(v, m) = Type(u, m) /\ Kids(v, m) = Kids(u, m) /\ Parent(v, m) = Parent(u, m)
    BY <1>1 DEF Type, Kids, Parent
  <2>3. \A A : Closed(v, A) <=> Closed(u, A)
    BY <1>1, <2>2 DEF Closed
  <2>4. Pruned(t, S, v, S2)
    BY <1>1, <2>1, <2>2, <2>3 DEF Pruned
  <2>5. Whole(v, S2, d)
    BY <1>1, SameTree DEF Whole
  <2>. QED  BY <2>4, <2>5
<1>. QED  BY <1>1, OkIs

(* A subtree cut off the heap stays as it was. *)
LEMMA CutClosed ==
  ASSUME NEW t \in Trees, NEW p \in Node, NEW k \in 1 .. Len(Kids(t, p)), IsInjective(Kids(t, p)),
         NEW A \in SUBSET Node, Closed(t, A)
  PROVE  Closed(Cut(t, p, k), A)
<1>. DEFINE u == Cut(t, p, k)
<1>1. /\ u.head = t.head /\ u.focus = t.focus
      /\ \A m \in Node : Parent(u, m) = Parent(t, m) /\ (m # p => Kids(u, m) = Kids(t, m))
      /\ Kids(u, p) = RemoveAt(Kids(t, p), k)
  BY CutIs
<1>2. ToSet(Kids(u, p)) \subseteq ToSet(Kids(t, p))
  BY <1>1, NodeIs, RemoveAtIs
<1>. HIDE DEF u
<1>3. ASSUME NEW n \in A
      PROVE  ToSet(Kids(u, n)) \subseteq A /\ Parent(u, n) \in A \cup {Null}
  BY <1>1, <1>2 DEF Closed
<1>. QED  BY <1>1, <1>3 DEF Closed, u

LEMMA MergePrunes ==
  ASSUME NEW t, NEW S, NEW d, t \in Trees, Tree(t, S, d), Fit(t), NEW a \in S, Type(t, a) \in Stack,
         Len(Kids(t, a)) = 1, \A n \in S \ {a} : Full(t, n)
  PROVE  \E S2 : Pruned(t, S, Merge(t, a), S2) /\ Whole(Merge(t, a), S2, d)
<1>. DEFINE u == Merge(t, a)
            c == Kids(t, a)[1]
            S2 == S \ {c}
            K == ToSet(Kids(t, c))
<1>1. /\ u \in Trees /\ Fit(u) /\ u.head = t.head
      /\ c \in S \ {a}
      /\ u.focus = IF t.focus = c THEN a ELSE t.focus
      /\ \A m \in Node \ S : u.heap[m] = t.heap[m]
      /\ Tree(u, S2, d)
      /\ \A n \in S2 : Full(u, n)
      /\ Distinct(t, S) => Distinct(u, S2)
      /\ Showing(u, S2) = Showing(t, S)
      /\ Type(u, c) = "FREE"
  BY Merged
<1>2. S \in SUBSET Node /\ a \in Node /\ c \in Node /\ c # a
  BY <1>1 DEF Tree
<1>3. a \notin K /\ c \notin K
  <2>1. Good(t, S, d, a) /\ Good(t, S, d, c) /\ d \in [Node -> Nat]
    BY <1>1 DEF Tree
  <2>2. c \in ToSet(Kids(t, a))
    <3>1. Kids(t, a) \in Seq(Node)
      BY <1>2, NodeIs
    <3>. QED  BY <3>1, OneKid
  <2>3. d[a] < d[c]
    BY <2>1, <2>2 DEF Good
  <2>4. \A e \in K : d[c] < d[e]
    BY <2>1 DEF Good
  <2>. QED  BY <1>2, <2>1, <2>3, <2>4
<1>4. /\ u.heap[a] = [t.heap[c] EXCEPT !.parent = t.heap[a].parent]
      /\ u.heap[c] = Freed
      /\ \A m \in Node \ {a, c} : u.heap[m] = IF m \in K THEN [t.heap[m] EXCEPT !.parent = a] ELSE t.heap[m]
  BY <1>2, <1>3, MergeIs
<1>. HIDE DEF u, c, K
<1>5. \A m \in Node : t.heap[m] \in Record
  BY DEF Trees
<1>6. /\ Kids(u, a) = Kids(t, c) /\ Parent(u, a) = Parent(t, a)
      /\ Kids(u, c) = << >> /\ Parent(u, c) = Null
      /\ \A m \in Node \ {a, c} : Kids(u, m) = Kids(t, m) /\ Parent(u, m) \in {Parent(t, m), a}
  <2>1. Kids(u, c) = << >> /\ Parent(u, c) = Null
    BY <1>4 DEF Kids, Parent, Freed
  <2>2. Kids(u, a) = Kids(t, c) /\ Parent(u, a) = Parent(t, a)
    BY <1>2, <1>4, <1>5 DEF Kids, Parent, Record
  <2>3. ASSUME NEW m \in Node \ {a, c}
        PROVE  Kids(u, m) = Kids(t, m) /\ Parent(u, m) \in {Parent(t, m), a}
    BY <1>4, <1>5 DEF Kids, Parent, Record
  <2>. QED  BY <2>1, <2>2, <2>3
<1>7. ASSUME NEW A \in SUBSET Node, S \subseteq A, Closed(t, A) PROVE Closed(u, A)
  <2>1. ToSet(<< >>) = {}
    BY DEF ToSet
  <2>2. ASSUME NEW n \in A
        PROVE  ToSet(Kids(u, n)) \subseteq A /\ Parent(u, n) \in A \cup {Null}
    BY <1>1, <1>2, <1>6, <1>7, <2>1 DEF Closed
  <2>3. {u.head, u.focus} \subseteq A \cup {Null}
    BY <1>1, <1>7 DEF Closed
  <2>. QED  BY <2>2, <2>3 DEF Closed
<1>8. Pruned(t, S, u, S2)
  <2>1. u.focus = t.focus \/ {t.focus, u.focus} \subseteq S
    BY <1>1
  <2>2. \A m \in S \ S2 : Type(u, m) # "LEAF"
    BY <1>1
  <2>. QED  BY <1>1, <1>7, <2>1, <2>2 DEF Pruned
<1>9. Whole(u, S2, d)
  BY <1>1 DEF Whole
<1>. QED  BY <1>8, <1>9 DEF u

(* A node with children can be redrawn, if the rest of the tree is full. *)
LEMMA Redraws ==
  ASSUME NEW t \in Trees, NEW S, NEW d, Tree(t, S, d), NEW a \in S, Kids(t, a) # << >>,
         \A n \in S \ {a} : Full(t, n)
  PROVE  Redrawable(t, a) /\ Redrawn(t, a) = Ok(t)
<1>1. /\ Below(t, a) \subseteq S /\ \A m \in Below(t, a) \ {a} : d[a] < d[m] /\ Parent(t, m) \in Below(t, a)
      /\ S \in SUBSET Node
  BY Subtree DEF Tree
<1>2. ASSUME NEW m \in Below(t, a), Type(t, m) \in Stack PROVE Kids(t, m) # << >>
  <2>1. CASE m = a
    BY <2>1
  <2>2. CASE m # a
    <3>1. m # t.head
      BY <1>1, <2>2, NullIsNoNode DEF Tree
    <3>2. Full(t, m)
      BY <1>1, <2>2
    <3>. QED  BY <1>2, <3>1, <3>2 DEF Full, Stack
  <2>. QED  BY <2>1, <2>2
<1>. QED  BY <1>2 DEF Redrawable, Redrawn

(* What taking a node out comes to: u is t with p tidied up. *)
Settled(t, S, u, p) ==
  \E S2, d : /\ Pruned(t, S, u, S2) /\ Whole(u, S2, d)
             /\ \/ u.err = "SUCC" /\ (Kids(u, u.head) = << >> => Type(u, u.head) = "LEAF")
                \/ u.err = "ILLEGAL_DELETE" /\ p = t.head /\ Kids(t, p) = << >> /\ u.heap = t.heap

LEMMA Tidies ==
  ASSUME NEW t \in Trees, NEW S, NEW d, Tree(t, S, d), Fit(t), NEW a \in S, Type(t, a) \in Stack,
         \A n \in S \ {a} : Full(t, n), Kids(t, a) = << >> => a = t.head
  PROVE  Settled(t, S, Tidied(t, a), a)
<1>1. /\ Kids(t, a) \in Seq(Node) /\ a \in Node /\ S \in SUBSET Node
  BY NodeIs DEF Tree
<1>7. PICK l \in Nat : l = Len(Kids(t, a)) /\ (Kids(t, a) = << >> <=> l = 0)
  BY <1>1, NoKids
<1>2. Pruned(t, S, t, S)
  BY <1>1 DEF Pruned
<1>3. CASE Len(Kids(t, a)) = 1
  <2>1. PICK S2 : Pruned(t, S, Merge(t, a), S2) /\ Whole(Merge(t, a), S2, d)
    BY <1>3, MergePrunes
  <2>2. Tidied(t, a) = Ok(Merge(t, a)) /\ Merge(t, a) \in Trees
    BY <1>3, <2>1 DEF Tidied, Whole
  <2>3. Pruned(t, S, Ok(Merge(t, a)), S2) /\ Whole(Ok(Merge(t, a)), S2, d)
    BY <2>1, <2>2, PrunedErr DEF Outcomes
  <2>. DEFINE v == Merge(t, a)
              u == Ok(Merge(t, a))
              c == Kids(t, a)[1]
  <2>4. u.err = "SUCC" /\ u.heap = v.heap /\ u.head = v.head
    BY <2>2, OkIs DEF Outcomes
  <2>5. Kids(u, u.head) = << >> => Type(u, u.head) = "LEAF"
    <3>1. c \in S \ {a} /\ v.head = t.head /\ Tree(v, S \ {c}, d) /\ v \in Trees
      BY <1>3, Merged
    <3>2. CASE a # t.head
      <4>1. Kids(v, v.head) # << >>
        BY <3>1, <3>2, HeadHasKids
      <4>. QED  BY <2>4, <4>1 DEF Kids
    <3>3. CASE a = t.head
      <4>1. Good(t, S, d, c) /\ c \in Node /\ Full(t, c) /\ Good(t, S, d, a) /\ d \in [Node -> Nat]
        BY <1>1, <3>1 DEF Tree
      <4>2. a \notin ToSet(Kids(t, c)) /\ c \notin ToSet(Kids(t, c))
        <5>1. c \in ToSet(Kids(t, a))
          BY <1>1, <1>3, OneKid
        <5>2. d[a] < d[c] /\ d[a] \in Nat /\ d[c] \in Nat
          BY <1>1, <4>1, <5>1 DEF Good
        <5>3. \A e \in ToSet(Kids(t, c)) : d[c] < d[e]
          BY <4>1 DEF Good
        <5>. QED  BY <5>2, <5>3
      <4>3. v.heap[a] = [t.heap[c] EXCEPT !.parent = t.heap[a].parent] /\ t.heap[c] \in Record
        <5>1. c = Kids(t, a)[1] /\ c # a /\ c \in Node /\ a \in Node
          BY <1>1, <3>1, <4>1
        <5>. HIDE DEF c
        <5>2. Merge(t, a).heap[a] = [t.heap[c] EXCEPT !.parent = t.heap[a].parent]
          BY <4>2, <5>1, MergeIs
        <5>3. t.heap[c] \in Record
          BY <5>1 DEF Trees
        <5>. QED  BY <5>2, <5>3
      <4>4. Kids(v, a) = Kids(t, c) /\ Type(v, a) = Type(t, c)
        BY <4>3 DEF Kids, Type, Record
      <4>5. Kids(t, c) = << >> => Type(t, c) = "LEAF"
        BY <3>1, <3>3, <4>1 DEF Full
      <4>. QED  BY <2>4, <3>1, <3>3, <4>4, <4>5 DEF Kids, Type
    <3>. QED  BY <3>2, <3>3
  <2>. HIDE DEF u, v
  <2>. QED  BY <2>2, <2>3, <2>4, <2>5 DEF Settled, u, v
<1>4. CASE Len(Kids(t, a)) > 1
  <2>1. Kids(t, a) # << >> /\ Len(Kids(t, a)) # 1 /\ ~ (Len(Kids(t, a)) = 1)
    BY <1>4, <1>7
  <2>2. Tidied(t, a) = Ok(t)
    BY <1>4, <2>1, Redraws DEF Tidied
  <2>3. Whole(t, S, d)
    BY <1>4, <2>1 DEF Whole, Full
  <2>4. Pruned(t, S, Ok(t), S) /\ Whole(Ok(t), S, d)
    BY <1>2, <2>3, PrunedErr DEF Outcomes
  <2>. DEFINE u == Ok(t)
  <2>5. u.err = "SUCC" /\ u.heap = t.heap /\ u.head = t.head
    BY OkIs DEF Outcomes
  <2>6. Kids(t, t.head) # << >>
    BY <2>1, HeadHasKids
  <2>7. Kids(u, u.head) # << >>
    BY <2>5, <2>6 DEF Kids
  <2>. HIDE DEF u
  <2>. QED  BY <2>2, <2>4, <2>5, <2>7 DEF Settled, u
<1>5. CASE Kids(t, a) = << >>
  <2>1. ~ (Len(Kids(t, a)) = 1) /\ ~ (Len(Kids(t, a)) > 1) /\ a = t.head /\ Parent(t, a) = Null
    BY <1>5, <1>7 DEF Tree
  <2>2. Tidied(t, a) = Fail(t, "ILLEGAL_DELETE")
    BY <2>1 DEF Tidied
  <2>3. Whole(t, S, d)
    BY <1>5, <2>1 DEF Whole, Full
  <2>4. "ILLEGAL_DELETE" \in Outcomes
    BY DEF Outcomes, Errors
  <2>. DEFINE u == Fail(t, "ILLEGAL_DELETE")
  <2>5. Pruned(t, S, u, S) /\ Whole(u, S, d)
    BY <1>2, <2>3, <2>4, PrunedErr
  <2>6. u.err = "ILLEGAL_DELETE" /\ u.head = t.head /\ u.heap = t.heap
    BY <2>4, OkIs
  <2>. HIDE DEF u
  <2>. QED  BY <1>5, <2>1, <2>2, <2>5, <2>6 DEF Settled, u
<1>6. Len(Kids(t, a)) = 1 \/ Len(Kids(t, a)) > 1 \/ Kids(t, a) = << >>
  BY <1>7
<1>. QED  BY <1>3, <1>4, <1>5, <1>6

(* A parent left empty is cut off in its turn, and nothing above it: u is  *)
(* t without it, and a is where that ends.                                 *)
AtTop(t, S, d, p, u, a) ==
  \E S2 : /\ u \in Trees /\ Tree(u, S2, d) /\ Fit(u) /\ a \in S2 /\ Type(u, a) \in Stack
          /\ \A n \in S2 \ {a} : Full(u, n)
          /\ Kids(u, a) = << >> => a = u.head
          /\ Pruned(t, S, u, S2)
          /\ (a = p /\ u = t) \/ Kids(u, a) # << >>

LEMMA Climbed ==
  ASSUME NEW t \in Trees, NEW S, NEW d, Tree(t, S, d), Fit(t), NEW p \in S, Type(t, p) \in Stack,
         \A n \in S \ {p} : Full(t, n)
  PROVE  AtTop(t, S, d, p, Climb(t, p).tree, Climb(t, p).node)
<1>. DEFINE A == [tree : Trees, node : Node]
            f == [b \in A |-> IF Climbs(b.tree, b.node)
                              THEN [tree |-> CutParent(b.tree, b.node), node |-> Parent(b.tree, b.node)]
                              ELSE b]
            x == [tree |-> t, node |-> p]
            g == Parent(t, p)
            i == IndexOf(t, p, g)
            v == CutParent(t, p)
<1>1. S \in SUBSET Node /\ p \in Node /\ Good(t, S, d, p) /\ Kids(t, p) \in Seq(Node)
  BY NodeIs DEF Tree
<1>2. f \in [A -> A]
  <2>. SUFFICES ASSUME NEW b \in A PROVE f[b] \in A
    OBVIOUS
  <2>1. CASE Climbs(b.tree, b.node)
    <3>. DEFINE h == Parent(b.tree, b.node)
                j == IndexOf(b.tree, b.node, h)
    <3>1. b.tree \in Trees /\ b.node \in Node
      OBVIOUS
    <3>2. h \in Node /\ j # 0
      BY <2>1, <3>1, NodeIs DEF Climbs
    <3>3. j \in 1 .. Len(Kids(b.tree, h))
      BY <3>1, <3>2, IndexIs
    <3>4. Cut(b.tree, h, j) \in Trees
      BY <3>1, <3>2, <3>3, CutIs
    <3>. QED  BY <2>1, <3>2, <3>4 DEF CutParent
  <2>. QED  BY <2>1
<1>3. x \in A /\ x.tree = t /\ x.node = p
  BY <1>1
<1>4. Climb(t, p) = Iterate(f, x)
  BY DEF Climb
<1>5. CASE ~ Climbs(t, p)
  <2>1. f[x] = x
    BY <1>3, <1>5
  <2>2. Climb(t, p) = x
    <3>. HIDE DEF f, x, A
    <3>. QED  BY <1>2, <1>3, <1>4, <2>1, IterateOnce
  <2>3. Kids(t, p) = << >> => p = t.head
    <3>. SUFFICES ASSUME Kids(t, p) = << >>, p # t.head PROVE FALSE
      OBVIOUS
    <3>1. g \in S /\ p \in ToSet(Kids(t, g)) /\ g \in Node
      BY <1>1 DEF Tree, Linked
    <3>2. i # 0 /\ g # Null
      BY <3>1, IndexIs, NullIsNoNode
    <3>3. ~ IsFreed(t, g)
      BY <3>1 DEF Tree, Good, IsFreed, Stack
    <3>. QED  BY <1>5, <3>2, <3>3 DEF Climbs
  <2>4. Pruned(t, S, t, S)
    BY <1>1 DEF Pruned
  <2>. QED  BY <1>3, <2>2, <2>3, <2>4 DEF AtTop
<1>6. CASE Climbs(t, p)
  <2>1. Kids(t, p) = << >> /\ g # Null /\ i # 0
    BY <1>6 DEF Climbs
  <2>2. p # t.head
    BY <2>1 DEF Tree
  <2>3. g \in S /\ p \in ToSet(Kids(t, g)) /\ g \in Node /\ Kids(t, g) \in Seq(Node) /\ g # p
    BY <1>1, <2>2, NodeIs DEF Tree, Linked, Good
  <2>4. i \in 1 .. Len(Kids(t, g)) /\ Kids(t, g)[i] = p /\ v = Cut(t, g, i)
    BY <2>3, IndexIs DEF CutParent
  <2>5. Tree(v, S \ Below(t, p), d)
    BY <2>2, <2>4, Detached
  <2>6. Below(t, p) = {p}
    <3>1. ToSet(Kids(t, p)) = {}
      BY <1>1, <2>1, NoKids
    <3>2. Below(t, p) \subseteq {p}
      <4>1. {p} \in SUBSET Node /\ \A m \in {p} : ToSet(Kids(t, m)) \subseteq {p}
        BY <1>1, <3>1
      <4>. QED  BY <1>1, <4>1, BelowIs
    <3>. QED  BY <1>1, <3>2, BelowIs
  <2>7. /\ v \in Trees /\ v.head = t.head /\ v.focus = t.focus
        /\ \A m \in Node : /\ Type(v, m) = Type(t, m) /\ Parent(v, m) = Parent(t, m)
                           /\ v.heap[m].item = t.heap[m].item
                           /\ m # g => Kids(v, m) = Kids(t, m) /\ v.heap[m] = t.heap[m]
        /\ Kids(v, g) = RemoveAt(Kids(t, g), i)
    BY <2>3, <2>4, CutIs
  <2>. HIDE DEF v, g, i
  <2>8. Fit(v)
    BY <2>7 DEF Fit
  <2>9. Type(v, g) \in Stack
    <3>1. Type(t, g) \in Stack
      <4>1. Kids(t, g) # << >>
        BY <2>3, NoKids
      <4>. QED  BY <2>3, <4>1 DEF Tree, Good
    <3>. QED  BY <2>3, <2>7, <3>1
  <2>10. Kids(v, g) # << >>
    <3>1. Full(t, g) /\ IsInjective(Kids(t, g))
      BY <2>3 DEF Tree, Good
    <3>2. Len(Kids(t, g)) # 1
      <4>. SUFFICES ASSUME Len(Kids(t, g)) = 1 PROVE FALSE
        OBVIOUS
      <4>1. Type(t, Kids(t, g)[1]) = "LEAF" /\ Kids(t, g)[1] = p
        BY <2>3, <3>1, OneKid DEF Full
      <4>. QED  BY <4>1 DEF Stack
    <3>3. PICK l \in Nat : l = Len(Kids(t, g)) /\ l # 1 /\ l # 0
      <4>1. PICK l \in Nat : l = Len(Kids(t, g))
        BY <2>3
      <4>. QED  BY <2>4, <3>2, <4>1
    <3>4. Kids(v, g) \in Seq(Node) /\ Len(Kids(v, g)) = l - 1
      BY <2>3, <2>4, <2>7, <3>1, <3>3, RemoveAtIs
    <3>. QED  BY <3>3, <3>4, NoKids
  <2>11. ASSUME NEW n \in (S \ {p}) \ {g} PROVE Full(v, n)
    <3>1. Full(t, n) /\ Type(v, n) = Type(t, n) /\ Kids(v, n) = Kids(t, n) /\ n \in Node
      BY <1>1, <2>7
    <3>2. ASSUME Len(Kids(t, n)) = 1 PROVE Type(v, Kids(t, n)[1]) = "LEAF"
      <4>1. Kids(t, n)[1] \in Node
        BY <3>1, <3>2, NodeIs, OneKid
      <4>. QED  BY <2>7, <3>1, <3>2, <4>1 DEF Full
    <3>. QED  BY <2>7, <3>1, <3>2 DEF Full
  <2>12. Pruned(t, S, v, S \ {p})
    <3>1. \A m \in Node \ S : v.heap[m] = t.heap[m]
      BY <2>3, <2>7
    <3>2. Type(v, p) # "LEAF"
      BY <1>1, <2>7 DEF Stack
    <3>3. Distinct(t, S) => Distinct(v, S \ {p})
      BY <1>1, <2>7 DEF Distinct
    <3>4. Showing(v, S \ {p}) = Showing(t, S)
      <4>1. \A m \in S : Type(v, m) = Type(t, m) /\ v.heap[m].item = t.heap[m].item
        BY <1>1, <2>7
      <4>2. Type(t, p) # "LEAF"
        BY DEF Stack
      <4>. QED  BY <4>1, <4>2 DEF Showing
    <3>5. ASSUME NEW B \in SUBSET Node, S \subseteq B, Closed(t, B) PROVE Closed(v, B)
      BY <2>3, <2>4, <3>5, CutClosed DEF Tree, Good
    <3>. QED  BY <2>7, <3>1, <3>2, <3>3, <3>4, <3>5 DEF Pruned
  <2>. DEFINE y == [tree |-> v, node |-> g]
  <2>13. y \in A /\ y.tree = v /\ y.node = g
    BY <2>3, <2>7
  <2>14. f[x] = y
    BY <1>3, <1>6 DEF v, g
  <2>15. f[y] = y
    BY <2>10, <2>13 DEF Climbs
  <2>16. Climb(t, p) = y
    <3>. HIDE DEF f, x, y, A
    <3>. QED  BY <1>2, <1>3, <1>4, <2>14, <2>15, IterateOnce
  <2>17. Tree(v, S \ {p}, d) /\ g \in S \ {p}
    BY <2>3, <2>5, <2>6
  <2>. QED  BY <2>7, <2>8, <2>9, <2>10, <2>11, <2>12, <2>13, <2>16, <2>17 DEF AtTop
<1>. QED  BY <1>5, <1>6

LEMMA Settles ==
  ASSUME NEW t \in Trees, NEW S, NEW d, Tree(t, S, d), Fit(t), NEW p \in S, Type(t, p) \in Stack,
         \A n \in S \ {p} : Full(t, n)
  PROVE  LET top == Climb(t, p)
         IN  Settled(t, S, Tidied(top.tree, top.node), p)
<1>. DEFINE v == Climb(t, p).tree
            a == Climb(t, p).node
            u == Tidied(v, a)
<1>1. PICK S2 : /\ v \in Trees /\ Tree(v, S2, d) /\ Fit(v) /\ a \in S2 /\ Type(v, a) \in Stack
                /\ \A n \in S2 \ {a} : Full(v, n)
                /\ Kids(v, a) = << >> => a = v.head
                /\ Pruned(t, S, v, S2)
                /\ (a = p /\ v = t) \/ Kids(v, a) # << >>
  BY Climbed DEF AtTop
<1>. HIDE DEF v, a
<1>2. Settled(v, S2, Tidied(v, a), a)
  BY <1>1, Tidies
<1>. HIDE DEF u
<1>3. PICK S3, e : /\ Pruned(v, S2, u, S3) /\ Whole(u, S3, e)
                   /\ \/ u.err = "SUCC" /\ (Kids(u, u.head) = << >> => Type(u, u.head) = "LEAF")
                      \/ u.err = "ILLEGAL_DELETE" /\ a = v.head /\ Kids(v, a) = << >> /\ u.heap = v.heap
  BY <1>2 DEF Settled, u
<1>4. S \in SUBSET Node
  BY DEF Tree
<1>5. Pruned(t, S, u, S3)
  BY <1>1, <1>3, <1>4, PrunedTwice
<1>6. Settled(t, S, u, p)
  BY <1>1, <1>3, <1>5 DEF Settled
<1>. QED  BY <1>6 DEF u, v, a

(* twm_remove_node on a node of the tree: the subtree at n goes, and       *)
(* nothing else that shows a window.                                       *)
Removed(t, S, n, u) ==
  \E S2, d :
    /\ Whole(u, S2, d) /\ S2 \subseteq S \ Below(t, n) /\ u.head = t.head
    /\ u.focus = t.focus \/ {t.focus, u.focus} \subseteq S \ Below(t, n)
    /\ \A m \in (Node \ S) \cup Below(t, n) : u.heap[m] = t.heap[m]
    /\ \A m \in (S \ Below(t, n)) \ S2 : Type(u, m) # "LEAF"
    /\ Distinct(t, S) => Distinct(u, S2)
    /\ Showing(u, S2) = Showing(t, S \ Below(t, n))
    /\ \A A \in SUBSET Node : S \subseteq A /\ Closed(t, A) => Closed(u, A)
    /\ \/ u.err = "SUCC" /\ (Kids(u, u.head) = << >> => Type(u, u.head) = "LEAF")
       \/ /\ u.err = "ILLEGAL_DELETE" /\ Kids(u, u.head) = << >>
          /\ Parent(t, n) = t.head /\ Len(Kids(t, t.head)) = 1

LEMMA Removes ==
  ASSUME NEW t, NEW S, NEW d, Whole(t, S, d), NEW n \in S, n # t.head,
         NEW p, p = Parent(t, n), NEW k, k = IndexOf(t, n, p)
  PROVE  Removed(t, S, n, RemoveNode(t, p, k)) /\ k # 0 /\ p \in S /\ Type(t, p) \in Stack
<1>. DEFINE v == Cut(t, p, k)
            B == Below(t, n)
            u == RemoveNode(t, p, k)
<1>1. /\ t \in Trees /\ Fit(t) /\ Tree(t, S, d) /\ S \in SUBSET Node /\ n \in Node
      /\ \A m \in S : Full(t, m)
  BY DEF Whole, Tree
<1>2. p \in S /\ n \in ToSet(Kids(t, p)) /\ p \in Node /\ Kids(t, p) \in Seq(Node) /\ IsInjective(Kids(t, p))
  BY <1>1, NodeIs DEF Tree, Linked, Good
<1>3. k # 0 /\ k \in 1 .. Len(Kids(t, p)) /\ Kids(t, p)[k] = n
  BY <1>1, <1>2, IndexIs
<1>4. Tree(v, S \ B, d) /\ p \in S \ B
  BY <1>1, <1>3, Detached
<1>5. /\ v \in Trees /\ v.head = t.head /\ v.focus = t.focus
      /\ \A m \in Node : /\ Type(v, m) = Type(t, m) /\ Parent(v, m) = Parent(t, m)
                         /\ v.heap[m].item = t.heap[m].item
                         /\ m # p => Kids(v, m) = Kids(t, m) /\ v.heap[m] = t.heap[m]
      /\ Kids(v, p) = RemoveAt(Kids(t, p), k)
  BY <1>1, <1>2, <1>3, CutIs
<1>6. Type(t, p) \in Stack
  <2>1. Kids(t, p) # << >>
    BY <1>2, NoKids
  <2>. QED  BY <1>1, <1>2, <2>1 DEF Tree, Good
<1>7. ToSet(Kids(v, p)) = ToSet(Kids(t, p)) \ {n}
  BY <1>2, <1>3, <1>5, RemoveAtIs
<1>8. \A A \in SUBSET Node : Closed(t, A) => Closed(v, A)
  BY <1>1, <1>2, <1>3, CutClosed
<1>9. B \subseteq S /\ n \in B
  BY <1>1, Subtree
<1>. HIDE DEF v, B
<1>10. Fit(v)
  BY <1>1, <1>5 DEF Fit
<1>11. ASSUME NEW m \in (S \ B) \ {p} PROVE Full(v, m)
  <2>1. Full(t, m) /\ Type(v, m) = Type(t, m) /\ Kids(v, m) = Kids(t, m) /\ m \in Node
    BY <1>1, <1>5
  <2>2. ASSUME Len(Kids(t, m)) = 1 PROVE Type(v, Kids(t, m)[1]) = "LEAF"
    <3>1. Kids(t, m)[1] \in Node
      BY <1>1, <2>1, <2>2, NodeIs, OneKid
    <3>. QED  BY <1>5, <2>1, <2>2, <3>1 DEF Full
  <2>. QED  BY <1>5, <2>1, <2>2 DEF Full
<1>12. Type(v, p) \in Stack
  BY <1>2, <1>5, <1>6
<1>13. Settled(v, S \ B, u, p)
  <2>1. LET top == Climb(v, p) IN Settled(v, S \ B, Tidied(top.tree, top.node), p)
    BY <1>4, <1>5, <1>10, <1>11, <1>12, Settles
  <2>. QED  BY <2>1 DEF RemoveNode, v
<1>. HIDE DEF u
<1>14. PICK S2, e : /\ Pruned(v, S \ B, u, S2) /\ Whole(u, S2, e)
                    /\ \/ u.err = "SUCC" /\ (Kids(u, u.head) = << >> => Type(u, u.head) = "LEAF")
                       \/ u.err = "ILLEGAL_DELETE" /\ p = v.head /\ Kids(v, p) = << >> /\ u.heap = v.heap
  BY <1>13 DEF Settled
<1>15. \A m \in (Node \ S) \cup B : u.heap[m] = t.heap[m]
  BY <1>1, <1>4, <1>5, <1>9, <1>14 DEF Pruned
<1>16. Distinct(t, S) => Distinct(u, S2)
  <2>1. Distinct(t, S) => Distinct(v, S \ B)
    BY <1>1, <1>5 DEF Distinct
  <2>. QED  BY <2>1, <1>14 DEF Pruned
<1>17. Showing(u, S2) = Showing(t, S \ B)
  <2>1. \A m \in S \ B : Type(v, m) = Type(t, m) /\ v.heap[m].item = t.heap[m].item
    BY <1>1, <1>5
  <2>2. Showing(v, S \ B) = Showing(t, S \ B)
    BY <2>1 DEF Showing
  <2>. QED  BY <2>2, <1>14 DEF Pruned
<1>18. \A A \in SUBSET Node : S \subseteq A /\ Closed(t, A) => Closed(u, A)
  BY <1>8, <1>14 DEF Pruned
<1>19. /\ S2 \subseteq S \ B /\ u.head = t.head
       /\ u.focus = t.focus \/ {t.focus, u.focus} \subseteq S \ B
       /\ \A m \in (S \ B) \ S2 : Type(u, m) # "LEAF"
  BY <1>5, <1>14 DEF Pruned
<1>20. \/ u.err = "SUCC" /\ (Kids(u, u.head) = << >> => Type(u, u.head) = "LEAF")
       \/ /\ u.err = "ILLEGAL_DELETE" /\ Kids(u, u.head) = << >>
          /\ p = t.head /\ Len(Kids(t, t.head)) = 1
  <2>1. ASSUME Kids(v, p) = << >> PROVE Len(Kids(t, p)) = 1
    <3>1. PICK l \in Nat : l = Len(Kids(t, p))
      BY <1>2
    <3>2. Len(RemoveAt(Kids(t, p), k)) = l - 1
      BY <1>2, <1>3, <3>1, RemoveAtIs
    <3>3. l - 1 = 0
      BY <1>5, <2>1, <3>2
    <3>4. \A x \in Nat : x - 1 = 0 => x = 1
      OBVIOUS
    <3>5. l = 1
      BY <3>1, <3>3, <3>4
    <3>. QED  BY <3>1, <3>5
  <2>2. Kids(v, p) = << >> /\ p = v.head /\ u.heap = v.heap => Kids(u, u.head) = << >>
    BY <1>5, <1>19 DEF Kids
  <2>. QED  BY <1>5, <1>14, <2>1, <2>2
<1>. QED  BY <1>3, <1>2, <1>6, <1>14, <1>15, <1>16, <1>17, <1>18, <1>19, <1>20 DEF Removed, B, u
-----------------------------------------------------------------------------
(* What a pointer leads to, and what it does not *)

(* A tree is a matter of its nodes. *)
LEMMA SameOn ==
  ASSUME NEW t \in Trees, NEW u \in Trees, NEW S, NEW d, u.head = t.head,
         \A n \in S : u.heap[n] = t.heap[n], Tree(t, S, d)
  PROVE  /\ Tree(u, S, d)
         /\ (\A n \in S : Full(t, n)) => (\A n \in S : Full(u, n))
         /\ Distinct(u, S) <=> Distinct(t, S)
         /\ Showing(u, S) = Showing(t, S)
<1>1. \A n \in S : /\ Type(u, n) = Type(t, n) /\ Kids(u, n) = Kids(t, n)
                   /\ Parent(u, n) = Parent(t, n) /\ u.heap[n].item = t.heap[n].item
  BY DEF Type, Kids, Parent
<1>2. S \in SUBSET Node
  BY DEF Tree
<1>3. ASSUME NEW n \in S PROVE Good(u, S, d, n)
  BY <1>1 DEF Tree, Good
<1>4. ASSUME NEW n \in S \ {t.head} PROVE Linked(u, S, n)
  BY <1>1 DEF Tree, Linked
<1>5. Tree(u, S, d)
  BY <1>1, <1>3, <1>4 DEF Tree
<1>6. ASSUME NEW n \in S, Full(t, n) PROVE Full(u, n)
  <2>1. ASSUME Len(Kids(t, n)) = 1 PROVE Type(u, Kids(t, n)[1]) = "LEAF"
    <3>1. Kids(t, n) \in Seq(Node)
      BY <1>2, NodeIs
    <3>2. Kids(t, n)[1] \in ToSet(Kids(t, n))
      BY <2>1, <3>1, OneKid
    <3>3. Kids(t, n)[1] \in S
      BY <3>2 DEF Tree, Good
    <3>. QED  BY <1>1, <1>6, <2>1, <3>3 DEF Full
  <2>. QED  BY <1>1, <1>6, <2>1 DEF Full
<1>7. (Distinct(u, S) <=> Distinct(t, S)) /\ Showing(u, S) = Showing(t, S)
  BY <1>1 DEF Distinct, Showing
<1>. QED  BY <1>5, <1>6, <1>7

LEMMA HeldIs ==
  ASSUME NEW t \in Trees
  PROVE  /\ HeldByTree(t) \in SUBSET Node /\ {t.head, t.focus} \ {Null} \subseteq HeldByTree(t)
         /\ \A n \in HeldByTree(t) : ToSet(Kids(t, n)) \subseteq HeldByTree(t)
         /\ \A A \in SUBSET Node : Closed(t, A) => HeldByTree(t) \subseteq A
<1>. DEFINE next == [n \in Node |-> (ToSet(Kids(t, n)) \cup {Parent(t, n)}) \ {Null}]
            from == {t.head, t.focus} \ {Null}
<1>1. \A n \in Node : ToSet(Kids(t, n)) \in SUBSET Node /\ Parent(t, n) \in Node \cup {Null}
  BY NodeIs, NoKids
<1>2. /\ next \in [Node -> SUBSET Node]
      /\ \A n \in Node : next[n] = (ToSet(Kids(t, n)) \cup {Parent(t, n)}) \ {Null}
  BY <1>1
<1>3. from \in SUBSET Node
  BY DEF Trees
<1>4. HeldByTree(t) = Reach(next, from)
  BY DEF HeldByTree
<1>. HIDE DEF next, from
<1>5. /\ Reach(next, from) \in SUBSET Node /\ from \subseteq Reach(next, from)
      /\ \A n \in Reach(next, from) : next[n] \subseteq Reach(next, from)
      /\ \A C \in SUBSET Node :
           from \subseteq C /\ (\A n \in C : next[n] \subseteq C) => Reach(next, from) \subseteq C
  BY <1>2, <1>3, ReachIs
<1>6. ASSUME NEW n \in HeldByTree(t) PROVE ToSet(Kids(t, n)) \subseteq HeldByTree(t)
  <2>1. n \in Node /\ next[n] \subseteq HeldByTree(t)
    BY <1>4, <1>5
  <2>2. ToSet(Kids(t, n)) \subseteq next[n]
    BY <1>1, <1>2, <2>1, NullIsNoNode
  <2>. QED  BY <2>1, <2>2
<1>7. ASSUME NEW A \in SUBSET Node, Closed(t, A) PROVE HeldByTree(t) \subseteq A
  <2>1. from \subseteq A
    BY <1>7 DEF Closed, from
  <2>2. \A n \in A : next[n] \subseteq A
    BY <1>2, <1>7 DEF Closed
  <2>. QED  BY <1>4, <1>5, <2>1, <2>2
<1>. QED  BY <1>4, <1>5, <1>6, <1>7 DEF from

LEMMA CollectIs ==
  ASSUME NEW t \in Trees
  PROVE  /\ Collect(t) \in Trees
         /\ Collect(t).head = t.head /\ Collect(t).focus = t.focus /\ Collect(t).err = t.err
         /\ \A n \in Node : Collect(t).heap[n] = IF n \in HeldByTree(t) THEN t.heap[n] ELSE Freed
<1>. DEFINE h == [n \in Node |-> IF n \in HeldByTree(t) THEN t.heap[n] ELSE Freed]
<1>1. h \in [Node -> Record]
  <2>1. t.heap \in [Node -> Record] /\ Freed \in Record
    BY DEF Trees, Record, Freed
  <2>. QED  BY <2>1
<1>2. \A n \in Node : h[n] = IF n \in HeldByTree(t) THEN t.heap[n] ELSE Freed
  OBVIOUS
<1>3. Collect(t) = [t EXCEPT !.heap = h]
  BY DEF Collect
<1>. HIDE DEF h
<1>. QED  BY <1>1, <1>2, <1>3, HeapIs

(* A free node is found as long as there is one out of the tree's reach. *)
LEMMA FreshIs ==
  ASSUME NEW t \in Trees, NEW A \in SUBSET Node, Closed(t, A), NEW x \in Node \ A, IsFreed(t, x)
  PROVE  /\ Fresh(t) \in Node /\ IsFreed(t, Fresh(t)) /\ Fresh(t) \notin HeldByTree(t)
<1>1. x \in Unused(t)
  BY HeldIs DEF Unused
<1>2. Unused(t) \in SUBSET Nat /\ Unused(t) # {}
  BY <1>1, NullIsNoNode DEF Unused
<1>3. \E n \in Unused(t) : \A m \in Unused(t) : n <= m
  BY <1>2, LeastNat
<1>4. Fresh(t) \in Unused(t)
  BY <1>3 DEF Fresh
<1>. QED  BY <1>4 DEF Unused

LEMMA ItemsAre ==
  ASSUME NEW t \in Trees
  PROVE  /\ \A S, d : Tree(t, S, d) => Items(t) = Showing(t, S)
         /\ t.head = Null => Items(t) = {}
<1>1. ASSUME NEW S, NEW d, Tree(t, S, d) PROVE Items(t) = Showing(t, S)
  BY <1>1, ShownIs DEF Items, Showing
<1>2. ASSUME t.head = Null PROVE Items(t) = {}
  BY <1>2 DEF Items, Shown
<1>. QED  BY <1>1, <1>2

-----------------------------------------------------------------------------
(* The invariant *)

(* Crashed or not, the windows are a tree; until then there is a focus.    *)
Safe(t) ==
  /\ t \in Trees /\ Fit(t)
  /\ t.head # Null => \E S, d : Whole(t, S, d) /\ Distinct(t, S)
  /\ t.err \notin Crashes => (t.head = Null <=> t.focus = Null)

LEMMA Collected ==
  ASSUME NEW t, Safe(t)
  PROVE  Safe(Collect(t)) /\ Items(Collect(t)) = Items(t)
<1>. DEFINE u == Collect(t)
            H == HeldByTree(t)
<1>1. /\ t \in Trees /\ Fit(t) /\ u \in Trees /\ u.head = t.head /\ u.focus = t.focus /\ u.err = t.err
      /\ \A n \in Node : u.heap[n] = IF n \in H THEN t.heap[n] ELSE Freed
  BY CollectIs DEF Safe
<1>2. /\ H \in SUBSET Node /\ {t.head, t.focus} \ {Null} \subseteq H
      /\ \A n \in H : ToSet(Kids(t, n)) \subseteq H
  BY <1>1, HeldIs
<1>. HIDE DEF u, H
<1>3. Fit(u)
  <2>1. ASSUME NEW n \in Node PROVE u.heap[n].item # NoItem <=> Type(u, n) = "LEAF"
    BY <1>1 DEF Fit, Type, Freed
  <2>. QED  BY <2>1 DEF Fit
<1>4. ASSUME NEW S, NEW d, Whole(t, S, d)
      PROVE  Whole(u, S, d) /\ (Distinct(t, S) => Distinct(u, S)) /\ Items(u) = Items(t)
  <2>1. Tree(t, S, d) /\ t.head \in H /\ S \in SUBSET Node
    BY <1>2, <1>4, NullIsNoNode DEF Whole, Tree
  <2>2. S \subseteq H
    BY <1>1, <1>2, <2>1, Rooted
  <2>3. \A n \in S : u.heap[n] = t.heap[n]
    BY <1>1, <2>1, <2>2
  <2>4. /\ Tree(u, S, d) /\ \A n \in S : Full(u, n)
        /\ Distinct(u, S) <=> Distinct(t, S)
        /\ Showing(u, S) = Showing(t, S)
    BY <1>1, <1>4, <2>1, <2>3, SameOn DEF Whole
  <2>5. Items(u) = Items(t)
    BY <1>1, <2>1, <2>4, ItemsAre
  <2>. QED  BY <1>1, <1>3, <2>4, <2>5 DEF Whole
<1>5. Items(u) = Items(t)
  <2>1. CASE t.head = Null
    BY <1>1, <2>1, ItemsAre
  <2>2. CASE t.head # Null
    BY <1>4, <2>2 DEF Safe
  <2>. QED  BY <2>1, <2>2
<1>6. Safe(u)
  BY <1>1, <1>3, <1>4 DEF Safe
<1>. QED  BY <1>5, <1>6 DEF u

(* Only the outcome and the focus change. *)
LEMMA Refocused ==
  ASSUME NEW t, NEW u, Safe(t), u \in Trees, u.heap = t.heap, u.head = t.head,
         u.err \notin Crashes => (u.head = Null <=> u.focus = Null)
  PROVE  Safe(u) /\ Items(u) = Items(t)
<1>1. t \in Trees /\ Fit(u)
  BY SameTree DEF Safe
<1>2. ASSUME NEW S, NEW d, Whole(t, S, d), Distinct(t, S)
      PROVE  Whole(u, S, d) /\ Distinct(u, S) /\ Items(u) = Items(t)
  <2>1. Whole(u, S, d) /\ Distinct(u, S) /\ Showing(u, S) = Showing(t, S)
    BY <1>2, SameTree DEF Whole
  <2>. QED  BY <1>1, <1>2, <2>1, ItemsAre DEF Whole
<1>3. Items(u) = Items(t)
  <2>1. CASE t.head = Null
    BY <1>1, <2>1, ItemsAre
  <2>2. CASE t.head # Null
    BY <1>2, <2>2 DEF Safe
  <2>. QED  BY <2>1, <2>2
<1>. QED  BY <1>1, <1>2, <1>3 DEF Safe

(* The focus is in the tree: what every operation relies on. *)
Ready(t) ==
  /\ t \in Trees /\ Fit(t)
  /\ \/ t.head = Null /\ t.focus = Null
     \/ t.head # Null /\ \E S, d : Whole(t, S, d) /\ Distinct(t, S) /\ t.focus \in S

(* Two nodes are left to allocate. *)
Room(t) == \E x, y \in Node : x # y /\ IsFreed(t, x) /\ IsFreed(t, y)

LEMMA ReadyIsSafe ==
  ASSUME NEW t, Ready(t)
  PROVE  Safe(t)
<1>1. \A S, d : Whole(t, S, d) => S \in SUBSET Node
  BY DEF Whole, Tree
<1>. QED  BY <1>1, NullIsNoNode DEF Ready, Safe

LEMMA SafeIs ==
  ASSUME NEW t, NEW S, NEW d, Whole(t, S, d), Distinct(t, S), t.focus # Null
  PROVE  Safe(t) /\ Items(t) = Showing(t, S)
<1>1. t.head # Null
  BY NullIsNoNode DEF Whole, Tree
<1>2. Items(t) = Showing(t, S)
  BY ItemsAre DEF Whole
<1>3. t \in Trees /\ Fit(t)
  BY DEF Whole
<1>. QED  BY <1>1, <1>2, <1>3 DEF Safe

LEMMA InTree ==
  ASSUME NEW t, NEW S, NEW d, Whole(t, S, d)
  PROVE  /\ S \in SUBSET Node /\ t.head \in S /\ t.head # Null
         /\ \A n \in S : ~ IsFreed(t, n) /\ (Type(t, n) # "LEAF" => Type(t, n) \in Stack)
         /\ \A n \in S \ {t.head} : Linked(t, S, n) /\ Parent(t, n) # Null
         /\ Parent(t, t.head) = Null
         /\ t.focus \in S \cup {Null} => Closed(t, S)
<1>1. /\ Tree(t, S, d) /\ t \in Trees /\ S \in SUBSET Node /\ t.head \in S /\ t.head # Null
      /\ Parent(t, t.head) = Null
  BY NullIsNoNode DEF Whole, Tree
<1>2. \A n \in S : ~ IsFreed(t, n) /\ (Type(t, n) # "LEAF" => Type(t, n) \in Stack)
  BY <1>1 DEF Tree, Good, IsFreed, Stack
<1>3. \A n \in S \ {t.head} : Linked(t, S, n) /\ Parent(t, n) # Null
  BY <1>1, NullIsNoNode DEF Tree, Linked
<1>4. \A n \in S : ToSet(Kids(t, n)) \subseteq S /\ Parent(t, n) \in S \cup {Null}
  BY <1>1, <1>3 DEF Tree, Good, Linked
<1>. QED  BY <1>1, <1>2, <1>3, <1>4 DEF Closed

-----------------------------------------------------------------------------
(* Putting a node in *)

(* The nodes B are a tree of their own, below n. *)
Hangs(t, B, e, n) ==
  /\ B \in SUBSET Node /\ e \in [Node -> Nat] /\ n \in B
  /\ \A m \in B : Good(t, B, e, m) /\ n \notin ToSet(Kids(t, m))
  /\ \A m \in B \ {n} : Linked(t, B, m)

LEMMA SubtreeHangs ==
  ASSUME NEW t \in Trees, NEW S, NEW d, Tree(t, S, d), NEW n \in S,
         NEW u, \A m \in Below(t, n) : u.heap[m] = t.heap[m]
  PROVE  Hangs(u, Below(t, n), d, n)
<1>. DEFINE B == Below(t, n)
<1>1. /\ B \subseteq S /\ n \in B /\ S \in SUBSET Node /\ d \in [Node -> Nat]
      /\ \A m \in B : ToSet(Kids(t, m)) \subseteq B
      /\ \A m \in B \ {n} : d[n] < d[m] /\ Parent(t, m) \in B
  BY Subtree DEF Tree
<1>. HIDE DEF B
<1>2. \A m \in B : Type(u, m) = Type(t, m) /\ Kids(u, m) = Kids(t, m) /\ Parent(u, m) = Parent(t, m)
  BY DEF Type, Kids, Parent, B
<1>3. ASSUME NEW m \in B PROVE Good(u, B, d, m) /\ n \notin ToSet(Kids(u, m))
  <2>1. Good(t, S, d, m) /\ m \in Node /\ n \in Node
    BY <1>1 DEF Tree
  <2>2. Good(u, B, d, m)
    BY <1>1, <1>2, <2>1 DEF Good
  <2>3. ASSUME n \in ToSet(Kids(t, m)) PROVE FALSE
    <3>1. d[m] < d[n] /\ Parent(t, n) = m /\ d[m] \in Nat /\ d[n] \in Nat
      BY <1>1, <2>1, <2>3 DEF Good
    <3>. QED  BY <1>1, <3>1
  <2>. QED  BY <1>2, <2>2, <2>3
<1>4. ASSUME NEW m \in B \ {n} PROVE Linked(u, B, m)
  <2>1. m # t.head
    BY <1>1, <1>4, NullIsNoNode DEF Tree
  <2>. QED  BY <1>1, <1>2, <1>4, <2>1 DEF Tree, Linked
<1>. QED  BY <1>1, <1>3, <1>4 DEF Hangs, B

(* u is t with n as the k-th child of p. *)
PutIn(t, u, p, k, n) ==
  /\ u \in Trees /\ u.head = t.head
  /\ \A m \in Node : /\ Type(u, m) = Type(t, m) /\ u.heap[m].item = t.heap[m].item
                     /\ m # p => Kids(u, m) = Kids(t, m)
                     /\ m # n => Parent(u, m) = Parent(t, m)
  /\ Kids(u, p) = InsertAt(Kids(t, p), k, n) /\ Parent(u, n) = p

LEMMA Grafted ==
  ASSUME NEW t \in Trees, NEW S, NEW d, Tree(t, S, d),
         NEW B, NEW e, NEW n, Hangs(t, B, e, n), S \cap B = {},
         NEW p \in S, Type(t, p) \in Stack, Len(Kids(t, p)) < MaxChildren,
         NEW k \in 1 .. Len(Kids(t, p)) + 1,
         NEW u, PutIn(t, u, p, k, n)
  PROVE  \E f : Tree(u, S \cup B, f)
<1>. DEFINE f == [m \in Node |-> IF m \in B THEN e[m] + d[p] + 1 ELSE d[m]]
            S2 == S \cup B
<1>1. /\ S \in SUBSET Node /\ B \in SUBSET Node /\ d \in [Node -> Nat] /\ e \in [Node -> Nat]
      /\ n \in B /\ n \in Node /\ p \in Node /\ p \notin B /\ n \notin S
  BY DEF Tree, Hangs
<1>10. /\ u.head = t.head
       /\ \A m \in Node : /\ Type(u, m) = Type(t, m)
                          /\ m # p => Kids(u, m) = Kids(t, m)
                          /\ m # n => Parent(u, m) = Parent(t, m)
       /\ Kids(u, p) = InsertAt(Kids(t, p), k, n) /\ Parent(u, n) = p
  BY DEF PutIn
<1>2. /\ f \in [Node -> Nat]
      /\ \A m \in B : f[m] = e[m] + d[p] + 1
      /\ \A m \in S : f[m] = d[m]
  BY <1>1
<1>. HIDE DEF f
<1>3. Good(t, S, d, p) /\ Kids(t, p) \in Seq(Node) /\ n \notin ToSet(Kids(t, p))
  BY <1>1, NodeIs DEF Tree, Good
<1>4. /\ Kids(u, p) \in Seq(Node) /\ Len(Kids(u, p)) = Len(Kids(t, p)) + 1
      /\ ToSet(Kids(u, p)) = ToSet(Kids(t, p)) \cup {n} /\ IsInjective(Kids(u, p))
  BY <1>10, <1>1, <1>3, InsertAtIs DEF Good
<1>5. ASSUME NEW m \in S PROVE Good(u, S2, f, m)
  <2>1. Good(t, S, d, m) /\ m \in Node /\ m \notin B
    BY <1>10, <1>1 DEF Tree
  <2>2. CASE m = p
    <3>1. ASSUME NEW c \in ToSet(Kids(u, p)) PROVE c \in S2 /\ Parent(u, c) = p /\ f[p] < f[c]
      <4>1. CASE c = n
        <5>1. f[p] = d[p] /\ f[n] = e[n] + d[p] + 1 /\ d[p] \in Nat /\ e[n] \in Nat
          BY <1>10, <1>1, <1>2
        <5>. QED  BY <1>10, <1>1, <4>1, <5>1
      <4>2. CASE c # n
        <5>1. c \in S /\ Parent(t, c) = p /\ d[p] < d[c]
          BY <1>10, <1>3, <1>4, <4>2 DEF Good
        <5>. QED  BY <1>10, <1>1, <1>2, <4>2, <5>1
      <4>. QED  BY <1>10, <4>1, <4>2
    <3>2. Len(Kids(u, p)) <= MaxChildren
      <4>1. PICK l \in Nat : l = Len(Kids(t, p))
        BY <1>10, <1>3
      <4>. QED  BY <1>10, <1>4, <4>1, Sizes
    <3>3. Type(u, p) \in Stack
      BY <1>10, <1>1
    <3>. QED  BY <1>10, <1>4, <2>2, <3>1, <3>2, <3>3 DEF Good, Stack
  <2>3. CASE m # p
    <3>1. ASSUME NEW c \in ToSet(Kids(t, m)) PROVE c \in S2 /\ Parent(u, c) = m /\ f[m] < f[c]
      <4>1. c \in S /\ Parent(t, c) = m /\ d[m] < d[c] /\ c # n
        BY <1>10, <1>1, <2>1 DEF Good
      <4>. QED  BY <1>10, <1>1, <1>2, <4>1
    <3>2. Type(u, m) = Type(t, m) /\ Kids(u, m) = Kids(t, m)
      BY <1>10, <2>1, <2>3
    <3>. QED  BY <1>10, <2>1, <3>1, <3>2 DEF Good
  <2>. QED  BY <1>10, <2>2, <2>3
<1>6. ASSUME NEW m \in B PROVE Good(u, S2, f, m)
  <2>1. Good(t, B, e, m) /\ m \in Node /\ m # p
    BY <1>10, <1>1 DEF Hangs
  <2>2. ASSUME NEW c \in ToSet(Kids(t, m)) PROVE c \in S2 /\ Parent(u, c) = m /\ f[m] < f[c]
    <3>1. c \in B /\ Parent(t, c) = m /\ e[m] < e[c]
      BY <1>10, <2>1 DEF Good
    <3>2. c # n
      BY DEF Hangs
    <3>3. e[m] \in Nat /\ e[c] \in Nat /\ d[p] \in Nat
      BY <1>10, <1>1, <2>1, <3>1
    <3>. QED  BY <1>10, <1>1, <1>2, <3>1, <3>2, <3>3
  <2>3. Type(u, m) = Type(t, m) /\ Kids(u, m) = Kids(t, m)
    BY <1>10, <2>1
  <2>. QED  BY <1>10, <2>1, <2>2, <2>3 DEF Good
<1>7. ASSUME NEW m \in S2 \ {t.head} PROVE Linked(u, S2, m)
  <2>1. CASE m = n
    BY <1>10, <1>1, <1>4, <2>1 DEF Linked
  <2>2. CASE m # n /\ m \in S
    <3>1. Parent(t, m) \in S /\ m \in ToSet(Kids(t, Parent(t, m))) /\ Parent(u, m) = Parent(t, m)
      BY <1>10, <1>1, <1>7, <2>2 DEF Tree, Linked
    <3>2. m \in ToSet(Kids(u, Parent(t, m)))
      BY <1>10, <1>1, <1>4, <3>1
    <3>. QED  BY <1>10, <3>1, <3>2 DEF Linked
  <2>3. CASE m # n /\ m \in B
    <3>1. Parent(t, m) \in B /\ m \in ToSet(Kids(t, Parent(t, m))) /\ Parent(u, m) = Parent(t, m)
      BY <1>10, <1>1, <2>3 DEF Hangs, Linked
    <3>2. m \in ToSet(Kids(u, Parent(t, m)))
      BY <1>10, <1>1, <3>1
    <3>. QED  BY <1>10, <3>1, <3>2 DEF Linked
  <2>. QED  BY <1>10, <2>1, <2>2, <2>3
<1>8. u.head \in S2 /\ Parent(u, u.head) = Null
  BY <1>10, <1>1 DEF Tree
<1>9. Tree(u, S2, f)
  BY <1>10, <1>1, <1>2, <1>5, <1>6, <1>7, <1>8 DEF Tree
<1>. QED  BY <1>9

-----------------------------------------------------------------------------
(* twm_insert_node and twm_tree_add_window *)

LEMMA LinkIs ==
  ASSUME NEW t \in Trees, NEW p \in Node, NEW n \in Node, n # p,
         NEW k \in 1 .. Len(Kids(t, p)) + 1, InsertAt(Kids(t, p), k, n) \in Seq(Node)
  PROVE  LET u == Link(t, n, p, k)
         IN  /\ PutIn(t, u, p, k, n)
             /\ u \in Trees /\ u.head = t.head /\ u.focus = t.focus /\ u.err = t.err
             /\ \A m \in Node : /\ Type(u, m) = Type(t, m) /\ u.heap[m].item = t.heap[m].item
                                /\ m # p => Kids(u, m) = Kids(t, m)
                                /\ m # n => Parent(u, m) = Parent(t, m)
                                /\ m \notin {n, p} => u.heap[m] = t.heap[m]
             /\ Kids(u, p) = InsertAt(Kids(t, p), k, n) /\ Parent(u, n) = p
<1>. DEFINE s == InsertAt(Kids(t, p), k, n)
            h == [t.heap EXCEPT ![p].kids = s, ![n].parent = p]
            u == Link(t, n, p, k)
<1>1. u = [t EXCEPT !.heap = h]
  BY DEF Link, Kids
<1>2. t.heap \in [Node -> Record]
  BY DEF Trees
<1>. HIDE DEF s
<1>3. s \in Seq(Node)
  BY DEF s
<1>4. /\ h \in [Node -> Record] /\ h[p].kids = s /\ h[n].parent = p
      /\ \A m \in Node : /\ h[m].type = t.heap[m].type /\ h[m].item = t.heap[m].item
                         /\ m # p => h[m].kids = t.heap[m].kids
                         /\ m # n => h[m].parent = t.heap[m].parent
                         /\ m \notin {n, p} => h[m] = t.heap[m]
  BY <1>2, <1>3 DEF Record
<1>. HIDE DEF h, u
<1>6. u \in Trees /\ u.heap = h /\ u.head = t.head /\ u.focus = t.focus /\ u.err = t.err
  BY <1>1, <1>4, HeapIs
<1>7. ASSUME NEW m \in Node
      PROVE  /\ Type(u, m) = Type(t, m) /\ u.heap[m].item = t.heap[m].item
             /\ m # p => Kids(u, m) = Kids(t, m)
             /\ m # n => Parent(u, m) = Parent(t, m)
             /\ m \notin {n, p} => u.heap[m] = t.heap[m]
  BY <1>4, <1>6 DEF Type, Kids, Parent
<1>8. Kids(u, p) = s /\ Parent(u, n) = p
  BY <1>4, <1>6 DEF Kids, Parent
<1>9. PutIn(t, u, p, k, n)
  BY <1>6, <1>7, <1>8 DEF PutIn, s
<1>. QED  BY <1>6, <1>7, <1>8, <1>9 DEF s, u

(* A new window goes into a stack. *)
Inserted(t, S, n, u) ==
  /\ \E f : Whole(u, S \cup {n}, f)
  /\ u.head = t.head /\ u.focus = t.focus /\ u.err = "SUCC"
  /\ Distinct(t, S) /\ t.heap[n].item \notin Showing(t, S) => Distinct(u, S \cup {n})

LEMMA Inserts ==
  ASSUME NEW t, NEW S, NEW d, Whole(t, S, d), NEW n \in Node \ S, Type(t, n) = "LEAF", Kids(t, n) = << >>,
         NEW p \in S, Type(t, p) \in Stack, Len(Kids(t, p)) < MaxChildren,
         NEW k \in 1 .. Len(Kids(t, p)) + 1
  PROVE  Inserted(t, S, n, InsertAny(t, n, p, k))
<1>. DEFINE v == Link(t, n, p, k)
            T == S \cup {n}
<1>1. /\ t \in Trees /\ Fit(t) /\ Tree(t, S, d) /\ S \in SUBSET Node /\ p \in Node /\ p # n /\ n \in Node
      /\ \A m \in S : Full(t, m)
  BY DEF Whole, Tree
<1>2. /\ Good(t, S, d, p) /\ Kids(t, p) \in Seq(Node) /\ n \notin ToSet(Kids(t, p))
  BY <1>1, NodeIs DEF Tree, Good
<1>3. InsertAt(Kids(t, p), k, n) \in Seq(Node)
  BY <1>1, <1>2, InsertAtIs DEF Good
<1>4. /\ PutIn(t, v, p, k, n)
      /\ v \in Trees /\ v.head = t.head /\ v.focus = t.focus /\ v.err = t.err
      /\ \A m \in Node : /\ Type(v, m) = Type(t, m) /\ v.heap[m].item = t.heap[m].item
                         /\ m # p => Kids(v, m) = Kids(t, m)
                         /\ m # n => Parent(v, m) = Parent(t, m)
                         /\ m \notin {n, p} => v.heap[m] = t.heap[m]
      /\ Kids(v, p) = InsertAt(Kids(t, p), k, n) /\ Parent(v, n) = p
  BY <1>1, <1>3, LinkIs
<1>. HIDE DEF v
<1>5. Hangs(t, {n}, [m \in Node |-> 0], n)
  <2>1. ToSet(Kids(t, n)) = {} /\ IsInjective(Kids(t, n)) /\ Len(Kids(t, n)) = 0
    BY DEF ToSet, IsInjective
  <2>2. Good(t, {n}, [m \in Node |-> 0], n)
    BY <2>1, Sizes DEF Good
  <2>. QED  BY <1>1, <2>1, <2>2 DEF Hangs
<1>6. (\E f : Tree(v, T, f)) /\ Len(Kids(v, p)) = Len(Kids(t, p)) + 1
  <2>. DEFINE e == [m \in Node |-> 0]
  <2>1. Hangs(t, {n}, e, n) /\ S \cap {n} = {}
    BY <1>5
  <2>. HIDE DEF e
  <2>2. PutIn(t, v, p, k, n)
    BY <1>4
  <2>3. t \in Trees /\ Tree(t, S, d)
    BY <1>1
  <2>4. \E f : Tree(v, S \cup {n}, f)
    BY <2>1, <2>2, <2>3, Grafted
  <2>5. Len(Kids(v, p)) = Len(Kids(t, p)) + 1
    BY <1>1, <1>2, <1>4, InsertAtIs DEF Good
  <2>. QED  BY <2>4, <2>5
<1>7. PICK f : Tree(v, T, f)
  BY <1>6
<1>8. Fit(v)
  BY <1>1, <1>4 DEF Fit
<1>9. ASSUME NEW m \in T PROVE Full(v, m)
  <2>1. CASE m = n
    BY <1>1, <1>4, <2>1 DEF Full
  <2>2. CASE m = p
    <3>1. PICK l \in Nat : l = Len(Kids(t, p)) /\ (Kids(t, p) = << >> <=> l = 0)
      BY <1>2, NoKids
    <3>2. Kids(v, p) \in Seq(Node) /\ Len(Kids(v, p)) = l + 1
      BY <1>3, <1>4, <1>6, <3>1
    <3>3. Kids(v, p) # << >>
      BY <3>1, <3>2
    <3>4. ASSUME Len(Kids(v, p)) = 1 PROVE Type(v, Kids(v, p)[1]) = "LEAF"
      <4>4. l + 1 = 1
        BY <3>2, <3>4, Zenon
      <4>1. l = 0
        BY <4>4
      <4>2. ToSet(Kids(v, p)) = {n}
        <5>1. ToSet(Kids(t, p)) = {}
          BY <1>2, <3>1, <4>1, NoKids
        <5>. QED  BY <1>1, <1>2, <1>4, <5>1, InsertAtIs DEF Good
      <4>3. Kids(v, p)[1] = n
        BY <3>2, <3>4, <4>2, OneKid
      <4>. QED  BY <1>1, <1>4, <4>3
    <3>. QED  BY <2>2, <3>3, <3>4 DEF Full
  <2>3. CASE m # n /\ m # p
    <3>1. Full(t, m) /\ Kids(v, m) = Kids(t, m) /\ Type(v, m) = Type(t, m) /\ m \in Node
      BY <1>1, <1>4, <2>3
    <3>2. ASSUME Len(Kids(t, m)) = 1 PROVE Type(v, Kids(t, m)[1]) = "LEAF"
      <4>1. Kids(t, m)[1] \in Node
        BY <1>1, <3>1, <3>2, NodeIs, OneKid
      <4>. QED  BY <1>4, <3>1, <3>2, <4>1 DEF Full
    <3>. QED  BY <1>4, <3>1, <3>2 DEF Full
  <2>. QED  BY <2>1, <2>2, <2>3
<1>10. Whole(v, T, f)
  BY <1>4, <1>7, <1>8, <1>9 DEF Whole
<1>11. Distinct(t, S) /\ t.heap[n].item \notin Showing(t, S) => Distinct(v, T)
  <2>. SUFFICES ASSUME Distinct(t, S), t.heap[n].item \notin Showing(t, S),
                       NEW a \in T, NEW b \in T, Type(v, a) = "LEAF", Type(v, b) = "LEAF",
                       v.heap[a].item = v.heap[b].item, v.heap[a].item # Gone
                PROVE  a = b
    BY DEF Distinct
  <2>1. /\ Type(t, a) = "LEAF" /\ Type(t, b) = "LEAF" /\ t.heap[a].item = t.heap[b].item
        /\ t.heap[a].item # Gone
    BY <1>1, <1>4
  <2>2. CASE a \in S /\ b \in S
    BY <2>1, <2>2 DEF Distinct
  <2>3. CASE a = n /\ b \in S
    BY <2>1, <2>3 DEF Showing
  <2>4. CASE b = n /\ a \in S
    BY <2>1, <2>4 DEF Showing
  <2>. QED  BY <2>2, <2>3, <2>4
<1>12. Redrawn(v, p) = Ok(v)
  <2>1. Kids(v, p) # << >> /\ p \in T
    <3>1. PICK l \in Nat : l = Len(Kids(t, p))
      BY <1>2
    <3>2. Len(Kids(v, p)) = l + 1
      BY <1>6, <3>1
    <3>. QED  BY <3>1, <3>2
  <2>. QED  BY <1>4, <1>7, <1>9, <2>1, Redraws
<1>13. InsertAny(t, n, p, k) = Ok(v)
  BY <1>12 DEF InsertAny, v
<1>14. /\ Ok(v) \in Trees /\ Ok(v).heap = v.heap /\ Ok(v).head = v.head /\ Ok(v).focus = v.focus
       /\ Ok(v).err = "SUCC"
  BY <1>4, OkIs DEF Outcomes
<1>15. Whole(Ok(v), T, f) /\ (Distinct(v, T) => Distinct(Ok(v), T))
  BY <1>10, <1>14, SameTree DEF Whole
<1>. QED  BY <1>4, <1>11, <1>13, <1>14, <1>15 DEF Inserted

LEMMA NewLeafIs ==
  ASSUME NEW t \in Trees, NEW n \in Node, NEW item \in Item
  PROVE  LET u == NewLeaf(t, n, item)
         IN  /\ u \in Trees /\ u.head = t.head /\ u.focus = t.focus /\ u.err = t.err
             /\ \A m \in Node \ {n} : u.heap[m] = t.heap[m]
             /\ Type(u, n) = "LEAF" /\ Kids(u, n) = << >> /\ u.heap[n].item = item
             /\ Parent(u, n) = Null
<1>. DEFINE leaf == Leaf(item, Null)
            h == [t.heap EXCEPT ![n] = leaf]
            u == NewLeaf(t, n, item)
<1>1. t.heap \in [Node -> Record]
  BY DEF Trees
<1>2. leaf \in Record /\ leaf.type = "LEAF" /\ leaf.kids = << >> /\ leaf.item = item
      /\ leaf.parent = Null
  <2>1. leaf = [type |-> "LEAF", parent |-> Null, item |-> item, kids |-> << >>]
    BY DEF Leaf
  <2>2. << >> \in Seq(Node)
    OBVIOUS
  <2>. HIDE DEF leaf
  <2>. QED  BY <2>1, <2>2 DEF Record
<1>3. u = [t EXCEPT !.heap = h]
  BY DEF NewLeaf
<1>. HIDE DEF leaf
<1>4. h \in [Node -> Record] /\ h[n] = leaf /\ \A m \in Node \ {n} : h[m] = t.heap[m]
  BY <1>1, <1>2
<1>. HIDE DEF h, u
<1>5. u \in Trees /\ u.heap = h /\ u.head = t.head /\ u.focus = t.focus /\ u.err = t.err
  BY <1>3, <1>4, HeapIs
<1>. QED  BY <1>2, <1>4, <1>5 DEF u, Type, Kids, Parent

LEMMA WrapIs ==
  ASSUME NEW t \in Trees, NEW n \in Node, NEW c \in Node, c = Fresh(t), c # n, NEW type \in Stack
  PROVE  LET u == WrapLeaf(t, n, type)
         IN  /\ u \in Trees /\ u.head = t.head /\ u.focus = t.focus /\ u.err = t.err
             /\ \A m \in Node \ {n, c} : u.heap[m] = t.heap[m]
             /\ Type(u, n) = type /\ Kids(u, n) = <<c>> /\ u.heap[n].item = NoItem
             /\ Parent(u, n) = Parent(t, n)
             /\ Type(u, c) = "LEAF" /\ Kids(u, c) = << >> /\ u.heap[c].item = t.heap[n].item
             /\ Parent(u, c) = n
<1>. DEFINE leaf == Leaf(t.heap[n].item, n)
            h == [t.heap EXCEPT ![c] = leaf, ![n].type = type, ![n].item = NoItem, ![n].kids = <<c>>]
            u == WrapLeaf(t, n, type)
<1>1. t.heap \in [Node -> Record]
  BY DEF Trees
<1>2. /\ leaf \in Record /\ leaf.type = "LEAF" /\ leaf.kids = << >> /\ leaf.item = t.heap[n].item
      /\ leaf.parent = n
  <2>1. leaf = [type |-> "LEAF", parent |-> n, item |-> t.heap[n].item, kids |-> << >>]
    BY DEF Leaf
  <2>2. << >> \in Seq(Node) /\ t.heap[n].item \in Item \cup {NoItem, Gone}
    BY <1>1 DEF Record
  <2>. HIDE DEF leaf
  <2>. QED  BY <2>1, <2>2 DEF Record
<1>3. u = [t EXCEPT !.heap = h]
  BY DEF WrapLeaf
<1>. HIDE DEF leaf
<1>4. /\ h \in [Node -> Record] /\ h[c] = leaf /\ \A m \in Node \ {n, c} : h[m] = t.heap[m]
      /\ h[n].type = type /\ h[n].item = NoItem /\ h[n].kids = <<c>> /\ h[n].parent = t.heap[n].parent
  <2>. DEFINE kids == <<c>>
              g == [t.heap EXCEPT ![c] = leaf]
  <2>1. kids \in Seq(Node)
    OBVIOUS
  <2>. HIDE DEF kids
  <2>2. g \in [Node -> Record] /\ g[c] = leaf /\ g[n] = t.heap[n] /\ \A m \in Node \ {c} : g[m] = t.heap[m]
    BY <1>1, <1>2
  <2>3. h = [g EXCEPT ![n].type = type, ![n].item = NoItem, ![n].kids = kids]
    BY DEF kids
  <2>. HIDE DEF g, h
  <2>4. /\ h \in [Node -> Record] /\ h[n].type = type /\ h[n].item = NoItem /\ h[n].kids = kids
        /\ h[n].parent = g[n].parent /\ \A m \in Node \ {n} : h[m] = g[m]
    BY <2>1, <2>2, <2>3 DEF Record
  <2>. QED  BY <2>2, <2>4 DEF kids
<1>. HIDE DEF h, u
<1>5. u \in Trees /\ u.heap = h /\ u.head = t.head /\ u.focus = t.focus /\ u.err = t.err
  BY <1>3, <1>4, HeapIs
<1>. QED  BY <1>2, <1>4, <1>5 DEF u, Type, Kids, Parent

LEMMA OneSeq ==
  ASSUME NEW S, NEW c \in S
  PROVE  <<c>> \in Seq(S) /\ Len(<<c>>) = 1 /\ <<c>>[1] = c /\ ToSet(<<c>>) = {c} /\ IsInjective(<<c>>)
BY DEF ToSet, IsInjective

(* The window n becomes a stack with the window below it. *)
LEMMA Wraps ==
  ASSUME NEW t, NEW S, NEW d, Whole(t, S, d), NEW n \in S, Type(t, n) = "LEAF",
         NEW c \in Node \ S, c = Fresh(t), NEW type \in Stack,
         n = t.head \/ Len(Kids(t, Parent(t, n))) # 1
  PROVE  LET u == WrapLeaf(t, n, type)
         IN  /\ \E f : Whole(u, S \cup {c}, f)
             /\ u.head = t.head /\ u.focus = t.focus /\ u.err = t.err
             /\ Distinct(t, S) => Distinct(u, S \cup {c})
             /\ Showing(u, S \cup {c}) = Showing(t, S)
             /\ Type(u, n) = type /\ Kids(u, n) = <<c>>
             /\ \A m \in Node \ {n, c} : u.heap[m] = t.heap[m]
<1>. DEFINE u == WrapLeaf(t, n, type)
            T == S \cup {c}
            f == [d EXCEPT ![c] = d[n] + 1]
<1>1. /\ t \in Trees /\ Fit(t) /\ Tree(t, S, d) /\ S \in SUBSET Node /\ n \in Node /\ c \in Node /\ c # n
      /\ d \in [Node -> Nat]
      /\ \A m \in S : Full(t, m)
  BY DEF Whole, Tree
<1>2. /\ u \in Trees /\ u.head = t.head /\ u.focus = t.focus /\ u.err = t.err
      /\ \A m \in Node \ {n, c} : u.heap[m] = t.heap[m]
      /\ Type(u, n) = type /\ Kids(u, n) = <<c>> /\ u.heap[n].item = NoItem
      /\ Parent(u, n) = Parent(t, n)
      /\ Type(u, c) = "LEAF" /\ Kids(u, c) = << >> /\ u.heap[c].item = t.heap[n].item
      /\ Parent(u, c) = n
  BY <1>1, WrapIs
<1>3. /\ f \in [Node -> Nat] /\ f[c] = d[n] + 1 /\ f[n] = d[n]
      /\ \A m \in S : f[m] = d[m]
  BY <1>1
<1>. HIDE DEF u, f
<1>4. \A m \in S \ {n} : /\ Type(u, m) = Type(t, m) /\ Kids(u, m) = Kids(t, m)
                         /\ Parent(u, m) = Parent(t, m) /\ u.heap[m].item = t.heap[m].item
  BY <1>1, <1>2 DEF Type, Kids, Parent
<1>5. <<c>> \in Seq(Node) /\ Len(<<c>>) = 1 /\ <<c>>[1] = c /\ ToSet(<<c>>) = {c} /\ IsInjective(<<c>>)
  BY <1>1, OneSeq
<1>6. ASSUME NEW m \in T PROVE Good(u, T, f, m)
  <2>1. CASE m = c
    <3>1. ToSet(Kids(u, c)) = {} /\ IsInjective(Kids(u, c)) /\ Len(Kids(u, c)) = 0
      BY <1>2 DEF ToSet, IsInjective
    <3>. QED  BY <1>2, <2>1, <3>1, Sizes DEF Good
  <2>2. CASE m = n
    <3>1. Type(u, n) \in Stack /\ Type(u, n) # "LEAF"
      BY <1>2 DEF Stack
    <3>2. d[n] \in Nat
      BY <1>1
    <3>3. \A e \in ToSet(Kids(u, n)) : e \in T /\ Parent(u, e) = n /\ f[n] < f[e]
      BY <1>2, <1>3, <1>5, <3>2
    <3>4. IsInjective(Kids(u, n)) /\ Len(Kids(u, n)) <= MaxChildren
      BY <1>2, <1>5, Sizes
    <3>. QED  BY <2>2, <3>1, <3>3, <3>4 DEF Good
  <2>3. CASE m # c /\ m # n
    <3>1. Good(t, S, d, m) /\ m \in S
      BY <1>1, <2>3 DEF Tree
    <3>2. ASSUME NEW e \in ToSet(Kids(t, m)) PROVE e \in T /\ Parent(u, e) = m /\ f[m] < f[e]
      <4>1. e \in S /\ Parent(t, e) = m /\ d[m] < d[e]
        BY <3>1 DEF Good
      <4>. QED  BY <1>2, <1>3, <1>4, <3>1, <4>1
    <3>. QED  BY <1>4, <2>3, <3>1, <3>2 DEF Good
  <2>. QED  BY <2>1, <2>2, <2>3
<1>7. ASSUME NEW m \in T \ {t.head} PROVE Linked(u, T, m)
  <2>1. CASE m = c
    BY <1>2, <1>5, <2>1 DEF Linked
  <2>2. CASE m # c
    <3>1. Parent(t, m) \in S /\ m \in ToSet(Kids(t, Parent(t, m))) /\ m \in S
      BY <1>1, <1>7, <2>2 DEF Tree, Linked
    <3>2. Parent(t, m) # n
      <4>1. Kids(t, n) = << >>
        BY <1>1 DEF Tree, Good
      <4>2. ToSet(Kids(t, n)) = {}
        BY <4>1 DEF ToSet
      <4>. QED  BY <3>1, <4>2
    <3>3. Parent(u, m) = Parent(t, m)
      BY <1>2, <1>4, <3>1
    <3>. QED  BY <1>4, <3>1, <3>2, <3>3 DEF Linked
  <2>. QED  BY <2>1, <2>2
<1>8. u.head \in T /\ Parent(u, u.head) = Null
  BY <1>1, <1>2, <1>4 DEF Tree
<1>9. Tree(u, T, f)
  BY <1>1, <1>2, <1>3, <1>6, <1>7, <1>8 DEF Tree
<1>10. Fit(u)
  <2>1. ASSUME NEW m \in Node PROVE u.heap[m].item # NoItem <=> Type(u, m) = "LEAF"
    <3>1. CASE m \in {n, c}
      <4>1. t.heap[n].item # NoItem
        BY <1>1 DEF Fit
      <4>2. type # "LEAF"
        BY DEF Stack
      <4>. QED  BY <1>2, <3>1, <4>1, <4>2
    <3>2. CASE m \notin {n, c}
      BY <1>1, <1>2, <3>2 DEF Fit, Type
    <3>. QED  BY <3>1, <3>2
  <2>. QED  BY <2>1 DEF Fit
<1>11. ASSUME NEW m \in T PROVE Full(u, m)
  <2>1. CASE m = c
    BY <1>2, <2>1 DEF Full
  <2>2. CASE m = n
    <3>1. Kids(u, n) # << >>
      BY <1>2
    <3>. QED  BY <1>2, <1>5, <2>2, <3>1 DEF Full
  <2>3. CASE m # c /\ m # n
    <3>1. Full(t, m) /\ Kids(u, m) = Kids(t, m) /\ Type(u, m) = Type(t, m) /\ m \in S /\ m \in Node
      BY <1>1, <1>4, <2>3
    <3>2. ASSUME Len(Kids(t, m)) = 1 PROVE Type(u, Kids(t, m)[1]) = "LEAF"
      <4>. DEFINE e == Kids(t, m)[1]
      <4>1. e \in ToSet(Kids(t, m)) /\ Type(t, e) = "LEAF"
        BY <1>1, <3>1, <3>2, NodeIs, OneKid DEF Full
      <4>2. e \in S /\ Parent(t, e) = m
        BY <1>1, <3>1, <4>1 DEF Tree, Good
      <4>3. e # n
        <5>. SUFFICES ASSUME e = n PROVE FALSE
          OBVIOUS
        <5>1. n = t.head
          BY <3>2, <4>2
        <5>2. m = Null
          BY <1>1, <4>2, <5>1 DEF Tree
        <5>. QED  BY <3>1, <5>2, NullIsNoNode
      <4>. QED  BY <1>4, <4>1, <4>2, <4>3
    <3>. QED  BY <1>2, <3>1, <3>2 DEF Full
  <2>. QED  BY <2>1, <2>2, <2>3
<1>12. Whole(u, T, f)
  BY <1>2, <1>9, <1>10, <1>11 DEF Whole
<1>. DEFINE o(m) == IF m = c THEN n ELSE m
<1>13. \A m \in T : Type(u, m) = "LEAF" => o(m) \in S /\ Type(t, o(m)) = "LEAF" /\ u.heap[m].item = t.heap[o(m)].item
  <2>1. type # "LEAF"
    BY DEF Stack
  <2>. QED  BY <1>2, <1>4, <2>1
<1>14. \A m \in S : Type(t, m) = "LEAF" => \E x \in T : Type(u, x) = "LEAF" /\ u.heap[x].item = t.heap[m].item
  BY <1>2, <1>4
<1>15. \A a, b \in T : Type(u, a) = "LEAF" /\ Type(u, b) = "LEAF" /\ o(a) = o(b) => a = b
  <2>1. type # "LEAF"
    BY DEF Stack
  <2>. QED  BY <1>2, <2>1
<1>. HIDE DEF o
<1>16. Distinct(t, S) => Distinct(u, T)
  BY <1>13, <1>15 DEF Distinct
<1>17. Showing(u, T) = Showing(t, S)
  BY <1>13, <1>14 DEF Showing
<1>. QED  BY <1>2, <1>12, <1>16, <1>17 DEF u

(* A tree of one window. *)
LEMMA OneWindow ==
  ASSUME NEW t \in Trees, Fit(t), NEW n \in Node, t.head = n, Type(t, n) = "LEAF",
         Kids(t, n) = << >>, Parent(t, n) = Null
  PROVE  \E d : Whole(t, {n}, d) /\ Distinct(t, {n})
<1>. DEFINE d == [m \in Node |-> 0]
<1>1. ToSet(Kids(t, n)) = {} /\ IsInjective(Kids(t, n)) /\ Len(Kids(t, n)) = 0
  BY DEF ToSet, IsInjective
<1>2. Good(t, {n}, d, n)
  BY <1>1, Sizes DEF Good
<1>3. d \in [Node -> Nat]
  OBVIOUS
<1>. HIDE DEF d
<1>4. Tree(t, {n}, d)
  BY <1>2, <1>3 DEF Tree
<1>5. Full(t, n)
  BY <1>1 DEF Full
<1>6. Whole(t, {n}, d) /\ Distinct(t, {n})
  BY <1>4, <1>5 DEF Whole, Distinct
<1>. QED  BY <1>6

LEMMA Adds ==
  ASSUME NEW t, Ready(t), NEW free \in Node, IsFreed(t, free), t.head # Null => Room(t),
         NEW item \in Item, item \notin Items(t)
  PROVE  Safe(AddWindow(t, item))
<1>. DEFINE n == Fresh(t)
            f == NewLeaf(t, n, item)
<1>2. t \in Trees /\ Fit(t)
  BY DEF Ready
<1>3. item # NoItem
  BY TwmAssumption
<1>4. ASSUME n \in Node, IsFreed(t, n)
      PROVE  /\ f \in Trees /\ f.head = t.head /\ f.focus = t.focus /\ f.err = t.err
             /\ \A m \in Node \ {n} : f.heap[m] = t.heap[m]
             /\ Type(f, n) = "LEAF" /\ Kids(f, n) = << >> /\ f.heap[n].item = item
             /\ Parent(f, n) = Null
             /\ Fit(f)
  <2>1. /\ f \in Trees /\ f.head = t.head /\ f.focus = t.focus /\ f.err = t.err
        /\ \A m \in Node \ {n} : f.heap[m] = t.heap[m]
        /\ Type(f, n) = "LEAF" /\ Kids(f, n) = << >> /\ f.heap[n].item = item
        /\ Parent(f, n) = Null
    BY <1>2, <1>4, NewLeafIs
  <2>2. Fit(f)
    <3>. SUFFICES ASSUME NEW m \in Node PROVE f.heap[m].item # NoItem <=> Type(f, m) = "LEAF"
      BY DEF Fit
    <3>1. CASE m = n
      BY <1>3, <2>1, <3>1
    <3>2. CASE m # n
      BY <1>2, <2>1, <3>2 DEF Fit, Type
    <3>. QED  BY <3>1, <3>2
  <2>. QED  BY <2>1, <2>2
<1>5. CASE t.head = Null
  <2>1. Closed(t, {})
    BY <1>5, NullIsNoNode DEF Ready, Closed, Whole, Tree
  <2>2. n \in Node /\ IsFreed(t, n)
    BY <1>2, <2>1, FreshIs
  <2>. DEFINE u == Ok(SetFocus([f EXCEPT !.head = n], n))
  <2>3. AddWindow(t, item) = u
    BY <1>5 DEF AddWindow
  <2>4. u \in Trees /\ u.heap = f.heap /\ u.head = n /\ u.focus = n
    <3>1. f \in Trees
      BY <1>4, <2>2
    <3>. HIDE DEF f, n
    <3>. QED  BY <2>2, <3>1 DEF Ok, SetFocus, Trees, Outcomes
  <2>. HIDE DEF u
  <2>5. Fit(u) /\ Type(u, n) = "LEAF" /\ Kids(u, n) = << >> /\ Parent(u, n) = Null
    BY <1>4, <2>2, <2>4 DEF Fit, Type, Kids, Parent
  <2>6. PICK d : Whole(u, {n}, d) /\ Distinct(u, {n})
    BY <2>2, <2>4, <2>5, OneWindow
  <2>. QED  BY <2>2, <2>3, <2>4, <2>6, SafeIs, NullIsNoNode
<1>6. CASE t.head # Null
  <2>0. PICK x \in Node, y \in Node : x # y /\ IsFreed(t, x) /\ IsFreed(t, y)
    BY <1>6 DEF Room
  <2>1. PICK S, d : Whole(t, S, d) /\ Distinct(t, S) /\ t.focus \in S
    BY <1>6 DEF Ready
  <2>2. Closed(t, S) /\ S \in SUBSET Node /\ t.focus \in Node /\ t.focus # Null
    BY <2>1, InTree, NullIsNoNode
  <2>3. x \notin S /\ y \notin S
    BY <2>0, <2>1, InTree
  <2>4. n \in Node /\ IsFreed(t, n)
    BY <2>0, <1>2, <2>2, <2>3, FreshIs
  <2>5. n \notin S
    BY <2>1, <2>4, InTree
  <2>6. /\ f \in Trees /\ f.head = t.head /\ f.focus = t.focus /\ f.err = t.err
        /\ \A m \in Node \ {n} : f.heap[m] = t.heap[m]
        /\ Type(f, n) = "LEAF" /\ Kids(f, n) = << >> /\ f.heap[n].item = item
        /\ Fit(f)
    BY <1>4, <2>4
  <2>. HIDE DEF n, f
  <2>7. Whole(f, S, d) /\ Distinct(f, S) /\ Showing(f, S) = Showing(t, S)
    <3>1. Tree(t, S, d) /\ \A m \in S : f.heap[m] = t.heap[m] /\ Full(t, m)
      BY <2>1, <2>2, <2>5, <2>6 DEF Whole
    <3>2. /\ Tree(f, S, d) /\ \A m \in S : Full(f, m)
          /\ Distinct(f, S) <=> Distinct(t, S)
          /\ Showing(f, S) = Showing(t, S)
      BY <1>2, <2>6, <3>1, SameOn
    <3>. QED  BY <2>1, <2>6, <3>2 DEF Whole
  <2>8. item \notin Showing(f, S)
    BY <1>2, <2>1, <2>7, ItemsAre DEF Whole
  <2>. DEFINE p == Parent(f, f.focus)
              r == IF Type(f, f.focus) # "LEAF"
                   THEN InsertNode(f, n, f.focus, Len(Kids(f, f.focus)) + 1)
                   ELSE IF p = Null THEN InsertNode(f, n, f.focus, 1)
                   ELSE IF IsFreed(f, p) THEN UseAfterFree(f)
                   ELSE InsertNode(f, n, p, IndexOf(f, f.focus, p) + 1)
  <2>9. AddWindow(t, item) = IF Failed(r) THEN r ELSE Ok(SetFocus(r, n))
    BY <1>6, <2>2 DEF AddWindow, f, n
  <2>10. ASSUME NEW code \in Outcomes PROVE Safe(Fail(f, code))
    <3>1. Safe(f) /\ f.head # Null /\ f.focus # Null
      BY <1>6, <2>2, <2>6, <2>7, SafeIs
    <3>. QED  BY <2>6, <2>10, <3>1, OkIs, Refocused
  <2>11. ASSUME NEW u, NEW T, NEW e, Whole(u, T, e), Distinct(u, T) PROVE Safe(Ok(SetFocus(u, n)))
    <3>. DEFINE v == Ok(SetFocus(u, n))
    <3>1. v \in Trees /\ v.heap = u.heap /\ v.head = u.head /\ v.focus = n
      <4>1. u \in Trees
        BY <2>11 DEF Whole
      <4>. QED  BY <2>4, <4>1 DEF Ok, SetFocus, Trees, Outcomes
    <3>. HIDE DEF v
    <3>2. Whole(v, T, e) /\ Distinct(v, T)
      BY <2>11, <3>1, SameTree DEF Whole
    <3>3. Safe(v)
      BY <2>4, <3>1, <3>2, SafeIs, NullIsNoNode
    <3>. QED  BY <3>3 DEF v
  <2>12. ASSUME NEW q \in S, Type(f, q) \in Stack, NEW k \in 1 .. Len(Kids(f, q)) + 1,
                r = InsertNode(f, n, q, k)
         PROVE  Safe(AddWindow(t, item))
    <3>. HIDE DEF r
    <3>1. Type(f, q) # "LEAF"
      BY <2>12 DEF Stack
    <3>2. CASE Len(Kids(f, q)) = MaxChildren
      <4>1. r = Fail(f, "FULL_PARENT")
        BY <2>12, <3>1, <3>2 DEF InsertNode
      <4>2. "FULL_PARENT" \in Outcomes
        BY DEF Outcomes, Errors
      <4>3. Failed(r)
        BY <2>6, <4>1, <4>2, OkIs DEF Failed
      <4>. QED  BY <2>9, <2>10, <4>1, <4>2, <4>3
    <3>3. CASE Len(Kids(f, q)) # MaxChildren
      <4>1. r = InsertAny(f, n, q, k)
        BY <2>12, <3>1, <3>3 DEF InsertNode
      <4>2. Len(Kids(f, q)) < MaxChildren
        <5>1. Good(f, S, d, q) /\ Kids(f, q) \in Seq(Node)
          BY <2>2, <2>6, <2>7, NodeIs DEF Whole, Tree
        <5>2. PICK l \in Nat : l = Len(Kids(f, q))
          BY <5>1
        <5>. QED  BY <3>3, <5>1, <5>2, Sizes DEF Good
      <4>3. /\ \E e : Whole(r, S \cup {n}, e)
            /\ Distinct(r, S \cup {n}) /\ r.err = "SUCC"
        <5>1. n \in Node \ S
          BY <2>4, <2>5
        <5>2. Inserted(f, S, n, r)
          BY <2>6, <2>7, <2>12, <4>1, <4>2, <5>1, Inserts
        <5>. QED  BY <2>6, <2>7, <2>8, <5>2 DEF Inserted
      <4>. QED  BY <2>9, <2>11, <4>3 DEF Failed
    <3>. QED  BY <3>2, <3>3
  <2>13. CASE Type(f, f.focus) # "LEAF"
    <3>1. f.focus \in S /\ Type(f, f.focus) \in Stack /\ Kids(f, f.focus) \in Seq(Node)
      BY <2>1, <2>2, <2>6, <2>7, <2>13, InTree, NodeIs
    <3>2. Len(Kids(f, f.focus)) + 1 \in 1 .. Len(Kids(f, f.focus)) + 1
      BY <3>1
    <3>3. r = InsertNode(f, n, f.focus, Len(Kids(f, f.focus)) + 1)
      BY <2>13
    <3>. QED  BY <2>12, <3>1, <3>2, <3>3
  <2>14. CASE Type(f, f.focus) = "LEAF" /\ p # Null
    <3>1. f.focus \in S /\ f.focus # f.head
      BY <2>1, <2>6, <2>7, <2>14, InTree
    <3>2. p \in S /\ f.focus \in ToSet(Kids(f, p)) /\ p \in Node
      BY <2>2, <2>7, <3>1, InTree DEF Linked
    <3>3. Kids(f, p) \in Seq(Node) /\ ~ IsFreed(f, p) /\ Type(f, p) \in Stack
      <4>1. Kids(f, p) \in Seq(Node)
        BY <2>6, <3>2, NodeIs
      <4>2. Kids(f, p) # << >>
        BY <3>2, <4>1, NoKids
      <4>3. Type(f, p) # "LEAF"
        BY <2>7, <3>2, <4>2 DEF Whole, Tree, Good
      <4>. QED  BY <2>7, <3>2, <4>1, <4>3, InTree
    <3>4. IndexOf(f, f.focus, p) + 1 \in 1 .. Len(Kids(f, p)) + 1
      <4>1. IndexOf(f, f.focus, p) \in 1 .. Len(Kids(f, p))
        BY <2>6, <3>2, IndexIs
      <4>. QED  BY <3>3, <4>1
    <3>5. r = InsertNode(f, n, p, IndexOf(f, f.focus, p) + 1)
      BY <2>14, <3>3
    <3>. QED  BY <2>12, <3>2, <3>3, <3>4, <3>5
  <2>15. CASE Type(f, f.focus) = "LEAF" /\ p = Null
    <3>. DEFINE h == f.focus
                c == Fresh(f)
                w == WrapLeaf(f, h, "HORZ")
    <3>1. h = f.head /\ h \in S /\ h \in Node
      BY <2>1, <2>2, <2>6, <2>7, <2>15, InTree
    <3>2. r = InsertAny(w, n, h, 2)
      BY <2>15, <3>1 DEF InsertNode
    <3>3. c \in Node /\ IsFreed(f, c)
      <4>1. Closed(f, S)
        BY <2>1, <2>6, <2>7, InTree
      <4>2. \E z \in Node \ S : IsFreed(f, z)
        BY <2>0, <2>3, <2>6 DEF IsFreed, Type
      <4>. QED  BY <2>2, <2>6, <4>1, <4>2, FreshIs
    <3>4. c \notin S /\ c # n
      BY <2>6, <2>7, <3>3, InTree DEF IsFreed
    <3>5. "HORZ" \in Stack
      BY DEF Stack
    <3>. HIDE DEF w, r
    <3>6. /\ \E e : Whole(w, S \cup {c}, e)
          /\ w.head = f.head /\ w.focus = f.focus
          /\ Distinct(w, S \cup {c})
          /\ Showing(w, S \cup {c}) = Showing(f, S)
          /\ Type(w, h) = "HORZ" /\ Kids(w, h) = <<c>>
          /\ \A m \in Node \ {h, c} : w.heap[m] = f.heap[m]
      <4>. HIDE DEF c, h
      <4>1. Type(f, h) = "LEAF" /\ c \in Node \ S /\ c = Fresh(f)
        BY <2>15, <3>3, <3>4 DEF c, h
      <4>. QED  BY <2>7, <3>1, <3>5, <4>1, Wraps DEF w
    <3>7. PICK e : Whole(w, S \cup {c}, e)
      BY <3>6
    <3>8. /\ n \in Node \ (S \cup {c}) /\ Type(w, n) = "LEAF" /\ Kids(w, n) = << >> /\ w.heap[n].item = item
      BY <2>4, <2>5, <2>6, <3>1, <3>4, <3>6 DEF Type, Kids
    <3>9. Len(Kids(w, h)) = 1 /\ 2 \in 1 .. Len(Kids(w, h)) + 1 /\ Len(Kids(w, h)) < MaxChildren
      BY <3>3, <3>6, OneSeq, Sizes
    <3>10. /\ \E g : Whole(r, (S \cup {c}) \cup {n}, g)
           /\ Distinct(r, (S \cup {c}) \cup {n}) /\ r.err = "SUCC"
      <4>. DEFINE T == S \cup {c}
      <4>1. Whole(w, T, e) /\ Distinct(w, T) /\ item \notin Showing(w, T) /\ h \in T /\ n \in Node \ T
        BY <2>8, <3>1, <3>6, <3>7, <3>8
      <4>2. Type(w, h) \in Stack
        BY <3>5, <3>6
      <4>. HIDE DEF T, h, c
      <4>3. Inserted(w, T, n, r)
        BY <3>2, <3>8, <3>9, <4>1, <4>2, Inserts
      <4>4. (\E g : Whole(r, T \cup {n}, g)) /\ Distinct(r, T \cup {n}) /\ r.err = "SUCC"
        BY <3>8, <4>1, <4>3 DEF Inserted
      <4>. QED  BY <4>4 DEF T
    <3>. QED  BY <2>9, <2>11, <3>10 DEF Failed
  <2>. QED  BY <2>13, <2>14, <2>15
<1>. QED  BY <1>5, <1>6


-----------------------------------------------------------------------------
(* Where a direction leads *)

(* lv is a node of the tree, with a child beside the one above the focus,  *)
(* or there is none.                                                       *)
Levelled(t, S, lv) ==
  /\ lv.err = "SUCC"
  /\ \/ lv.at = Null
     \/ /\ lv.at \in S /\ lv.ind \in 1 .. Len(Kids(t, lv.at))
        /\ \E prev \in ToSet(Kids(t, lv.at)) :
             prev # Kids(t, lv.at)[lv.ind] /\ t.focus \in Below(t, prev)

(* The steps of the climb, and where they can be. *)
Ledge == [prev : Node, cur : Node \cup {Null}]
Ascent(t, dir) ==
  [a \in Ledge |-> IF Higher(t, a, dir) THEN [prev |-> a.cur, cur |-> Parent(t, a.cur)] ELSE a]
OnPath(t, S) ==
  {a \in Ledge : a.prev \in S /\ a.cur = Parent(t, a.prev) /\ t.focus \in Below(t, a.prev)}

LEMMA Ascends ==
  ASSUME NEW t, NEW S, NEW d, Whole(t, S, d), NEW dir, NEW a \in OnPath(t, S), Higher(t, a, dir)
  PROVE  /\ Ascent(t, dir)[a] = [prev |-> a.cur, cur |-> Parent(t, a.cur)]
         /\ Ascent(t, dir)[a] \in OnPath(t, S)
         /\ Below(t, a.prev) \subseteq Below(t, a.cur) /\ a.cur \notin Below(t, a.prev)
         /\ a.cur \in Below(t, a.cur)
<1>1. /\ t \in Trees /\ Tree(t, S, d) /\ S \in SUBSET Node /\ d \in [Node -> Nat]
  BY DEF Whole, Tree
<1>2. a \in Ledge /\ a.prev \in S /\ a.cur = Parent(t, a.prev) /\ t.focus \in Below(t, a.prev)
  BY DEF OnPath
<1>3. a.cur # Null
  BY DEF Higher
<1>4. a.cur \in S /\ a.prev \in ToSet(Kids(t, a.cur))
  BY <1>1, <1>2, <1>3 DEF Tree, Linked
<1>5. d[a.cur] < d[a.prev] /\ a.cur \in Node /\ Parent(t, a.cur) \in Node \cup {Null}
  BY <1>1, <1>4, NodeIs DEF Tree, Good
<1>6. /\ a.cur \in Below(t, a.cur) /\ a.prev \in Below(t, a.cur)
  BY <1>4, <1>5, <1>1, BelowIs
<1>7. Below(t, a.prev) \subseteq Below(t, a.cur)
  BY <1>1, <1>5, <1>6, Nested
<1>8. a.cur \notin Below(t, a.prev)
  <2>1. d[a.cur] \in Nat /\ d[a.prev] \in Nat
    BY <1>1, <1>2, <1>4
  <2>2. \A m \in Below(t, a.prev) \ {a.prev} : d[a.prev] < d[m]
    BY <1>1, <1>2, Subtree
  <2>. QED  BY <1>5, <2>1, <2>2
<1>9. Ascent(t, dir)[a] = [prev |-> a.cur, cur |-> Parent(t, a.cur)]
  BY <1>2 DEF Ascent
<1>10. [prev |-> a.cur, cur |-> Parent(t, a.cur)] \in OnPath(t, S)
  BY <1>2, <1>4, <1>5, <1>7 DEF OnPath, Ledge
<1>. QED  BY <1>6, <1>7, <1>8, <1>9, <1>10

LEMMA LevelIs ==
  ASSUME NEW t, NEW S, NEW d, Whole(t, S, d), t.focus \in S, NEW dir
  PROVE  Levelled(t, S, Level(t, dir))
<1>. DEFINE f == Ascent(t, dir)
            I == OnPath(t, S)
            from == [prev |-> t.focus, cur |-> Parent(t, t.focus)]
            top == Iterate(f, from)
            i == IndexOf(t, top.prev, top.cur)
<1>1. /\ t \in Trees /\ Tree(t, S, d) /\ S \in SUBSET Node /\ d \in [Node -> Nat]
  BY DEF Whole, Tree
<1>2. f \in [Ledge -> Ledge]
  <2>. SUFFICES ASSUME NEW a \in Ledge, Higher(t, a, dir)
                PROVE  [prev |-> a.cur, cur |-> Parent(t, a.cur)] \in Ledge
    BY DEF Ascent
  <2>1. a.cur \in Node
    BY DEF Higher, Ledge
  <2>. QED  BY <1>1, <2>1, NodeIs DEF Ledge
<1>3. I \in SUBSET Ledge /\ from \in I
  <2>1. t.focus \in Node /\ Parent(t, t.focus) \in Node \cup {Null} /\ t.focus \in Below(t, t.focus)
    BY <1>1, NodeIs, BelowIs
  <2>. QED  BY <2>1 DEF OnPath, Ledge
<1>4. \A a \in I : ~ Higher(t, a, dir) => f[a] = a
  BY <1>3 DEF Ascent
<1>5. \A a \in I : Higher(t, a, dir) =>
        /\ f[a] = [prev |-> a.cur, cur |-> Parent(t, a.cur)] /\ f[a] \in I
        /\ Below(t, a.prev) \subseteq Below(t, a.cur) /\ a.cur \notin Below(t, a.prev)
        /\ a.cur \in Below(t, a.cur)
  BY Ascends
<1>6. \A a \in I : f[a] \in I
  BY <1>4, <1>5
<1>. DEFINE Seen == [a \in I |-> Below(t, a.prev)]
<1>7. /\ Seen \in [I -> SUBSET Node]
      /\ \A a \in I : f[a] = a \/ (Seen[a] \subseteq Seen[f[a]] /\ Seen[a] # Seen[f[a]])
  <2>1. \A a \in I : Below(t, a.prev) \in SUBSET Node
    BY <1>1, BelowIs DEF OnPath
  <2>2. \A a \in I : Seen[a] = Below(t, a.prev)
    OBVIOUS
  <2>3. Seen \in [I -> SUBSET Node]
    BY <2>1
  <2>. HIDE DEF f, I, Seen
  <2>4. ASSUME NEW a \in I PROVE f[a] = a \/ (Seen[a] \subseteq Seen[f[a]] /\ Seen[a] # Seen[f[a]])
    <3>1. CASE Higher(t, a, dir)
      <4>1. f[a] \in I /\ f[a] = [prev |-> a.cur, cur |-> Parent(t, a.cur)]
        BY <1>5, <3>1
      <4>2. f[a].prev = a.cur
        BY <4>1
      <4>3. Seen[f[a]] = Below(t, f[a].prev)
        BY <2>2, <4>1
      <4>4. Seen[f[a]] = Below(t, a.cur) /\ Seen[a] = Below(t, a.prev)
        BY <2>2, <4>2, <4>3
      <4>5. Below(t, a.prev) \subseteq Below(t, a.cur) /\ Below(t, a.prev) # Below(t, a.cur)
        BY <1>5, <3>1
      <4>. QED  BY <4>4, <4>5
    <3>. QED  BY <1>4, <3>1
  <2>. QED  BY <2>3, <2>4
<1>. HIDE DEF f, I, from, Seen
<1>8. f[top] = top
  BY <1>2, <1>3, <1>6, <1>7, IterateEnds
<1>9. top \in I
  BY <1>2, <1>3, <1>6, IterateIn
<1>. HIDE DEF top
<1>10. ~ Higher(t, top, dir)
  <2>. SUFFICES ASSUME Higher(t, top, dir) PROVE FALSE
    OBVIOUS
  <2>1. /\ f[top] = [prev |-> top.cur, cur |-> Parent(t, top.cur)]
        /\ top.cur \notin Below(t, top.prev) /\ top.cur \in Below(t, top.cur)
    BY <1>5, <1>9
  <2>2. f[top].prev = top.cur
    BY <2>1
  <2>. QED  BY <1>8, <2>1, <2>2
<1>11. /\ top.prev \in S /\ top.cur = Parent(t, top.prev) /\ t.focus \in Below(t, top.prev)
  BY <1>9 DEF I, OnPath
<1>12. Level(t, dir) =
         CASE top.cur = Null -> [at |-> Null, ind |-> 0, err |-> "SUCC"]
           [] top.cur # Null /\ IsFreed(t, top.cur) -> [at |-> top.cur, ind |-> 0, err |-> "USE_AFTER_FREE"]
           [] OTHER ->
                IF i = 0 THEN [at |-> top.cur, ind |-> 0, err |-> IndexError(t, top.cur).err]
                ELSE [at |-> top.cur, ind |-> Step(i, dir), err |-> "SUCC"]
  BY DEF Level, Ascent, Ledge, f, from, top
<1>13. CASE top.cur = Null
  BY <1>12, <1>13 DEF Levelled
<1>14. CASE top.cur # Null
  <2>1. top.cur \in S /\ top.prev \in ToSet(Kids(t, top.cur)) /\ top.cur \in Node
    BY <1>1, <1>11, <1>14 DEF Tree, Linked
  <2>2. /\ ~ IsFreed(t, top.cur) /\ IsInjective(Kids(t, top.cur)) /\ Kids(t, top.cur) \in Seq(Node)
    BY <1>1, <2>1, NodeIs DEF Tree, Good, IsFreed, Stack
  <2>3. i # 0 /\ i \in 1 .. Len(Kids(t, top.cur)) /\ Kids(t, top.cur)[i] = top.prev
    BY <1>1, <2>1, IndexIs
  <2>4. Step(i, dir) \in DOMAIN Kids(t, top.cur)
    BY <1>10, <1>14, <2>2, <2>3 DEF Higher
  <2>5. DOMAIN Kids(t, top.cur) = 1 .. Len(Kids(t, top.cur))
    BY <2>2
  <2>6. Level(t, dir) = [at |-> top.cur, ind |-> Step(i, dir), err |-> "SUCC"]
    BY <1>12, <1>14, <2>2, <2>3
  <2>7. Step(i, dir) # i
    BY <2>3 DEF Step
  <2>8. Kids(t, top.cur)[Step(i, dir)] # top.prev
    BY <2>2, <2>3, <2>4, <2>5, <2>7 DEF IsInjective
  <2>. HIDE DEF i
  <2>. QED  BY <1>11, <2>1, <2>4, <2>5, <2>6, <2>8 DEF Levelled
<1>. QED  BY <1>13, <1>14

LEMMA LastKid ==
  ASSUME NEW S, NEW s \in Seq(S), s # << >>
  PROVE  Last(s) \in ToSet(s) /\ s[1] \in ToSet(s) /\ 1 \in 1 .. Len(s)
<1>1. Len(s) # 0 /\ Len(s) \in Nat
  BY EmptySeq
<1>. QED  BY <1>1, NoKids DEF Last

LEMMA LastLeafIs ==
  ASSUME NEW t \in Trees, NEW n \in Node
  PROVE  LastLeaf(t, n) \in Node \cup {Null}
<1>. DEFINE last == [m \in Node |-> IF Type(t, m) # "LEAF" /\ Kids(t, m) # << >>
                                    THEN Last(Kids(t, m)) ELSE m]
<1>1. last \in [Node -> Node]
  <2>. SUFFICES ASSUME NEW m \in Node, Kids(t, m) # << >> PROVE Last(Kids(t, m)) \in Node
    OBVIOUS
  <2>. QED  BY NodeIs, NoKids, LastKid
<1>2. LastLeaf(t, n) = IF Type(t, Iterate(last, n)) = "LEAF" THEN Iterate(last, n) ELSE Null
  BY DEF LastLeaf
<1>. HIDE DEF last
<1>3. Iterate(last, n) \in Node
  BY <1>1, IterateIn
<1>. QED  BY <1>2, <1>3

LEMMA EdgeIs ==
  ASSUME NEW t \in Trees, NEW n \in Node, NEW dir, EdgeParent(t, n, dir) # Null
  PROVE  EdgeParent(t, n, dir) \in Below(t, n) /\ Kids(t, EdgeParent(t, n, dir)) # << >>
<1>. DEFINE edge == [m \in Node |->
                       IF Kids(t, m) # << >> /\ Type(t, Nearest(t, m, dir)) # "LEAF"
                       THEN Nearest(t, m, dir) ELSE m]
            end == Iterate(edge, n)
<1>1. ASSUME NEW m \in Node, Kids(t, m) # << >> PROVE Nearest(t, m, dir) \in ToSet(Kids(t, m))
  BY <1>1, NodeIs, LastKid DEF Nearest
<1>2. \A m \in Node : ToSet(Kids(t, m)) \subseteq Node
  BY NodeIs, NoKids
<1>3. edge \in [Node -> Node]
  BY <1>1, <1>2
<1>4. \A m \in Node : edge[m] = m \/ edge[m] \in ToSet(Kids(t, m))
  BY <1>1
<1>5. EdgeParent(t, n, dir) = IF Kids(t, end) = << >> THEN Null ELSE end
  BY DEF EdgeParent
<1>. HIDE DEF edge
<1>6. Below(t, n) \in SUBSET Node /\ n \in Below(t, n) /\ \A m \in Below(t, n) : edge[m] \in Below(t, n)
  BY <1>4, BelowIs
<1>7. end \in Below(t, n)
  BY <1>3, <1>6, IterateIn
<1>. QED  BY <1>5, <1>7

-----------------------------------------------------------------------------
(* twm_move_node *)

(* The children of a node change their order, or a stack its direction.    *)
Reshaped(t, u) ==
  /\ u \in Trees /\ u.head = t.head /\ u.focus # Null
  /\ \A m \in Node :
       /\ Parent(u, m) = Parent(t, m) /\ u.heap[m].item = t.heap[m].item
       /\ ToSet(Kids(u, m)) = ToSet(Kids(t, m)) /\ Len(Kids(u, m)) = Len(Kids(t, m))
       /\ IsInjective(Kids(t, m)) => IsInjective(Kids(u, m))
       /\ Type(u, m) = Type(t, m) \/ {Type(u, m), Type(t, m)} \subseteq Stack

LEMMA Reshapes ==
  ASSUME NEW t, NEW S, NEW d, Whole(t, S, d), Distinct(t, S), NEW u, Reshaped(t, u)
  PROVE  Safe(u) /\ Items(u) = Items(t)
<1>1. /\ t \in Trees /\ Fit(t) /\ Tree(t, S, d) /\ S \in SUBSET Node /\ u \in Trees /\ u.head = t.head
      /\ u.focus # Null /\ \A m \in S : Full(t, m)
  BY DEF Whole, Tree, Reshaped
<1>2. ASSUME NEW m \in Node
      PROVE  /\ Parent(u, m) = Parent(t, m) /\ u.heap[m].item = t.heap[m].item
             /\ ToSet(Kids(u, m)) = ToSet(Kids(t, m)) /\ Len(Kids(u, m)) = Len(Kids(t, m))
             /\ IsInjective(Kids(t, m)) => IsInjective(Kids(u, m))
             /\ Type(u, m) = Type(t, m) \/ {Type(u, m), Type(t, m)} \subseteq Stack
             /\ Type(u, m) = "LEAF" <=> Type(t, m) = "LEAF"
             /\ Kids(u, m) = << >> <=> Kids(t, m) = << >>
             /\ Kids(u, m) \in Seq(Node) /\ Kids(t, m) \in Seq(Node)
  <2>1. /\ Parent(u, m) = Parent(t, m) /\ u.heap[m].item = t.heap[m].item
        /\ ToSet(Kids(u, m)) = ToSet(Kids(t, m)) /\ Len(Kids(u, m)) = Len(Kids(t, m))
        /\ IsInjective(Kids(t, m)) => IsInjective(Kids(u, m))
        /\ Type(u, m) = Type(t, m) \/ {Type(u, m), Type(t, m)} \subseteq Stack
    BY DEF Reshaped
  <2>2. Kids(u, m) \in Seq(Node) /\ Kids(t, m) \in Seq(Node)
    BY <1>1, NodeIs
  <2>3. Kids(u, m) = << >> <=> Kids(t, m) = << >>
    BY <2>1, <2>2, EmptySeq
  <2>4. Type(u, m) = "LEAF" <=> Type(t, m) = "LEAF"
    BY <2>1 DEF Stack
  <2>. QED  BY <2>1, <2>2, <2>3, <2>4
<1>3. ASSUME NEW m \in S PROVE Good(u, S, d, m)
  <2>1. Good(t, S, d, m) /\ m \in Node
    BY <1>1 DEF Tree
  <2>2. \A c \in ToSet(Kids(t, m)) : Parent(u, c) = Parent(t, c)
    BY <1>1, <1>2, <2>1 DEF Good
  <2>3. Type(u, m) \in Stack \cup {"LEAF"}
    BY <1>2, <2>1 DEF Good
  <2>. QED  BY <1>2, <2>1, <2>2, <2>3 DEF Good
<1>4. ASSUME NEW m \in S \ {t.head} PROVE Linked(u, S, m)
  BY <1>1, <1>2, <1>4 DEF Tree, Linked
<1>5. Tree(u, S, d)
  BY <1>1, <1>2, <1>3, <1>4 DEF Tree
<1>6. ASSUME NEW m \in S PROVE Full(u, m)
  <2>1. Full(t, m) /\ m \in Node
    BY <1>1
  <2>2. ASSUME Len(Kids(u, m)) = 1 PROVE Type(u, Kids(u, m)[1]) = "LEAF"
    <3>1. Len(Kids(t, m)) = 1
      BY <1>2, <2>1, <2>2
    <3>2. Kids(t, m)[1] \in Node /\ Kids(u, m)[1] = Kids(t, m)[1]
      <4>1. ToSet(Kids(t, m)) = {Kids(t, m)[1]} /\ Kids(t, m)[1] \in Node
        BY <1>2, <2>1, <3>1, OneKid
      <4>2. ToSet(Kids(u, m)) = {Kids(u, m)[1]}
        BY <1>2, <2>1, <2>2, OneKid
      <4>. QED  BY <1>2, <2>1, <4>1, <4>2
    <3>. QED  BY <1>2, <2>1, <3>1, <3>2 DEF Full
  <2>. QED  BY <1>1, <1>2, <2>1, <2>2 DEF Full
<1>7. Fit(u)
  BY <1>1, <1>2 DEF Fit
<1>8. Whole(u, S, d)
  BY <1>1, <1>5, <1>6, <1>7 DEF Whole
<1>9. Distinct(u, S)
  BY <1>1, <1>2 DEF Distinct
<1>10. Showing(u, S) = Showing(t, S)
  BY <1>1, <1>2 DEF Showing
<1>. QED  BY <1>1, <1>8, <1>9, <1>10, SafeIs, ItemsAre

LEMMA KidsSet ==
  ASSUME NEW t \in Trees, NEW p \in Node, NEW s \in Seq(Node), NEW u,
         u = [t EXCEPT !.heap[p].kids = s]
  PROVE  /\ u \in Trees /\ u.head = t.head /\ u.focus = t.focus /\ u.err = t.err
         /\ \A m \in Node : /\ Type(u, m) = Type(t, m) /\ Parent(u, m) = Parent(t, m)
                            /\ u.heap[m].item = t.heap[m].item
                            /\ m # p => Kids(u, m) = Kids(t, m)
         /\ Kids(u, p) = s
<1>. DEFINE h == [t.heap EXCEPT ![p] = [t.heap[p] EXCEPT !.kids = s]]
<1>1. t.heap \in [Node -> Record] /\ u = [t EXCEPT !.heap = h]
  BY DEF Trees
<1>2. /\ h \in [Node -> Record] /\ h[p].kids = s
      /\ \A m \in Node : /\ h[m].type = t.heap[m].type /\ h[m].parent = t.heap[m].parent
                         /\ h[m].item = t.heap[m].item
                         /\ m # p => h[m].kids = t.heap[m].kids
  BY <1>1 DEF Record
<1>. HIDE DEF h
<1>3. u \in Trees /\ u.heap = h /\ u.head = t.head /\ u.focus = t.focus /\ u.err = t.err
  <2>. DEFINE v == [t EXCEPT !.heap = h]
  <2>1. v \in Trees /\ v.heap = h /\ v.head = t.head /\ v.focus = t.focus /\ v.err = t.err
    BY <1>2, HeapIs
  <2>2. u = v
    BY <1>1
  <2>. HIDE DEF v
  <2>. QED  BY <2>1, <2>2
<1>. QED  BY <1>2, <1>3 DEF Type, Parent, Kids

(* The k-th place of its own stack. *)
LEMMA MovesWithin ==
  ASSUME NEW t, NEW S, NEW d, Whole(t, S, d), Distinct(t, S), t.focus # Null,
         NEW p \in S, NEW i \in 1 .. Len(Kids(t, p)), NEW n, n = Kids(t, p)[i],
         NEW k \in 1 .. Len(Kids(t, p)), NEW u,
         u = Ok([t EXCEPT !.heap[p].kids = InsertAt(RemoveAt(@, i), k, n)])
  PROVE  Safe(u) /\ Items(u) = Items(t)
<1>. DEFINE s == Kids(t, p)
            r == RemoveAt(s, i)
            q == InsertAt(r, k, n)
            v == [t EXCEPT !.heap[p].kids = q]
<1>1. /\ t \in Trees /\ p \in Node /\ s \in Seq(Node) /\ IsInjective(s) /\ n \in ToSet(s) /\ n \in Node
  <2>1. t \in Trees /\ p \in Node /\ Good(t, S, d, p)
    BY DEF Whole, Tree
  <2>2. s \in Seq(Node)
    BY <2>1, NodeIs
  <2>. QED  BY <2>1, <2>2, NoKids DEF Good
<1>2. u = Ok(v)
  BY DEF Kids
<1>3. r \in Seq(Node) /\ Len(r) = Len(s) - 1 /\ ToSet(r) = ToSet(s) \ {n} /\ IsInjective(r)
  BY <1>1, RemoveAtIs
<1>4. PICK l \in Nat : l = Len(s)
  BY <1>1
<1>5. k \in 1 .. Len(r) + 1 /\ n \notin ToSet(r)
  <2>1. Len(r) = l - 1 /\ k \in 1 .. l
    BY <1>3, <1>4
  <2>. QED  BY <1>3, <1>4, <2>1
<1>. HIDE DEF r
<1>6. q \in Seq(Node) /\ Len(q) = Len(r) + 1 /\ ToSet(q) = ToSet(r) \cup {n} /\ IsInjective(q)
  BY <1>1, <1>3, <1>5, InsertAtIs
<1>. HIDE DEF q
<1>7. Len(q) = Len(s) /\ ToSet(q) = ToSet(s)
  <2>1. Len(r) = l - 1 /\ Len(q) = Len(r) + 1
    BY <1>3, <1>4, <1>6
  <2>2. Len(q) = l
    BY <2>1
  <2>. QED  BY <1>1, <1>3, <1>4, <1>6, <2>2
<1>8. /\ v \in Trees /\ v.head = t.head /\ v.focus = t.focus
      /\ \A m \in Node : /\ Type(v, m) = Type(t, m) /\ Parent(v, m) = Parent(t, m)
                         /\ v.heap[m].item = t.heap[m].item
                         /\ m # p => Kids(v, m) = Kids(t, m)
      /\ Kids(v, p) = q
  BY <1>1, <1>6, KidsSet
<1>. HIDE DEF v
<1>9. /\ u \in Trees /\ u.heap = v.heap /\ u.head = v.head /\ u.focus = v.focus
  BY <1>2, <1>8, OkIs DEF Outcomes
<1>10. \A m \in Node : Type(u, m) = Type(v, m) /\ Kids(u, m) = Kids(v, m) /\ Parent(u, m) = Parent(v, m)
  BY <1>9 DEF Type, Kids, Parent
<1>11. Reshaped(t, u)
  <2>1. ASSUME NEW m \in Node
        PROVE  /\ Parent(u, m) = Parent(t, m) /\ u.heap[m].item = t.heap[m].item
               /\ ToSet(Kids(u, m)) = ToSet(Kids(t, m)) /\ Len(Kids(u, m)) = Len(Kids(t, m))
               /\ IsInjective(Kids(t, m)) => IsInjective(Kids(u, m))
               /\ Type(u, m) = Type(t, m)
    <3>1. CASE m = p
      BY <1>6, <1>7, <1>8, <1>9, <1>10, <3>1
    <3>2. CASE m # p
      BY <1>8, <1>9, <1>10, <3>2
    <3>. QED  BY <3>1, <3>2
  <2>. QED  BY <1>8, <1>9, <2>1 DEF Reshaped
<1>. QED  BY <1>11, Reshapes

(* No stack is empty in a tree of more than one node: a redraw succeeds    *)
(* even while a node has two places.                                       *)
LEMMA LinkRedraws ==
  ASSUME NEW t, NEW S, NEW d, Whole(t, S, d), NEW n \in S, n # t.head,
         NEW p \in S, Kids(t, p) # << >>, NEW v, v \in Trees,
         \A m \in S : Type(v, m) = Type(t, m) /\ (m # p => Kids(v, m) = Kids(t, m)),
         Kids(v, p) # << >>, ToSet(Kids(v, p)) \subseteq S
  PROVE  Redrawn(v, p) = Ok(v)
<1>1. t \in Trees /\ Tree(t, S, d) /\ S \in SUBSET Node /\ p \in Node /\ \A m \in S : Full(t, m)
  BY DEF Whole, Tree
<1>2. Below(v, p) \subseteq S
  <2>1. \A m \in S : ToSet(Kids(v, m)) \subseteq S
    BY <1>1 DEF Tree, Good
  <2>. QED  BY <1>1, <2>1, BelowIs
<1>3. Kids(t, t.head) # << >>
  BY <1>1, HeadHasKids
<1>4. ASSUME NEW m \in Below(v, p), Type(v, m) \in Stack PROVE Kids(v, m) # << >>
  <2>1. m \in S /\ Full(t, m) /\ Type(t, m) \in Stack
    BY <1>1, <1>2, <1>4
  <2>2. Kids(t, m) # << >>
    BY <1>3, <2>1 DEF Full, Stack
  <2>. QED  BY <2>1, <2>2
<1>. QED  BY <1>4 DEF Redrawn, Redrawable

(* Another stack, outside the subtree that moves. *)
LEMMA MovesAcross ==
  ASSUME NEW t, NEW S, NEW d, Whole(t, S, d), Distinct(t, S), t.focus \in S,
         NEW n \in S, n # t.head, NEW q, q = Parent(t, n), NEW i, i = IndexOf(t, n, q),
         NEW p \in S, p # q, p \notin Below(t, n), Type(t, p) \in Stack, Len(Kids(t, p)) < MaxChildren,
         NEW k \in 1 .. Len(Kids(t, p)), NEW r, r = InsertAny(t, n, p, k), NEW u, u = RemoveNode(r, q, i)
  PROVE  r.err = "SUCC" /\ Safe(u) /\ Items(u) = Items(t)
<1>. DEFINE v == Link(t, n, p, k)
            w == Cut(r, q, i)
            c == Cut(t, q, i)
            B == Below(t, n)
<1>1. /\ t \in Trees /\ Fit(t) /\ Tree(t, S, d) /\ S \in SUBSET Node /\ d \in [Node -> Nat]
      /\ n \in Node /\ p \in Node /\ \A m \in S : Full(t, m)
  BY DEF Whole, Tree
<1>2. q \in S /\ n \in ToSet(Kids(t, q)) /\ q \in Node /\ Kids(t, q) \in Seq(Node)
  BY <1>1, NodeIs DEF Tree, Linked
<1>3. i \in 1 .. Len(Kids(t, q)) /\ Kids(t, q)[i] = n
  BY <1>1, <1>2, IndexIs
<1>4. Type(t, q) \in Stack
  <2>1. Kids(t, q) # << >>
    BY <1>2, NoKids
  <2>. QED  BY <1>1, <1>2, <2>1 DEF Tree, Good
<1>5. /\ Kids(t, p) \in Seq(Node) /\ IsInjective(Kids(t, p)) /\ n \notin ToSet(Kids(t, p))
      /\ ToSet(Kids(t, p)) \subseteq S /\ Kids(t, p) # << >>
  <2>1. Kids(t, p) \in Seq(Node) /\ Good(t, S, d, p)
    BY <1>1, NodeIs DEF Tree
  <2>2. Kids(t, p) # << >>
    OBVIOUS
  <2>. QED  BY <2>1, <2>2 DEF Good
<1>6. PICK l \in Nat : l = Len(Kids(t, p))
  BY <1>5
<1>7. k \in 1 .. Len(Kids(t, p)) + 1 /\ 1 <= l
  BY <1>6
<1>8. /\ InsertAt(Kids(t, p), k, n) \in Seq(Node)
      /\ Len(InsertAt(Kids(t, p), k, n)) = l + 1
      /\ ToSet(InsertAt(Kids(t, p), k, n)) = ToSet(Kids(t, p)) \cup {n}
  BY <1>1, <1>5, <1>6, <1>7, InsertAtIs
<1>9. B \subseteq S /\ n \in B /\ n # p
  BY <1>1, Subtree
<1>10. /\ v \in Trees /\ v.head = t.head /\ v.focus = t.focus
       /\ \A m \in Node : /\ Type(v, m) = Type(t, m) /\ v.heap[m].item = t.heap[m].item
                          /\ m # p => Kids(v, m) = Kids(t, m)
                          /\ m # n => Parent(v, m) = Parent(t, m)
       /\ Kids(v, p) = InsertAt(Kids(t, p), k, n) /\ Parent(v, n) = p
  BY <1>1, <1>7, <1>8, <1>9, LinkIs
<1>. HIDE DEF v, B
<1>11. r = Ok(v)
  <2>1. r = Redrawn(v, p)
    BY DEF InsertAny, v
  <2>2. Kids(v, p) # << >> /\ ToSet(Kids(v, p)) \subseteq S
    <3>1. Kids(v, p) \in Seq(Node) /\ Len(Kids(v, p)) = l + 1
      BY <1>8, <1>10
    <3>2. Kids(v, p) # << >>
      BY <3>1, EmptySeq
    <3>. QED  BY <1>5, <1>8, <1>10, <3>2
  <2>3. \A m \in S : Type(v, m) = Type(t, m) /\ (m # p => Kids(v, m) = Kids(t, m))
    BY <1>1, <1>10
  <2>. QED  BY <1>5, <1>10, <2>1, <2>2, <2>3, LinkRedraws
<1>12. /\ r \in Trees /\ r.heap = v.heap /\ r.head = t.head /\ r.focus = t.focus /\ r.err = "SUCC"
  BY <1>10, <1>11, OkIs DEF Outcomes
<1>13. \A m \in Node : /\ Type(r, m) = Type(v, m) /\ Kids(r, m) = Kids(v, m) /\ Parent(r, m) = Parent(v, m)
                       /\ r.heap[m].item = v.heap[m].item
  BY <1>12 DEF Type, Kids, Parent
<1>14. /\ w \in Trees /\ w.head = r.head /\ w.focus = r.focus
       /\ \A m \in Node : /\ Type(w, m) = Type(r, m) /\ Parent(w, m) = Parent(r, m)
                          /\ w.heap[m].item = r.heap[m].item
                          /\ m # q => Kids(w, m) = Kids(r, m)
       /\ Kids(w, q) = RemoveAt(Kids(r, q), i)
  <2>1. i \in 1 .. Len(Kids(r, q))
    BY <1>2, <1>3, <1>10, <1>13
  <2>. QED  BY <1>2, <1>12, <2>1, CutIs
<1>15. /\ c \in Trees /\ c.head = t.head
       /\ \A m \in Node : /\ Type(c, m) = Type(t, m) /\ Parent(c, m) = Parent(t, m)
                          /\ c.heap[m].item = t.heap[m].item
                          /\ m # q => Kids(c, m) = Kids(t, m) /\ c.heap[m] = t.heap[m]
       /\ Kids(c, q) = RemoveAt(Kids(t, q), i)
  BY <1>1, <1>2, <1>3, CutIs
<1>16. Tree(c, S \ B, d) /\ q \in S \ B
  BY <1>1, <1>3, Detached DEF B
<1>17. Hangs(c, B, d, n)
  <2>1. \A m \in Below(t, n) : c.heap[m] = t.heap[m]
    BY <1>1, <1>9, <1>15, <1>16 DEF B
  <2>. HIDE DEF c
  <2>. QED  BY <1>1, <2>1, SubtreeHangs DEF B
<1>. HIDE DEF c, w
<1>18. PutIn(c, w, p, k, n)
  <2>1. ASSUME NEW m \in Node
        PROVE  /\ Type(w, m) = Type(c, m) /\ w.heap[m].item = c.heap[m].item
               /\ m # p => Kids(w, m) = Kids(c, m)
               /\ m # n => Parent(w, m) = Parent(c, m)
    <3>1. m # p => Kids(w, m) = Kids(c, m)
      BY <1>2, <1>10, <1>13, <1>14, <1>15
    <3>. QED  BY <1>10, <1>13, <1>14, <1>15, <3>1
  <2>2. Kids(w, p) = InsertAt(Kids(c, p), k, n) /\ Parent(w, n) = p
    BY <1>1, <1>10, <1>13, <1>14, <1>15
  <2>. QED  BY <1>12, <1>14, <1>15, <2>1, <2>2 DEF PutIn
<1>19. PICK f : Tree(w, S, f)
  <2>1. p \in S \ B /\ Type(c, p) \in Stack /\ Kids(c, p) = Kids(t, p) /\ (S \ B) \cap B = {} /\ (S \ B) \cup B = S
    BY <1>1, <1>9, <1>15 DEF B
  <2>2. Len(Kids(c, p)) < MaxChildren /\ k \in 1 .. Len(Kids(c, p)) + 1
    BY <1>7, <2>1
  <2>3. \E f : Tree(w, (S \ B) \cup B, f)
    BY <1>15, <1>16, <1>17, <1>18, <2>1, <2>2, Grafted
  <2>. QED  BY <2>1, <2>3
<1>20. Fit(w)
  BY <1>1, <1>10, <1>13, <1>14 DEF Fit
<1>21. ASSUME NEW m \in S \ {q} PROVE Full(w, m)
  <2>1. m \in Node /\ Full(t, m) /\ Kids(t, m) \in Seq(Node)
    BY <1>1, NodeIs
  <2>2. CASE m = p
    <3>1. Kids(w, p) = InsertAt(Kids(t, p), k, n)
      BY <1>1, <1>10, <1>13, <1>14
    <3>2. Kids(w, p) \in Seq(Node) /\ Len(Kids(w, p)) = l + 1
      BY <1>8, <3>1
    <3>3. Kids(w, p) # << >> /\ Len(Kids(w, p)) # 1
      BY <1>6, <1>7, <3>2
    <3>. QED  BY <2>2, <3>3 DEF Full
  <2>3. CASE m # p
    <3>1. Kids(w, m) = Kids(t, m) /\ Type(w, m) = Type(t, m) /\ w.head = t.head
      BY <1>10, <1>12, <1>13, <1>14, <2>1, <2>3
    <3>2. ASSUME Len(Kids(t, m)) = 1 PROVE Type(w, Kids(t, m)[1]) = "LEAF"
      <4>1. Kids(t, m)[1] \in Node /\ Type(t, Kids(t, m)[1]) = "LEAF"
        BY <2>1, <3>2, OneKid DEF Full
      <4>. QED  BY <1>10, <1>13, <1>14, <4>1
    <3>. QED  BY <2>1, <3>1, <3>2 DEF Full
  <2>. QED  BY <2>2, <2>3
<1>22. Type(w, q) \in Stack
  BY <1>2, <1>4, <1>10, <1>13, <1>14
<1>23. Settled(w, S, u, q)
  <2>1. LET top == Climb(w, q) IN Settled(w, S, Tidied(top.tree, top.node), q)
    BY <1>2, <1>14, <1>19, <1>20, <1>21, <1>22, Settles
  <2>. QED  BY <2>1 DEF RemoveNode, w
<1>24. PICK S2, e : Pruned(w, S, u, S2) /\ Whole(u, S2, e)
  BY <1>23 DEF Settled
<1>25. Distinct(w, S) /\ Showing(w, S) = Showing(t, S)
  <2>1. \A m \in S : Type(w, m) = Type(t, m) /\ w.heap[m].item = t.heap[m].item
    BY <1>1, <1>10, <1>13, <1>14
  <2>. QED  BY <2>1 DEF Distinct, Showing
<1>26. Distinct(u, S2) /\ Showing(u, S2) = Showing(t, S)
  BY <1>24, <1>25 DEF Pruned
<1>27. u.focus # Null
  BY <1>1, <1>12, <1>14, <1>24, NullIsNoNode DEF Pruned
<1>28. Safe(u) /\ Items(u) = Showing(u, S2)
  BY <1>24, <1>26, <1>27, SafeIs
<1>. QED  BY <1>1, <1>12, <1>26, <1>28, ItemsAre

(* A move that is refused, or succeeds, keeps every window. *)
Kept(t, u) == Safe(u) /\ (u.err \in {"SUCC", "FULL_PARENT"} => Items(u) = Items(t))

LEMMA FailsSafely ==
  ASSUME NEW t, NEW S, NEW d, Whole(t, S, d), Distinct(t, S), t.focus # Null, NEW code \in Outcomes
  PROVE  Safe(Fail(t, code)) /\ Items(Fail(t, code)) = Items(t)
<1>1. Safe(t) /\ t.head # Null /\ t \in Trees
  BY SafeIs, InTree DEF Whole
<1>. QED  BY <1>1, OkIs, Refocused

LEMMA Moves ==
  ASSUME NEW t, NEW S, NEW d, Whole(t, S, d), Distinct(t, S), t.focus \in S,
         NEW n \in S, n # t.head, NEW p \in S, Kids(t, p) # << >>, p \notin Below(t, n),
         NEW k \in 1 .. Len(Kids(t, p))
  PROVE  Kept(t, MoveNode(t, n, p, k))
<1>. DEFINE q == Parent(t, n)
            i == IndexOf(t, n, q)
            r == InsertNode(t, n, p, k)
            u == MoveNode(t, n, p, k)
<1>1. t \in Trees /\ Tree(t, S, d) /\ S \in SUBSET Node
  BY DEF Whole, Tree
<1>2. q \in S /\ n \in ToSet(Kids(t, q)) /\ q \in Node
  BY <1>1 DEF Tree, Linked
<1>3. i # 0 /\ i \in 1 .. Len(Kids(t, q)) /\ Kids(t, q)[i] = n
  BY <1>1, <1>2, IndexIs
<1>4. t.focus # Null
  BY <1>1, NullIsNoNode
<1>5. CASE q = p
  <2>. DEFINE v == Ok([t EXCEPT !.heap[p].kids = InsertAt(RemoveAt(@, i), k, n)])
  <2>1. u = v
    BY <1>3, <1>5 DEF MoveNode
  <2>. HIDE DEF u, i, q
  <2>2. n = Kids(t, p)[i] /\ i \in 1 .. Len(Kids(t, p))
    BY <1>3, <1>5
  <2>3. Safe(v) /\ Items(v) = Items(t)
    BY <1>4, <2>2, MovesWithin
  <2>. QED  BY <2>1, <2>3 DEF Kept, u
<1>6. CASE q # p
  <2>1. u = IF Failed(r) THEN r ELSE RemoveNode(r, q, i)
    BY <1>3, <1>6 DEF MoveNode
  <2>2. Type(t, p) \in Stack /\ Type(t, p) # "LEAF"
    BY <1>1 DEF Tree, Good, Stack
  <2>3. CASE Len(Kids(t, p)) = MaxChildren
    <3>1. r = Fail(t, "FULL_PARENT")
      BY <2>2, <2>3 DEF InsertNode
    <3>2. "FULL_PARENT" \in Outcomes /\ "FULL_PARENT" # "SUCC"
      BY DEF Outcomes, Errors
    <3>3. Failed(r)
      BY <1>1, <3>1, <3>2, OkIs DEF Failed
    <3>4. Safe(r) /\ Items(r) = Items(t)
      BY <1>4, <3>1, <3>2, FailsSafely
    <3>. QED  BY <2>1, <3>3, <3>4 DEF Kept
  <2>4. CASE Len(Kids(t, p)) # MaxChildren
    <3>1. r = InsertAny(t, n, p, k)
      BY <2>2, <2>4 DEF InsertNode
    <3>2. Len(Kids(t, p)) < MaxChildren
      <4>1. Good(t, S, d, p) /\ Kids(t, p) \in Seq(Node)
        BY <1>1, NodeIs DEF Tree
      <4>2. PICK l \in Nat : l = Len(Kids(t, p))
        BY <4>1
      <4>. QED  BY <2>4, <4>1, <4>2, Sizes DEF Good
    <3>. DEFINE v == RemoveNode(r, q, i)
    <3>. HIDE DEF r, u
    <3>3. r.err = "SUCC" /\ Safe(v) /\ Items(v) = Items(t)
      <4>1. q = Parent(t, n) /\ i = IndexOf(t, n, q) /\ v = RemoveNode(r, q, i)
        OBVIOUS
      <4>. HIDE DEF q, i, v
      <4>. QED  BY <1>6, <2>2, <3>1, <3>2, <4>1, MovesAcross
    <3>. QED  BY <2>1, <3>3 DEF Failed, Kept, u
  <2>. QED  BY <2>3, <2>4
<1>. QED  BY <1>5, <1>6

-----------------------------------------------------------------------------
(* A new root *)

(* u is r with h above the old head and n. *)
Above(r, u, h, n) ==
  /\ u \in Trees /\ u.head = h /\ Parent(u, h) = Null
  /\ Type(u, h) \in Stack /\ u.heap[h].item = NoItem
  /\ ToSet(Kids(u, h)) = {r.head, n} /\ IsInjective(Kids(u, h)) /\ Len(Kids(u, h)) = 2
  /\ Parent(u, r.head) = h /\ Parent(u, n) = h
  /\ \A m \in Node \ {h} : /\ Type(u, m) = Type(r, m) /\ Kids(u, m) = Kids(r, m)
                           /\ u.heap[m].item = r.heap[m].item
                           /\ m \notin {r.head, n} => Parent(u, m) = Parent(r, m)

LEMMA Crowned ==
  ASSUME NEW r, NEW S, NEW d, Whole(r, S, d), Kids(r, r.head) = << >> => Type(r, r.head) = "LEAF",
         NEW B, NEW e, NEW n, Hangs(r, B, e, n), S \cap B = {},
         \A m \in B : /\ Kids(r, m) = << >> => Type(r, m) = "LEAF"
                      /\ Len(Kids(r, m)) = 1 => Type(r, Kids(r, m)[1]) = "LEAF",
         NEW h \in Node \ (S \cup B), NEW u, Above(r, u, h, n)
  PROVE  \E f : Whole(u, (S \cup B) \cup {h}, f)
<1>. DEFINE T == (S \cup B) \cup {h}
            f == [m \in Node |-> IF m = h THEN 0 ELSE IF m \in S THEN d[m] + 1 ELSE e[m] + 1]
<1>1. /\ r \in Trees /\ Fit(r) /\ Tree(r, S, d) /\ S \in SUBSET Node /\ d \in [Node -> Nat]
      /\ r.head \in S /\ r.head \in Node /\ \A m \in S : Full(r, m)
  BY DEF Whole, Tree
<1>2. B \in SUBSET Node /\ e \in [Node -> Nat] /\ n \in B /\ n \in Node /\ h \notin S /\ h \notin B
  BY DEF Hangs
<1>3. /\ u \in Trees /\ u.head = h /\ Parent(u, h) = Null
      /\ Type(u, h) \in Stack /\ u.heap[h].item = NoItem
      /\ ToSet(Kids(u, h)) = {r.head, n} /\ IsInjective(Kids(u, h)) /\ Len(Kids(u, h)) = 2
      /\ Parent(u, r.head) = h /\ Parent(u, n) = h
      /\ \A m \in Node \ {h} : /\ Type(u, m) = Type(r, m) /\ Kids(u, m) = Kids(r, m)
                               /\ u.heap[m].item = r.heap[m].item
                               /\ m \notin {r.head, n} => Parent(u, m) = Parent(r, m)
  BY DEF Above
<1>4. f \in [Node -> Nat] /\ f[h] = 0 /\ (\A m \in S : f[m] = d[m] + 1) /\ (\A m \in B : f[m] = e[m] + 1)
  BY <1>1, <1>2
<1>. HIDE DEF f
<1>5. ASSUME NEW m \in S PROVE Good(u, T, f, m)
  <2>1. Good(r, S, d, m) /\ m # h /\ m \in Node
    BY <1>1, <1>2 DEF Tree
  <2>2. ASSUME NEW c \in ToSet(Kids(r, m)) PROVE c \in T /\ Parent(u, c) = m /\ f[m] < f[c]
    <3>1. c \in S /\ Parent(r, c) = m /\ d[m] < d[c] /\ c # h /\ c # n /\ c \in Node
      BY <1>1, <1>2, <2>1 DEF Good
    <3>2. c # r.head
      BY <1>1, <2>1, <3>1, NullIsNoNode DEF Tree
    <3>3. d[m] \in Nat /\ d[c] \in Nat /\ f[m] = d[m] + 1 /\ f[c] = d[c] + 1
      BY <1>1, <1>4, <2>1, <3>1
    <3>. QED  BY <1>3, <3>1, <3>2, <3>3
  <2>3. Type(u, m) = Type(r, m) /\ Kids(u, m) = Kids(r, m)
    BY <1>3, <2>1
  <2>. QED  BY <2>1, <2>2, <2>3 DEF Good
<1>6. ASSUME NEW m \in B PROVE Good(u, T, f, m)
  <2>1. Good(r, B, e, m) /\ m # h /\ m \in Node
    BY <1>2 DEF Hangs
  <2>2. ASSUME NEW c \in ToSet(Kids(r, m)) PROVE c \in T /\ Parent(u, c) = m /\ f[m] < f[c]
    <3>1. c \in B /\ Parent(r, c) = m /\ e[m] < e[c] /\ c # h /\ c # r.head /\ c \in Node
      BY <1>1, <1>2, <2>1 DEF Good
    <3>2. c # n
      BY DEF Hangs
    <3>3. e[m] \in Nat /\ e[c] \in Nat /\ f[m] = e[m] + 1 /\ f[c] = e[c] + 1
      BY <1>2, <1>4, <2>1, <3>1
    <3>. QED  BY <1>3, <3>1, <3>2, <3>3
  <2>3. Type(u, m) = Type(r, m) /\ Kids(u, m) = Kids(r, m)
    BY <1>3, <2>1
  <2>. QED  BY <2>1, <2>2, <2>3 DEF Good
<1>7. Good(u, T, f, h)
  <2>1. 0 < f[r.head] /\ 0 < f[n]
    <3>1. f[r.head] = d[r.head] + 1 /\ f[n] = e[n] + 1 /\ d[r.head] \in Nat /\ e[n] \in Nat
      BY <1>1, <1>2, <1>4
    <3>. QED  BY <3>1
  <2>2. Type(u, h) # "LEAF" /\ Len(Kids(u, h)) <= MaxChildren
    BY <1>3, Sizes DEF Stack
  <2>. QED  BY <1>1, <1>2, <1>3, <1>4, <2>1, <2>2 DEF Good
<1>8. ASSUME NEW m \in T \ {h} PROVE Linked(u, T, m)
  <2>1. CASE m \in {r.head, n}
    BY <1>3, <2>1 DEF Linked
  <2>2. CASE m \in S \ {r.head}
    <3>1. Parent(r, m) \in S /\ m \in ToSet(Kids(r, Parent(r, m)))
      BY <1>1, <2>2 DEF Tree, Linked
    <3>2. Parent(u, m) = Parent(r, m) /\ Kids(u, Parent(r, m)) = Kids(r, Parent(r, m))
      BY <1>1, <1>2, <1>3, <2>2, <3>1
    <3>. QED  BY <3>1, <3>2 DEF Linked
  <2>3. CASE m \in B \ {n}
    <3>1. Parent(r, m) \in B /\ m \in ToSet(Kids(r, Parent(r, m)))
      BY <2>3 DEF Hangs, Linked
    <3>2. Parent(u, m) = Parent(r, m) /\ Kids(u, Parent(r, m)) = Kids(r, Parent(r, m))
      BY <1>1, <1>2, <1>3, <2>3, <3>1
    <3>. QED  BY <3>1, <3>2 DEF Linked
  <2>. QED  BY <1>8, <2>1, <2>2, <2>3
<1>9. Tree(u, T, f)
  BY <1>1, <1>2, <1>3, <1>4, <1>5, <1>6, <1>7, <1>8 DEF Tree
<1>10. Fit(u)
  <2>1. ASSUME NEW m \in Node PROVE u.heap[m].item # NoItem <=> Type(u, m) = "LEAF"
    <3>1. CASE m = h
      BY <1>3, <3>1 DEF Stack
    <3>2. CASE m # h
      BY <1>1, <1>3, <3>2 DEF Fit
    <3>. QED  BY <3>1, <3>2
  <2>. QED  BY <2>1 DEF Fit
<1>11. ASSUME NEW m \in T PROVE Full(u, m)
  <2>1. CASE m = h
    <3>1. Kids(u, h) # << >>
      BY <1>3
    <3>. QED  BY <1>3, <2>1, <3>1 DEF Full
  <2>2. CASE m \in S \cup B
    <3>1. m \in Node /\ m # h /\ Kids(r, m) \in Seq(Node) /\ Kids(u, m) = Kids(r, m) /\ Type(u, m) = Type(r, m)
      BY <1>1, <1>2, <1>3, <2>2, NodeIs
    <3>2. /\ Kids(r, m) = << >> => Type(r, m) = "LEAF"
          /\ Len(Kids(r, m)) = 1 => Type(r, Kids(r, m)[1]) = "LEAF"
      BY <1>1, <2>2 DEF Full
    <3>3. ASSUME Len(Kids(r, m)) = 1 PROVE Type(u, Kids(r, m)[1]) = "LEAF"
      <4>1. Kids(r, m)[1] \in ToSet(Kids(r, m))
        BY <3>1, <3>3, OneKid
      <4>2. Kids(r, m)[1] \in S \cup B
        BY <1>1, <2>2, <4>1 DEF Tree, Hangs, Good
      <4>. QED  BY <1>1, <1>2, <1>3, <3>2, <3>3, <4>2
    <3>. QED  BY <3>1, <3>2, <3>3 DEF Full
  <2>. QED  BY <2>1, <2>2
<1>. QED  BY <1>3, <1>9, <1>10, <1>11 DEF Whole

LEMMA NewRoots ==
  ASSUME NEW t, NEW S, NEW d, Whole(t, S, d), Distinct(t, S), t.focus \in S, t.focus # t.head,
         Room(t), NEW dir
  PROVE  Kept(t, NewRoot(t, dir))
<1>. DEFINE n == t.focus
            B == Below(t, n)
            p == Parent(t, n)
            i == IndexOf(t, n, p)
            r == RemoveNode(t, p, i)
            h == Fresh(r)
            pair == IF dir \in {"UP", "LEFT"} THEN <<r.focus, r.head>> ELSE <<r.head, r.focus>>
            root == [type |-> IF dir \in {"UP", "DOWN"} THEN "VERT" ELSE "HORZ",
                     parent |-> Null, item |-> NoItem, kids |-> pair]
            hp == [r.heap EXCEPT ![h] = root, ![r.head].parent = h, ![r.focus].parent = h]
            u == [r EXCEPT !.heap = hp, !.head = h]
<1>1. /\ t \in Trees /\ Fit(t) /\ Tree(t, S, d) /\ S \in SUBSET Node /\ n \in Node
      /\ \A m \in S : Full(t, m)
  BY DEF Whole, Tree
<1>2. Removed(t, S, n, r) /\ i # 0
  BY Removes
<1>3. NewRoot(t, dir) = IF Failed(r) THEN r ELSE u
  BY <1>2 DEF NewRoot
<1>4. B \subseteq S /\ n \in B /\ \A m \in B : ToSet(Kids(t, m)) \subseteq B
  BY <1>1, Subtree
<1>. HIDE DEF r, B
<1>5. PICK S2, e :
        /\ Whole(r, S2, e) /\ S2 \subseteq S \ B /\ r.head = t.head
        /\ r.focus = n \/ {n, r.focus} \subseteq S \ B
        /\ \A m \in (Node \ S) \cup B : r.heap[m] = t.heap[m]
        /\ Distinct(t, S) => Distinct(r, S2)
        /\ Showing(r, S2) = Showing(t, S \ B)
        /\ \A A \in SUBSET Node : S \subseteq A /\ Closed(t, A) => Closed(r, A)
        /\ \/ r.err = "SUCC" /\ (Kids(r, r.head) = << >> => Type(r, r.head) = "LEAF")
           \/ r.err = "ILLEGAL_DELETE"
  BY <1>2 DEF Removed, B
<1>6. r.focus = n /\ n # Null /\ r \in Trees
  BY <1>1, <1>4, <1>5, NullIsNoNode DEF Whole
<1>7. CASE Failed(r)
  <2>1. r.err = "ILLEGAL_DELETE"
    BY <1>5, <1>7 DEF Failed
  <2>2. Safe(r)
    BY <1>5, <1>6, SafeIs
  <2>. QED  BY <1>3, <1>7, <2>1, <2>2 DEF Kept
<1>8. CASE ~ Failed(r)
  <2>1. Kids(r, r.head) = << >> => Type(r, r.head) = "LEAF"
    BY <1>5, <1>8 DEF Failed
  <2>2. h \in Node /\ IsFreed(r, h)
    <3>1. PICK x \in Node : IsFreed(t, x)
      BY DEF Room
    <3>2. Closed(t, S) /\ x \notin S
      BY <3>1, InTree
    <3>3. Closed(r, S) /\ IsFreed(r, x)
      BY <1>1, <1>5, <3>1, <3>2 DEF IsFreed, Type
    <3>. QED  BY <1>1, <1>6, <3>2, <3>3, FreshIs
  <2>3. h \notin S2 /\ h \notin B
    <3>1. h \notin S2
      BY <1>5, <2>2, InTree
    <3>2. ASSUME h \in B PROVE FALSE
      <4>1. IsFreed(t, h) /\ h \in S
        BY <1>4, <1>5, <2>2, <3>2 DEF IsFreed, Type
      <4>. QED  BY <4>1, InTree
    <3>. QED  BY <3>1, <3>2
  <2>4. r.head \in S2 /\ r.head \in Node /\ r.head # n /\ r.head # h /\ n # h
    BY <1>4, <1>5, <2>3, InTree
  <2>5. /\ pair \in Seq(Node) /\ Len(pair) = 2 /\ ToSet(pair) = {r.head, n} /\ IsInjective(pair)
    <3>1. ASSUME NEW a \in Node, NEW b \in Node, a # b
          PROVE  /\ <<a, b>> \in Seq(Node) /\ Len(<<a, b>>) = 2 /\ ToSet(<<a, b>>) = {a, b}
                 /\ IsInjective(<<a, b>>)
      <4>1. /\ <<a, b>> \in Seq(Node) /\ Len(<<a, b>>) = 2 /\ DOMAIN <<a, b>> = {1, 2}
            /\ <<a, b>>[1] = a /\ <<a, b>>[2] = b
        OBVIOUS
      <4>2. ToSet(<<a, b>>) = {a, b}
        BY <4>1 DEF ToSet
      <4>3. IsInjective(<<a, b>>)
        BY <3>1, <4>1 DEF IsInjective
      <4>. QED  BY <4>1, <4>2, <4>3
    <3>2. {n, r.head} = {r.head, n}
      OBVIOUS
    <3>. QED  BY <1>1, <1>6, <2>4, <3>1, <3>2
  <2>. HIDE DEF pair
  <2>6. root \in Record /\ root.type \in Stack /\ root.item = NoItem /\ root.kids = pair /\ root.parent = Null
    BY <2>5 DEF Record, Stack
  <2>. HIDE DEF root, h
  <2>7. /\ hp \in [Node -> Record] /\ hp[h] = root
        /\ hp[r.head].parent = h /\ hp[n].parent = h
        /\ \A m \in Node \ {h} : /\ hp[m].type = r.heap[m].type /\ hp[m].kids = r.heap[m].kids
                                 /\ hp[m].item = r.heap[m].item
                                 /\ m \notin {r.head, n} => hp[m].parent = r.heap[m].parent
    <3>1. r.heap \in [Node -> Record]
      BY <1>6 DEF Trees
    <3>. DEFINE h1 == [r.heap EXCEPT ![h] = root]
                h2 == [h1 EXCEPT ![r.head].parent = h]
                h3 == [h2 EXCEPT ![n].parent = h]
    <3>2. hp = h3
      BY <1>6
    <3>3. h1 \in [Node -> Record] /\ h1[h] = root /\ \A m \in Node \ {h} : h1[m] = r.heap[m]
      BY <2>2, <2>6, <3>1
    <3>. HIDE DEF h1
    <3>4. /\ h2 \in [Node -> Record] /\ h2[r.head] = [h1[r.head] EXCEPT !.parent = h]
          /\ \A m \in Node \ {r.head} : h2[m] = h1[m]
      BY <2>2, <2>4, <3>3 DEF Record
    <3>. HIDE DEF h2
    <3>5. /\ h3 \in [Node -> Record] /\ h3[n] = [h2[n] EXCEPT !.parent = h]
          /\ \A m \in Node \ {n} : h3[m] = h2[m]
      BY <1>1, <2>2, <3>4 DEF Record
    <3>. HIDE DEF h3, hp
    <3>6. h3[h] = root
      BY <2>2, <2>4, <3>3, <3>4, <3>5
    <3>7. h2[n] = r.heap[n] /\ r.heap[n] \in Record /\ h1[r.head] = r.heap[r.head] /\ r.heap[r.head] \in Record
      BY <1>1, <2>4, <3>1, <3>3, <3>4
    <3>8. /\ h3[n].parent = h /\ h3[n].type = r.heap[n].type
          /\ h3[n].kids = r.heap[n].kids /\ h3[n].item = r.heap[n].item
      BY <3>5, <3>7 DEF Record
    <3>9. h3[r.head] = [r.heap[r.head] EXCEPT !.parent = h]
      BY <2>4, <3>4, <3>5, <3>7
    <3>10. /\ h3[r.head].parent = h /\ h3[r.head].type = r.heap[r.head].type
           /\ h3[r.head].kids = r.heap[r.head].kids /\ h3[r.head].item = r.heap[r.head].item
      BY <3>7, <3>9 DEF Record
    <3>11. \A m \in Node \ {h, n, r.head} : h3[m] = r.heap[m]
      BY <3>3, <3>4, <3>5
    <3>. QED  BY <3>2, <3>5, <3>6, <3>8, <3>10, <3>11
  <2>. HIDE DEF hp
  <2>8. u \in Trees /\ u.heap = hp /\ u.head = h /\ u.focus = n /\ u.err = r.err
    <3>. HIDE DEF Record
    <3>. QED  BY <1>6, <2>2, <2>7 DEF Trees
  <2>. HIDE DEF u
  <2>9. Above(r, u, h, n)
    <3>1. /\ Parent(u, h) = Null /\ Type(u, h) \in Stack /\ u.heap[h].item = NoItem
          /\ Kids(u, h) = pair
      BY <2>6, <2>7, <2>8 DEF Parent, Type, Kids
    <3>2. \A m \in Node \ {h} : /\ Type(u, m) = Type(r, m) /\ Kids(u, m) = Kids(r, m)
                                /\ u.heap[m].item = r.heap[m].item
                                /\ m \notin {r.head, n} => Parent(u, m) = Parent(r, m)
      BY <2>7, <2>8 DEF Parent, Type, Kids
    <3>3. Parent(u, r.head) = h /\ Parent(u, n) = h
      BY <2>7, <2>8 DEF Parent
    <3>. QED  BY <2>5, <2>8, <3>1, <3>2, <3>3 DEF Above
  <2>10. /\ \A m \in B : /\ Type(r, m) = Type(t, m) /\ Kids(r, m) = Kids(t, m)
                         /\ r.heap[m].item = t.heap[m].item
    BY <1>5 DEF Type, Kids
  <2>11. Hangs(r, B, d, n)
    <3>1. \A m \in Below(t, n) : r.heap[m] = t.heap[m]
      BY <1>5 DEF B
    <3>. QED  BY <1>1, <3>1, SubtreeHangs DEF B
  <2>12. ASSUME NEW m \in B
         PROVE  /\ Kids(r, m) = << >> => Type(r, m) = "LEAF"
                /\ Len(Kids(r, m)) = 1 => Type(r, Kids(r, m)[1]) = "LEAF"
    <3>1. Full(t, m) /\ m # t.head /\ Kids(t, m) \in Seq(Node)
      BY <1>1, <1>4, <1>5, <2>4, NodeIs
    <3>2. ASSUME Len(Kids(t, m)) = 1 PROVE Type(r, Kids(t, m)[1]) = "LEAF"
      <4>1. Kids(t, m)[1] \in B
        BY <1>4, <3>1, <3>2, OneKid
      <4>. QED  BY <2>10, <3>1, <3>2, <4>1 DEF Full
    <3>. QED  BY <2>10, <3>1, <3>2 DEF Full
  <2>. DEFINE T == (S2 \cup B) \cup {h}
  <2>13. PICK f : Whole(u, T, f)
    BY <1>5, <2>1, <2>2, <2>3, <2>9, <2>11, <2>12, Crowned
  <2>14. /\ Type(u, h) # "LEAF" /\ S2 \subseteq Node
         /\ \A m \in S2 \cup B : Type(u, m) = Type(r, m) /\ u.heap[m].item = r.heap[m].item
    <3>1. S2 \subseteq Node /\ S2 \cup B \subseteq Node \ {h}
      BY <1>1, <1>4, <1>5, <2>3
    <3>. QED  BY <2>9, <3>1 DEF Above, Stack
  <2>15. Showing(u, T) = Showing(t, S)
    <3>1. Showing(u, T) = Showing(u, S2) \cup Showing(u, B)
      BY <2>14 DEF Showing
    <3>2. Showing(u, S2) = Showing(r, S2)
      BY <2>14 DEF Showing
    <3>3. Showing(u, B) = Showing(t, B)
      BY <2>10, <2>14 DEF Showing
    <3>4. Showing(t, S) = Showing(t, S \ B) \cup Showing(t, B)
      BY <1>4 DEF Showing
    <3>. QED  BY <1>5, <3>1, <3>2, <3>3, <3>4
  <2>16. Distinct(u, T)
    <3>. SUFFICES ASSUME NEW a \in T, NEW b \in T, Type(u, a) = "LEAF", Type(u, b) = "LEAF",
                         u.heap[a].item = u.heap[b].item, u.heap[a].item # Gone
                  PROVE  a = b
      BY DEF Distinct
    <3>1. a \in S2 \cup B /\ b \in S2 \cup B
      BY <2>14
    <3>2. CASE a \in S2 /\ b \in S2
      BY <1>5, <2>14, <3>2 DEF Distinct
    <3>3. CASE a \in B /\ b \in B
      BY <1>4, <2>10, <2>14, <3>3 DEF Distinct
    <3>4. ASSUME NEW x \in S2, NEW y \in B, Type(u, x) = "LEAF", Type(u, y) = "LEAF",
                 u.heap[x].item = u.heap[y].item, u.heap[x].item # Gone
          PROVE  FALSE
      <4>1. u.heap[x].item \in Showing(r, S2)
        BY <2>14, <3>4 DEF Showing
      <4>2. PICK z \in S \ B : Type(t, z) = "LEAF" /\ t.heap[z].item = u.heap[x].item
        <5>1. u.heap[x].item \in Showing(t, S \ B)
          BY <1>5, <4>1, Zenon
        <5>. QED  BY <5>1 DEF Showing
      <4>3. Type(t, y) = "LEAF" /\ t.heap[y].item = u.heap[x].item /\ y \in S
        BY <1>4, <2>10, <2>14, <3>4
      <4>4. z = y
        BY <3>4, <4>2, <4>3 DEF Distinct
      <4>. QED  BY <4>2, <4>4
    <3>. QED  BY <3>1, <3>2, <3>3, <3>4
  <2>. HIDE DEF T
  <2>17. Safe(u) /\ Items(u) = Showing(u, T)
    BY <1>6, <2>8, <2>13, <2>16, SafeIs
  <2>18. Items(u) = Items(t)
    BY <1>1, <2>15, <2>17, ItemsAre
  <2>. QED  BY <1>3, <1>8, <2>17, <2>18 DEF Kept
<1>. QED  BY <1>7, <1>8

(* twm_tree_move_focused_node *)
LEMMA MovesFocused ==
  ASSUME NEW t, Ready(t), Room(t), NEW dir
  PROVE  Kept(t, MoveFocusedNode(t, dir))
<1>. DEFINE lv == Level(t, dir)
            adj == Kids(t, lv.at)[lv.ind]
            edge == EdgeParent(t, adj, dir)
            u == MoveFocusedNode(t, dir)
<1>1. CASE t.focus = Null \/ Parent(t, t.focus) = Null
  <2>1. u = Ok(t)
    BY <1>1 DEF MoveFocusedNode
  <2>2. t \in Trees /\ Safe(t) /\ (t.head = Null <=> t.focus = Null)
    BY ReadyIsSafe, NullIsNoNode DEF Ready, Whole, Tree
  <2>3. Ok(t) \in Trees /\ Ok(t).heap = t.heap /\ Ok(t).head = t.head /\ Ok(t).focus = t.focus
    BY <2>2, OkIs DEF Outcomes
  <2>4. Safe(Ok(t)) /\ Items(Ok(t)) = Items(t)
    BY <2>2, <2>3, Refocused
  <2>. QED  BY <2>1, <2>4 DEF Kept
<1>2. CASE t.focus # Null /\ Parent(t, t.focus) # Null
  <2>1. PICK S, d : Whole(t, S, d) /\ Distinct(t, S) /\ t.focus \in S
    BY <1>2 DEF Ready
  <2>2. t \in Trees /\ Tree(t, S, d) /\ S \in SUBSET Node /\ d \in [Node -> Nat] /\ t.focus # t.head
    BY <1>2, <2>1, InTree DEF Whole, Tree
  <2>3. Levelled(t, S, lv)
    BY <2>1, LevelIs
  <2>. HIDE DEF lv
  <2>4. CASE lv.at = Null
    <3>1. u = NewRoot(t, dir)
      BY <1>2, <2>3, <2>4 DEF MoveFocusedNode, Levelled, lv
    <3>. QED  BY <2>1, <2>2, <3>1, NewRoots
  <2>5. CASE lv.at # Null
    <3>1. PICK prev \in ToSet(Kids(t, lv.at)) : prev # adj /\ t.focus \in Below(t, prev)
      BY <2>3, <2>5 DEF Levelled
    <3>2. lv.err = "SUCC" /\ lv.at \in S /\ lv.ind \in 1 .. Len(Kids(t, lv.at))
      BY <2>3, <2>5 DEF Levelled
    <3>3. adj \in ToSet(Kids(t, lv.at)) /\ lv.at \in Node
      BY <2>2, <3>2, NodeIs, NoKids
    <3>. HIDE DEF adj
    <3>4. /\ adj \in S /\ prev \in S /\ d[lv.at] < d[prev]
      BY <2>2, <3>1, <3>2, <3>3 DEF Tree, Good
    <3>5. u = IF Type(t, adj) = "LEAF" THEN MoveNode(t, t.focus, lv.at, lv.ind)
              ELSE IF edge = Null THEN Fail(t, "INVALID_TREE")
              ELSE MoveNode(t, t.focus, edge, 1)
      BY <1>2, <2>5, <3>2 DEF MoveFocusedNode, lv, adj
    <3>6. Below(t, t.focus) \subseteq Below(t, prev)
      BY <2>2, <3>1, <3>4, Nested
    <3>7. CASE Type(t, adj) = "LEAF"
      <4>1. lv.at \notin Below(t, t.focus)
        <5>1. \A m \in Below(t, prev) \ {prev} : d[prev] < d[m]
          BY <2>2, <3>4, Subtree
        <5>2. d[lv.at] \in Nat /\ d[prev] \in Nat
          BY <2>2, <3>2, <3>4
        <5>. QED  BY <3>4, <3>6, <5>1, <5>2
      <4>2. Kids(t, lv.at) # << >>
        BY <2>2, <3>1, <3>3, NodeIs, NoKids
      <4>. DEFINE at == lv.at
                  ind == lv.ind
      <4>3. at \in S /\ at \notin Below(t, t.focus) /\ Kids(t, at) # << >> /\ ind \in 1 .. Len(Kids(t, at))
        BY <3>2, <4>1, <4>2
      <4>4. u = MoveNode(t, t.focus, at, ind)
        BY <3>5, <3>7
      <4>. HIDE DEF at, ind, u
      <4>5. Kept(t, MoveNode(t, t.focus, at, ind))
        BY <2>1, <2>2, <4>3, Moves
      <4>. QED  BY <4>4, <4>5 DEF u
    <3>8. CASE Type(t, adj) # "LEAF" /\ edge = Null
      <4>1. u = Fail(t, "INVALID_TREE") /\ "INVALID_TREE" \in Outcomes
        BY <3>5, <3>8 DEF Outcomes, Errors
      <4>. QED  BY <1>2, <2>1, <4>1, FailsSafely DEF Kept
    <3>9. CASE Type(t, adj) # "LEAF" /\ edge # Null
      <4>1. edge \in Below(t, adj) /\ Kids(t, edge) # << >>
        BY <2>2, <3>4, <3>9, EdgeIs
      <4>2. u = MoveNode(t, t.focus, edge, 1)
        BY <3>5, <3>9
      <4>. HIDE DEF edge, u
      <4>3. Below(t, adj) \cap Below(t, prev) = {}
        BY <2>2, <3>1, <3>2, <3>3, Apart
      <4>4. edge \in S /\ edge \notin Below(t, t.focus)
        BY <2>2, <3>4, <3>6, <4>1, <4>3, Subtree
      <4>5. 1 \in 1 .. Len(Kids(t, edge))
        BY <2>2, <4>1, <4>4, NodeIs, LastKid
      <4>6. Kept(t, MoveNode(t, t.focus, edge, 1))
        BY <2>1, <2>2, <4>1, <4>4, <4>5, Moves
      <4>. QED  BY <4>2, <4>6 DEF u
    <3>. QED  BY <3>7, <3>8, <3>9
  <2>. QED  BY <2>4, <2>5
<1>. QED  BY <1>1, <1>2

-----------------------------------------------------------------------------
(* The focus moves *)

(* u is t with another focus or outcome. *)
Turned(t, u) ==
  /\ u \in Trees /\ u.heap = t.heap /\ u.head = t.head
  /\ u.focus = t.focus \/ (t.head # Null /\ u.focus # Null)

LEMMA TurnsSafely ==
  ASSUME NEW t, Ready(t), NEW u, Turned(t, u)
  PROVE  Safe(u) /\ Items(u) = Items(t)
<1>1. Safe(t) /\ (t.head = Null <=> t.focus = Null)
  BY ReadyIsSafe, NullIsNoNode DEF Ready, Whole, Tree
<1>2. u \in Trees /\ u.heap = t.heap /\ u.head = t.head /\ (u.head = Null <=> u.focus = Null)
  BY <1>1 DEF Turned
<1>. QED  BY <1>1, <1>2, Refocused

LEMMA TurnIs ==
  ASSUME NEW t, Ready(t)
  PROVE  /\ \A code \in Outcomes : Turned(t, Fail(t, code)) /\ Fail(t, code).err = code
         /\ Turned(t, Ok(t)) /\ Ok(t).err = "SUCC"
         /\ \A n \in Node : t.head # Null =>
              /\ Turned(t, Ok(SetFocus(t, n)))
              /\ Ok(SetFocus(t, n)).focus = n /\ Ok(SetFocus(t, n)).err = "SUCC"
              /\ \A code \in Outcomes :
                   /\ Turned(t, Fail(SetFocus(t, n), code))
                   /\ Fail(SetFocus(t, n), code).focus = n /\ Fail(SetFocus(t, n), code).err = code
<1>1. t \in Trees
  BY DEF Ready
<1>2. ASSUME NEW code \in Outcomes PROVE Turned(t, Fail(t, code)) /\ Fail(t, code).err = code
  BY <1>1, OkIs DEF Turned
<1>3. Turned(t, Ok(t)) /\ Ok(t).err = "SUCC"
  BY <1>1, OkIs DEF Turned, Outcomes
<1>4. ASSUME NEW n \in Node, t.head # Null
      PROVE  /\ Turned(t, Ok(SetFocus(t, n)))
             /\ Ok(SetFocus(t, n)).focus = n /\ Ok(SetFocus(t, n)).err = "SUCC"
             /\ \A code \in Outcomes :
                  /\ Turned(t, Fail(SetFocus(t, n), code))
                  /\ Fail(SetFocus(t, n), code).focus = n /\ Fail(SetFocus(t, n), code).err = code
  <2>. DEFINE v == SetFocus(t, n)
  <2>1. v \in Trees /\ v.heap = t.heap /\ v.head = t.head /\ v.focus = n /\ n # Null
    BY <1>1, NullIsNoNode DEF SetFocus, Trees
  <2>. HIDE DEF v
  <2>2. \A code \in Outcomes : Turned(t, Fail(v, code)) /\ Fail(v, code).focus = n /\ Fail(v, code).err = code
    BY <1>4, <2>1, OkIs DEF Turned
  <2>3. Turned(t, Ok(v)) /\ Ok(v).focus = n /\ Ok(v).err = "SUCC"
    BY <1>4, <2>1, OkIs DEF Turned, Outcomes
  <2>. QED  BY <2>2, <2>3 DEF v
<1>. QED  BY <1>2, <1>3, <1>4

LEMMA Codes == Errors \subseteq Outcomes /\ Crashes \subseteq Outcomes /\ "SUCC" \in Outcomes
BY DEF Outcomes

(* What is known of a tree with a focus. *)
LEMMA Focused ==
  ASSUME NEW t, Ready(t), t.focus # Null
  PROVE  /\ t \in Trees /\ t.head # Null /\ t.focus \in Node /\ Kids(t, t.focus) \in Seq(Node)
         /\ Type(t, t.focus) # "LEAF" => Type(t, t.focus) \in Stack
         /\ Parent(t, t.focus) \in Node \cup {Null}
         /\ Parent(t, t.focus) # Null => ~ IsFreed(t, Parent(t, t.focus))
         /\ Kids(t, t.focus) # << >> => Redrawable(t, t.focus)
<1>1. PICK S, d : Whole(t, S, d) /\ t.focus \in S /\ t.head # Null
  BY DEF Ready
<1>2. t \in Trees /\ Tree(t, S, d) /\ S \in SUBSET Node /\ \A m \in S : Full(t, m)
  BY <1>1 DEF Whole, Tree
<1>3. Kids(t, t.focus) # << >> => Redrawable(t, t.focus)
  BY <1>1, <1>2, Redraws
<1>4. Parent(t, t.focus) # Null => ~ IsFreed(t, Parent(t, t.focus))
  BY <1>1, InTree DEF Linked
<1>5. Type(t, t.focus) # "LEAF" => Type(t, t.focus) \in Stack
  BY <1>1, InTree
<1>. QED  BY <1>1, <1>2, <1>3, <1>4, <1>5, NodeIs

LEMMA MovesFocus ==
  ASSUME NEW t, Ready(t), NEW dir
  PROVE  Turned(t, MoveFocus(t, dir))
<1>. DEFINE u == MoveFocus(t, dir)
<1>1. \A code \in Errors \cup Crashes : Turned(t, Fail(t, code))
  BY TurnIs, Codes
<1>2. Turned(t, Ok(t))
  BY TurnIs
<1>3. \A n \in Node : t.head # Null =>
        Turned(t, Ok(SetFocus(t, n))) /\ Turned(t, Fail(SetFocus(t, n), "INVALID_TREE"))
  BY TurnIs, Codes DEF Errors
<1>4. CASE t.focus = Null
  <2>1. t.head = Null
    BY <1>4, NullIsNoNode DEF Ready, Whole, Tree
  <2>2. u = Fail(t, "NO_WINDOWS")
    BY <1>4, <2>1 DEF MoveFocus
  <2>. QED  BY <1>1, <2>2 DEF Errors
<1>5. CASE t.focus # Null
  <2>1. /\ t \in Trees /\ t.head # Null /\ t.focus \in Node /\ Kids(t, t.focus) \in Seq(Node)
        /\ Parent(t, t.focus) \in Node \cup {Null}
        /\ Parent(t, t.focus) # Null => ~ IsFreed(t, Parent(t, t.focus))
        /\ Kids(t, t.focus) # << >> => Redrawable(t, t.focus)
    BY <1>5, Focused
  <2>2. CASE dir = "CHILD"
    <3>1. u = MoveFocusToChild(t)
      BY <1>5, <2>2 DEF MoveFocus
    <3>2. CASE Type(t, t.focus) = "LEAF"
      BY <1>2, <3>1, <3>2 DEF MoveFocusToChild
    <3>3. CASE Type(t, t.focus) # "LEAF" /\ Kids(t, t.focus) = << >>
      <4>1. u = Fail(t, "INVALID_TREE")
        BY <3>1, <3>3 DEF MoveFocusToChild
      <4>. QED  BY <1>1, <4>1 DEF Errors
    <3>4. CASE Type(t, t.focus) # "LEAF" /\ Kids(t, t.focus) # << >>
      <4>1. u = Ok(SetFocus(t, Kids(t, t.focus)[1]))
        BY <2>1, <3>1, <3>4 DEF MoveFocusToChild
      <4>2. Kids(t, t.focus)[1] \in Node
        BY <2>1, <3>4, LastKid, NoKids
      <4>. QED  BY <1>3, <2>1, <4>1, <4>2
    <3>. QED  BY <3>2, <3>3, <3>4
  <2>3. CASE dir # "CHILD" /\ Parent(t, t.focus) = Null
    <3>1. u = Ok(t)
      BY <1>5, <2>3 DEF MoveFocus
    <3>. QED  BY <1>2, <3>1
  <2>4. CASE dir = "PARENT" /\ Parent(t, t.focus) # Null
    <3>. DEFINE p == Parent(t, t.focus)
    <3>1. u = MoveFocusToParent(t)
      BY <1>5, <2>4 DEF MoveFocus
    <3>2. u = Ok(SetFocus(t, p)) \/ u = Fail(SetFocus(t, p), "INVALID_TREE")
      BY <2>1, <2>4, <3>1 DEF MoveFocusToParent, Redrawn
    <3>3. p \in Node
      BY <2>1, <2>4
    <3>. HIDE DEF p
    <3>. QED  BY <1>3, <2>1, <3>2, <3>3
  <2>5. CASE dir \notin {"CHILD", "PARENT"} /\ Parent(t, t.focus) # Null
    <3>. DEFINE lv == Level(t, dir)
                next == LastLeaf(t, Kids(t, lv.at)[lv.ind])
    <3>1. u = MoveFocusAlong(t, dir)
      BY <1>5, <2>5 DEF MoveFocus
    <3>2. PICK S, d : Whole(t, S, d) /\ t.focus \in S
      BY <2>1 DEF Ready
    <3>3. Levelled(t, S, lv)
      BY <3>2, LevelIs
    <3>4. u = IF lv.at = Null THEN Ok(t)
              ELSE IF next = Null THEN Fail(t, "OUT_OF_BOUNDS")
              ELSE IF ~ Redrawable(t, t.focus) THEN Fail(t, "INVALID_TREE")
              ELSE Ok(SetFocus(t, next))
      BY <3>1, <3>3 DEF MoveFocusAlong, Levelled
    <3>5. lv.at # Null => next \in Node \cup {Null}
      <4>. SUFFICES ASSUME lv.at # Null PROVE next \in Node \cup {Null}
        OBVIOUS
      <4>1. lv.at \in Node /\ lv.ind \in 1 .. Len(Kids(t, lv.at))
        BY <3>2, <3>3 DEF Levelled, Whole, Tree
      <4>2. Kids(t, lv.at)[lv.ind] \in Node
        BY <2>1, <4>1, NodeIs, NoKids
      <4>. HIDE DEF lv
      <4>. QED  BY <2>1, <4>2, LastLeafIs
    <3>. HIDE DEF lv, next, u
    <3>6. "OUT_OF_BOUNDS" \in Crashes /\ "INVALID_TREE" \in Errors
      BY DEF Crashes, Errors
    <3>. QED  BY <1>1, <1>2, <1>3, <2>1, <3>4, <3>5, <3>6 DEF u
  <2>. QED  BY <2>2, <2>3, <2>4, <2>5
<1>. QED  BY <1>4, <1>5

(* twm_tree_get_focused_as moves the focus at most to an only child. *)
LEMMA FocusedAsIs ==
  ASSUME NEW t, Ready(t)
  PROVE  /\ Ready(FocusedAs(t)) /\ FocusedAs(t).heap = t.heap /\ FocusedAs(t).head = t.head
         /\ Items(FocusedAs(t)) = Items(t)
<1>. DEFINE u == FocusedAs(t)
            f == t.focus
            down == SetFocus(t, Kids(t, f)[1])
<1>0. u \in {Fail(t, "NO_FOCUS"), Ok(t), Fail(t, "NOT_LEAF")}
      \/ /\ f # Null /\ Type(t, f) # "LEAF" /\ Len(Kids(t, f)) = 1
         /\ u \in {Ok(down), Fail(down, "INVALID_TREE")}
  BY DEF FocusedAs
<1>1. {"NO_FOCUS", "NOT_LEAF", "INVALID_TREE", "SUCC"} \subseteq Outcomes /\ t \in Trees
  BY DEF Outcomes, Errors, Ready
<1>2. /\ Turned(t, u)
      /\ u.focus = t.focus \/ (t.focus # Null /\ t.head # Null /\ u.focus \in ToSet(Kids(t, t.focus)))
  <2>1. CASE u \in {Fail(t, "NO_FOCUS"), Ok(t), Fail(t, "NOT_LEAF")}
    <3>. HIDE DEF u
    <3>. QED  BY <1>1, <2>1, OkIs DEF Turned
  <2>2. CASE /\ f # Null /\ Type(t, f) # "LEAF" /\ Len(Kids(t, f)) = 1
             /\ u \in {Ok(down), Fail(down, "INVALID_TREE")}
    <3>1. Kids(t, f) \in Seq(Node) /\ t.head # Null
      BY <2>2, Focused
    <3>2. Kids(t, f)[1] \in Node /\ Kids(t, f)[1] \in ToSet(Kids(t, f))
      BY <2>2, <3>1, OneKid
    <3>. HIDE DEF u
    <3>3. Turned(t, u) /\ u.focus = Kids(t, f)[1]
      BY <1>1, <2>2, <3>1, <3>2, TurnIs
    <3>. QED  BY <2>2, <3>1, <3>2, <3>3
  <2>. HIDE DEF u
  <2>. QED  BY <1>0, <2>1, <2>2
<1>. HIDE DEF u
<1>3. u \in Trees /\ u.heap = t.heap /\ u.head = t.head /\ Items(u) = Items(t)
  <2>1. Items(u) = Items(t)
    BY <1>2, TurnsSafely
  <2>. QED  BY <1>2, <2>1 DEF Turned
<1>4. Fit(u)
  BY <1>3, SameTree DEF Ready
<1>5. ASSUME NEW S, NEW d, Whole(t, S, d), Distinct(t, S), t.focus \in S
      PROVE  Whole(u, S, d) /\ Distinct(u, S) /\ u.focus \in S
  <2>1. u.focus \in S
    BY <1>2, <1>5 DEF Whole, Tree, Good
  <2>. QED  BY <1>3, <1>5, <2>1, SameTree DEF Whole
<1>6. Ready(u)
  <2>1. CASE t.head = Null /\ t.focus = Null
    BY <1>2, <1>3, <1>4, <2>1 DEF Ready
  <2>2. CASE t.head # Null
    BY <1>3, <1>4, <1>5, <2>2 DEF Ready
  <2>. QED  BY <2>1, <2>2 DEF Ready
<1>. QED  BY <1>3, <1>6 DEF u

-----------------------------------------------------------------------------
(* twm_set_stack_dir_focused *)

LEMMA RetypeIs ==
  ASSUME NEW t \in Trees, NEW n \in Node, Type(t, n) \in Stack, NEW type \in Stack,
         t.heap[n].item = NoItem, t.focus # Null, NEW u,
         u = [t EXCEPT !.heap[n].type = type, !.heap[n].item = NoItem]
           \/ u = [t EXCEPT !.heap[n].type = type]
  PROVE  Reshaped(t, u)
<1>. DEFINE h == [t.heap EXCEPT ![n] = [t.heap[n] EXCEPT !.type = type]]
            v == [t EXCEPT !.heap = h]
<1>1. t.heap \in [Node -> Record]
  BY DEF Trees
<1>2. u = v
  <2>1. t.heap[n] \in Record /\ type = type
    BY <1>1
  <2>2. [t.heap[n] EXCEPT !.type = type, !.item = NoItem] = [t.heap[n] EXCEPT !.type = type]
    BY <2>1 DEF Record
  <2>. QED  BY <1>1, <2>2
<1>3. /\ h \in [Node -> Record] /\ h[n].type = type
      /\ \A m \in Node : /\ h[m].kids = t.heap[m].kids /\ h[m].parent = t.heap[m].parent
                         /\ h[m].item = t.heap[m].item
                         /\ m # n => h[m].type = t.heap[m].type
  BY <1>1 DEF Record
<1>. HIDE DEF h
<1>4. v \in Trees /\ v.heap = h /\ v.head = t.head /\ v.focus = t.focus
  BY <1>3, HeapIs
<1>. HIDE DEF v
<1>5. \A m \in Node : /\ Kids(v, m) = Kids(t, m) /\ Parent(v, m) = Parent(t, m)
                      /\ v.heap[m].item = t.heap[m].item
                      /\ Type(v, m) = Type(t, m) \/ {Type(v, m), Type(t, m)} \subseteq Stack
  BY <1>3, <1>4 DEF Kids, Parent, Type
<1>. QED  BY <1>2, <1>4, <1>5 DEF Reshaped

(* A redraw, or another focus, changes neither. *)
LEMMA Repainted ==
  ASSUME NEW t, Safe(t), t.head # Null, NEW n \in Node, NEW p
  PROVE  /\ Safe(Redrawn(SetFocus(t, n), p)) /\ Items(Redrawn(SetFocus(t, n), p)) = Items(t)
         /\ t.focus # Null => Safe(Redrawn(t, p)) /\ Items(Redrawn(t, p)) = Items(t)
<1>1. t \in Trees /\ {"SUCC", "INVALID_TREE"} \subseteq Outcomes
  BY DEF Safe, Outcomes, Errors
<1>2. ASSUME NEW v, v \in Trees, v.heap = t.heap, v.head = t.head, v.focus # Null
      PROVE  Safe(Redrawn(v, p)) /\ Items(Redrawn(v, p)) = Items(t)
  <2>1. PICK u : u = Redrawn(v, p)
    OBVIOUS
  <2>2. u = Ok(v) \/ u = Fail(v, "INVALID_TREE")
    BY <2>1 DEF Redrawn
  <2>3. u \in Trees /\ u.heap = t.heap /\ u.head = t.head /\ u.focus # Null
    BY <1>1, <1>2, <2>2, OkIs
  <2>4. Safe(u) /\ Items(u) = Items(t)
    BY <2>3, Refocused
  <2>. QED  BY <2>1, <2>4
<1>3. SetFocus(t, n) \in Trees /\ SetFocus(t, n).heap = t.heap /\ SetFocus(t, n).head = t.head
      /\ SetFocus(t, n).focus = n /\ n # Null
  BY <1>1, NullIsNoNode DEF SetFocus, Trees
<1>. QED  BY <1>1, <1>2, <1>3

LEMMA SetsDir ==
  ASSUME NEW t, Ready(t), Room(t), NEW type \in Stack
  PROVE  Safe(SetStackDir(t, type))
<1>. DEFINE f == t.focus
            p == Parent(t, f)
            w == WrapLeaf(t, f, type)
            retyped == [t EXCEPT !.heap[p].type = type, !.heap[p].item = NoItem]
            changed == [t EXCEPT !.heap[f].type = type]
            u == SetStackDir(t, type)
<1>1. Turned(t, Ok(t)) /\ Turned(t, Fail(t, "USE_AFTER_FREE"))
  BY TurnIs, Codes DEF Crashes
<1>2. CASE f = Null
  <2>1. u = Ok(t)
    BY <1>2 DEF SetStackDir
  <2>. QED  BY <1>1, <2>1, TurnsSafely
<1>3. CASE f # Null
  <2>1. PICK S, d : Whole(t, S, d) /\ Distinct(t, S) /\ f \in S
    BY <1>3 DEF Ready
  <2>2. /\ t \in Trees /\ Fit(t) /\ Tree(t, S, d) /\ S \in SUBSET Node /\ f \in Node
    BY <2>1 DEF Whole, Tree
  <2>3. CASE Type(t, f) = "LEAF" /\ (p = Null \/ Len(Kids(t, p)) > 1)
    <3>1. p # Null => ~ IsFreed(t, p)
      BY <1>3, Focused
    <3>2. u = Redrawn(w, f)
      <4>1. u = IF p # Null /\ IsFreed(t, p) THEN UseAfterFree(t) ELSE Redrawn(w, f)
        BY <1>3, <2>3 DEF SetStackDir, Stack
      <4>. QED  BY <3>1, <4>1
    <3>3. f = t.head \/ Len(Kids(t, Parent(t, f))) # 1
      <4>1. CASE p = Null
        BY <2>1, <4>1, InTree
      <4>2. CASE p # Null
        <5>1. Len(Kids(t, p)) > 1
          BY <2>3, <4>2
        <5>2. ASSUME Len(Kids(t, p)) = 1 PROVE FALSE
          <6>1. 1 > 1
            BY <5>1, <5>2, Zenon
          <6>. QED  BY <6>1
        <5>. QED  BY <5>2
      <4>. QED  BY <4>1, <4>2
    <3>4. PICK c : c = Fresh(t)
      OBVIOUS
    <3>5. c \in Node /\ IsFreed(t, c)
      <4>1. PICK x \in Node : IsFreed(t, x)
        BY DEF Room
      <4>2. Closed(t, S) /\ x \notin S
        BY <2>1, <4>1, InTree
      <4>. QED  BY <2>2, <3>4, <4>1, <4>2, FreshIs
    <3>6. c \in Node \ S
      BY <2>1, <3>5, InTree
    <3>7. /\ \E e : Whole(w, S \cup {c}, e)
          /\ w.head = t.head /\ w.focus = f /\ Distinct(w, S \cup {c})
      <4>. DEFINE g == f
      <4>1. g \in S /\ Type(t, g) = "LEAF" /\ (g = t.head \/ Len(Kids(t, Parent(t, g))) # 1)
        BY <2>1, <2>3, <3>3
      <4>2. w = WrapLeaf(t, g, type) /\ g = t.focus
        OBVIOUS
      <4>. HIDE DEF g, w
      <4>3. /\ \E e : Whole(WrapLeaf(t, g, type), S \cup {c}, e)
            /\ WrapLeaf(t, g, type).head = t.head /\ WrapLeaf(t, g, type).focus = t.focus
            /\ Distinct(t, S) => Distinct(WrapLeaf(t, g, type), S \cup {c})
        BY <2>1, <3>4, <3>6, <4>1, Wraps
      <4>. QED  BY <2>1, <4>2, <4>3
    <3>. HIDE DEF w
    <3>8. Safe(w) /\ w.head # Null /\ w.focus # Null
      BY <1>3, <2>1, <3>7, SafeIs, InTree
    <3>. QED  BY <2>2, <3>2, <3>8, Repainted
  <2>4. CASE Type(t, f) = "LEAF" /\ ~ (p = Null \/ Len(Kids(t, p)) > 1)
    <3>1. ~ IsFreed(t, p) /\ p \in Node
      BY <1>3, <2>2, <2>4, Focused, NodeIs
    <3>2. u = Redrawn(SetFocus(retyped, p), p)
      <4>1. u = IF p # Null /\ IsFreed(t, p) THEN UseAfterFree(t) ELSE Redrawn(SetFocus(retyped, p), p)
        BY <1>3, <2>4 DEF SetStackDir, Stack
      <4>. QED  BY <3>1, <4>1
    <3>3. Type(t, p) \in Stack
      <4>1. p \in S /\ f \in ToSet(Kids(t, p))
        BY <2>1, <2>4, InTree DEF Linked
      <4>2. Kids(t, p) # << >>
        BY <2>2, <3>1, <4>1, NodeIs, NoKids
      <4>. QED  BY <2>2, <4>1, <4>2 DEF Tree, Good
    <3>4. t.heap[p].item = NoItem
      BY <2>2, <3>1, <3>3 DEF Fit, Stack
    <3>5. Reshaped(t, retyped)
      <4>. DEFINE g == p
      <4>1. g \in Node /\ Type(t, g) \in Stack /\ t.heap[g].item = NoItem
            /\ retyped = [t EXCEPT !.heap[g].type = type, !.heap[g].item = NoItem]
        BY <3>1, <3>3, <3>4
      <4>. HIDE DEF g, retyped
      <4>. QED  BY <1>3, <2>2, <4>1, RetypeIs
    <3>. HIDE DEF retyped, p
    <3>6. Safe(retyped) /\ retyped.head # Null
      BY <2>1, <3>5, Reshapes, InTree DEF Reshaped
    <3>. QED  BY <3>1, <3>2, <3>6, Repainted
  <2>5. CASE Type(t, f) # "LEAF" /\ Type(t, f) = type
    <3>1. u = Ok(t)
      BY <1>3, <2>5 DEF SetStackDir
    <3>. QED  BY <1>1, <3>1, TurnsSafely
  <2>6. CASE Type(t, f) # "LEAF" /\ Type(t, f) # type
    <3>1. u = Redrawn(changed, f)
      BY <1>3, <2>6 DEF SetStackDir
    <3>2. Type(t, f) \in Stack /\ t.heap[f].item = NoItem
      BY <1>3, <2>2, <2>6, Focused DEF Fit
    <3>3. Reshaped(t, changed)
      <4>. DEFINE g == f
      <4>1. g \in Node /\ Type(t, g) \in Stack /\ t.heap[g].item = NoItem
            /\ changed = [t EXCEPT !.heap[g].type = type]
        BY <2>2, <3>2
      <4>. HIDE DEF g, changed
      <4>. QED  BY <1>3, <2>2, <4>1, RetypeIs
    <3>. HIDE DEF changed
    <3>4. Safe(changed) /\ changed.head # Null /\ changed.focus # Null
      BY <2>1, <3>3, Reshapes, InTree DEF Reshaped
    <3>. QED  BY <2>2, <3>1, <3>4, Repainted
  <2>. QED  BY <2>3, <2>4, <2>5, <2>6
<1>. QED  BY <1>2, <1>3

-----------------------------------------------------------------------------
(* Searching for an item *)

LEMMA BelowKids ==
  ASSUME NEW t \in Trees, NEW n \in Node, NEW m \in Below(t, n), m # n
  PROVE  \E c \in ToSet(Kids(t, n)) : m \in Below(t, c)
<1>. DEFINE C == {n} \cup UNION {Below(t, c) : c \in ToSet(Kids(t, n))}
<1>1. ToSet(Kids(t, n)) \subseteq Node
  BY NodeIs, NoKids
<1>2. \A c \in ToSet(Kids(t, n)) :
        /\ Below(t, c) \in SUBSET Node /\ c \in Below(t, c)
        /\ \A x \in Below(t, c) : ToSet(Kids(t, x)) \subseteq Below(t, c)
  BY <1>1, BelowIs
<1>3. C \in SUBSET Node /\ n \in C
  BY <1>2
<1>4. \A x \in C : ToSet(Kids(t, x)) \subseteq C
  <2>1. ToSet(Kids(t, n)) \subseteq C
    BY <1>2
  <2>2. \A c \in ToSet(Kids(t, n)) : \A x \in Below(t, c) : ToSet(Kids(t, x)) \subseteq C
    BY <1>2
  <2>. QED  BY <2>1, <2>2
<1>. HIDE DEF C
<1>5. Below(t, n) \subseteq C
  BY <1>3, <1>4, BelowIs
<1>. QED  BY <1>5 DEF C

(* The first of s gives way to k. *)
LEMMA Unstacked ==
  ASSUME NEW S, NEW s \in Seq(S), s # << >>, NEW k \in Seq(S)
  PROVE  /\ k \o Tail(s) \in Seq(S)
         /\ ToSet(k \o Tail(s)) \subseteq ToSet(k) \cup ToSet(s)
         /\ ToSet(k) \subseteq ToSet(k \o Tail(s))
         /\ ToSet(s) \subseteq {s[1]} \cup ToSet(k \o Tail(s))
<1>. DEFINE r == Tail(s)
            q == k \o r
<1>1. PICK l \in Nat : l + 1 = Len(s)
  <2>1. Len(s) \in Nat /\ Len(s) # 0
    BY EmptySeq
  <2>2. Len(s) - 1 \in Nat /\ (Len(s) - 1) + 1 = Len(s)
    BY <2>1
  <2>. QED  BY <2>2
<1>2. r \in Seq(S) /\ Len(r) = l /\ \A i \in 1 .. l : r[i] = s[i + 1]
  BY <1>1
<1>3. PICK x \in Nat : x = Len(k)
  OBVIOUS
<1>. HIDE DEF r
<1>4. /\ q \in Seq(S) /\ Len(q) = x + l
      /\ \A i \in 1 .. x : q[i] = k[i]
      /\ \A i \in 1 .. l : q[x + i] = r[i]
  <2>1. k \in Seq(S) /\ r \in Seq(S) /\ x \in Nat /\ l \in Nat /\ x = Len(k) /\ l = Len(r)
    BY <1>2, <1>3
  <2>2. /\ k \o r \in Seq(S) /\ Len(k \o r) = x + l
        /\ \A i \in 1 .. x : (k \o r)[i] = k[i]
        /\ \A i \in 1 .. l : (k \o r)[x + i] = r[i]
    BY <2>1, Joined
  <2>. QED  BY <2>2
<1>. HIDE DEF q
<1>5. DOMAIN q = 1 .. x + l /\ DOMAIN k = 1 .. x /\ DOMAIN s = 1 .. l + 1
  BY <1>1, <1>3, <1>4
<1>6. ASSUME NEW e \in ToSet(q) PROVE e \in ToSet(k) \cup ToSet(s)
  <2>1. PICK i \in 1 .. x + l : e = q[i]
    BY <1>5, <1>6 DEF ToSet
  <2>2. CASE i <= x
    <3>1. i \in 1 .. x
      BY <2>2
    <3>. QED  BY <1>4, <1>5, <2>1, <3>1 DEF ToSet
  <2>3. CASE i > x
    <3>1. PICK j \in 1 .. l : i = x + j
      <4>1. i - x \in 1 .. l /\ i = x + (i - x)
        BY <2>3
      <4>. QED  BY <4>1
    <3>2. e = s[j + 1] /\ j + 1 \in 1 .. l + 1
      <4>1. q[x + j] = r[j] /\ r[j] = s[j + 1] /\ e = q[x + j]
        BY <1>2, <1>4, <2>1, <3>1
      <4>. QED  BY <4>1
    <3>. QED  BY <1>5, <3>2 DEF ToSet
  <2>. QED  BY <2>2, <2>3
<1>7. ASSUME NEW e \in ToSet(k) PROVE e \in ToSet(q)
  <2>1. PICK i \in 1 .. x : e = k[i]
    BY <1>5, <1>7 DEF ToSet
  <2>2. i \in 1 .. x + l
    OBVIOUS
  <2>. QED  BY <1>4, <1>5, <2>1, <2>2 DEF ToSet
<1>8. ASSUME NEW e \in ToSet(s), e # s[1] PROVE e \in ToSet(q)
  <2>1. PICK i \in 1 .. l + 1 : e = s[i]
    BY <1>5, <1>8 DEF ToSet
  <2>2. PICK j \in 1 .. l : i = j + 1
    <3>1. i # 1
      BY <1>8, <2>1
    <3>2. i - 1 \in 1 .. l /\ i = (i - 1) + 1
      BY <3>1
    <3>. QED  BY <3>2
  <2>3. e = q[x + j] /\ x + j \in 1 .. x + l
    <3>1. q[x + j] = r[j] /\ r[j] = s[j + 1] /\ e = s[j + 1]
      BY <1>2, <1>4, <2>1, <2>2
    <3>. QED  BY <3>1
  <2>. QED  BY <1>5, <2>3 DEF ToSet
<1>. QED  BY <1>4, <1>6, <1>7, <1>8 DEF q, r

(* A search finds a window of the tree, or there is none, or it gave up.   *)
Found(t, S, item, found) ==
  \/ /\ found.err = "SUCC" /\ found.node \in S
     /\ Type(t, found.node) = "LEAF" /\ t.heap[found.node].item = item
  \/ found.err = "NOT_FOUND" /\ item \notin Showing(t, S)
  \/ found.err = "INVALID_TREE"

LEMMA Finds ==
  ASSUME NEW t, NEW S, NEW d, Whole(t, S, d), NEW item
  PROVE  Found(t, S, item, FindItem(t, t.head, item))
<1>. DEFINE f == [todo \in Seq(Node) |-> Visit(t, todo, item)]
            shows(m) == Type(t, m) = "LEAF" /\ t.heap[m].item = item
            I == {todo \in Seq(Node) :
                    /\ ToSet(todo) \subseteq S
                    /\ \A m \in S : shows(m) => \E x \in ToSet(todo) : m \in Below(t, x)}
            rest == Iterate(f, <<t.head>>)
<1>1. /\ t \in Trees /\ Tree(t, S, d) /\ S \in SUBSET Node /\ t.head \in S /\ t.head # Null
  BY InTree DEF Whole
<1>2. \A todo \in Seq(Node) :
        f[todo] = IF todo = << >> \/ Ends(t, todo[1], item) THEN todo
                  ELSE Kids(t, todo[1]) \o Tail(todo)
  BY DEF Visit
<1>3. f \in [Seq(Node) -> Seq(Node)]
  <2>. SUFFICES ASSUME NEW todo \in Seq(Node), todo # << >>
                PROVE  Kids(t, todo[1]) \o Tail(todo) \in Seq(Node)
    BY DEF Visit
  <2>1. todo[1] \in Node
    BY LastKid, NoKids
  <2>. QED  BY <1>1, <2>1, NodeIs, Unstacked
<1>4. <<t.head>> \in I
  <2>1. <<t.head>> \in Seq(Node) /\ ToSet(<<t.head>>) = {t.head}
    BY <1>1, OneSeq
  <2>2. Below(t, t.head) = S
    BY <1>1, ShownIs DEF Shown
  <2>. QED  BY <1>1, <2>1, <2>2
<1>5. ASSUME NEW todo \in I PROVE f[todo] \in I
  <2>1. CASE todo = << >> \/ Ends(t, todo[1], item)
    BY <1>2, <1>5, <2>1
  <2>2. CASE ~ (todo = << >> \/ Ends(t, todo[1], item))
    <3>. DEFINE n == todo[1]
                next == Kids(t, n) \o Tail(todo)
    <3>1. f[todo] = next /\ todo \in Seq(Node)
      BY <1>2, <2>2
    <3>2. n \in S /\ n \in Node /\ Kids(t, n) \in Seq(Node)
      <4>1. n \in ToSet(todo) /\ ToSet(todo) \subseteq S
        BY <2>2, LastKid
      <4>. QED  BY <1>1, <4>1, NodeIs
    <3>3. /\ next \in Seq(Node)
          /\ ToSet(next) \subseteq ToSet(Kids(t, n)) \cup ToSet(todo)
          /\ ToSet(Kids(t, n)) \subseteq ToSet(next)
          /\ ToSet(todo) \subseteq {n} \cup ToSet(next)
      BY <2>2, <3>1, <3>2, Unstacked
    <3>4. ToSet(next) \subseteq S
      BY <1>1, <3>2, <3>3 DEF Tree, Good
    <3>5. ASSUME NEW m \in S, shows(m) PROVE \E x \in ToSet(next) : m \in Below(t, x)
      <4>1. PICK x \in ToSet(todo) : m \in Below(t, x)
        BY <3>5
      <4>2. CASE x # n
        BY <3>3, <4>1, <4>2
      <4>3. CASE x = n
        <5>1. m # n
          BY <2>2, <3>5 DEF Ends
        <5>2. PICK c \in ToSet(Kids(t, n)) : m \in Below(t, c)
          BY <1>1, <3>2, <4>1, <4>3, <5>1, BelowKids
        <5>. QED  BY <3>3, <5>2
      <4>. QED  BY <4>2, <4>3
    <3>. HIDE DEF next, n
    <3>. QED  BY <3>1, <3>3, <3>4, <3>5
  <2>. QED  BY <2>1, <2>2
<1>6. rest \in I
  <2>. HIDE DEF f, I
  <2>1. I \in SUBSET Seq(Node)
    BY DEF I
  <2>. QED  BY <1>3, <1>4, <1>5, <2>1, IterateIn
<1>7. FindItem(t, t.head, item) =
        CASE rest = << >> -> [node |-> t.head, err |-> "NOT_FOUND"]
          [] rest # << >> /\ Type(t, rest[1]) = "LEAF" /\ t.heap[rest[1]].item = item ->
               [node |-> rest[1], err |-> "SUCC"]
          [] OTHER -> [node |-> t.head, err |-> "INVALID_TREE"]
  BY DEF FindItem
<1>. HIDE DEF rest
<1>8. /\ rest \in Seq(Node) /\ ToSet(rest) \subseteq S
      /\ \A m \in S : Type(t, m) = "LEAF" /\ t.heap[m].item = item => \E x \in ToSet(rest) : m \in Below(t, x)
  BY <1>6
<1>9. CASE rest = << >>
  <2>1. ToSet(rest) = {}
    BY <1>8, <1>9, NoKids
  <2>2. item \notin Showing(t, S)
    BY <1>8, <2>1 DEF Showing
  <2>. QED  BY <1>7, <1>9, <2>2 DEF Found
<1>10. CASE rest # << >> /\ Type(t, rest[1]) = "LEAF" /\ t.heap[rest[1]].item = item
  <2>1. rest[1] \in S
    BY <1>8, <1>10, LastKid
  <2>. QED  BY <1>7, <1>10, <2>1 DEF Found
<1>11. CASE rest # << >> /\ ~ (Type(t, rest[1]) = "LEAF" /\ t.heap[rest[1]].item = item)
  BY <1>7, <1>11 DEF Found
<1>. QED  BY <1>9, <1>10, <1>11

(* twm_tree_focus_item says NOT_FOUND only of an item without a window.    *)
LEMMA FocusItemIs ==
  ASSUME NEW t, Ready(t), NEW item
  PROVE  LET u == FocusItem(t, item)
         IN  /\ Ready(u) /\ u.heap = t.heap /\ u.head = t.head
             /\ u.err = "NOT_FOUND" => item \notin Items(u)
<1>. DEFINE u == FocusItem(t, item)
            found == FindItem(t, t.head, item)
<1>1. t \in Trees /\ {"NOT_FOUND", "INVALID_TREE"} \subseteq Outcomes /\ "SUCC" # "NOT_FOUND"
      /\ "INVALID_TREE" # "NOT_FOUND"
  BY DEF Ready, Outcomes, Errors
<1>2. CASE t.head = Null
  <2>1. u = Fail(t, "NOT_FOUND")
    BY <1>2 DEF FocusItem
  <2>. HIDE DEF u
  <2>2. u \in Trees /\ u.heap = t.heap /\ u.head = t.head /\ u.focus = t.focus
    BY <1>1, <2>1, OkIs
  <2>3. Ready(u)
    BY <1>2, <2>2, SameTree DEF Ready
  <2>. QED  BY <1>2, <2>2, <2>3, ItemsAre DEF u
<1>3. CASE t.head # Null
  <2>1. PICK S, d : Whole(t, S, d) /\ Distinct(t, S) /\ t.focus \in S
    BY <1>3 DEF Ready
  <2>2. Found(t, S, item, found) /\ S \in SUBSET Node
    BY <2>1, Finds, InTree
  <2>3. u = IF found.err # "SUCC" THEN Fail(t, found.err) ELSE Ok(SetFocus(t, found.node))
    BY <1>3 DEF FocusItem
  <2>. HIDE DEF u, found
  <2>4. /\ u \in Trees /\ u.heap = t.heap /\ u.head = t.head /\ u.focus \in S
        /\ u.err = "NOT_FOUND" => item \notin Showing(t, S)
    <3>1. CASE found.err = "SUCC"
      <4>1. found.node \in S /\ found.node \in Node /\ u = Ok(SetFocus(t, found.node))
        BY <1>1, <2>2, <2>3, <3>1 DEF Found
      <4>2. Turned(t, u) /\ u.focus = found.node /\ u.err = "SUCC"
        BY <1>3, <4>1, TurnIs
      <4>. QED  BY <1>1, <4>1, <4>2 DEF Turned
    <3>2. CASE found.err # "SUCC"
      <4>1. found.err \in {"NOT_FOUND", "INVALID_TREE"} /\ u = Fail(t, found.err)
        BY <2>2, <2>3, <3>2 DEF Found
      <4>2. u \in Trees /\ u.heap = t.heap /\ u.head = t.head /\ u.focus = t.focus /\ u.err = found.err
        BY <1>1, <4>1, OkIs
      <4>3. found.err = "NOT_FOUND" => item \notin Showing(t, S)
        BY <1>1, <2>2 DEF Found
      <4>. QED  BY <2>1, <4>2, <4>3
    <3>. QED  BY <3>1, <3>2
  <2>5. Whole(u, S, d) /\ Distinct(u, S) /\ Showing(u, S) = Showing(t, S)
    BY <2>1, <2>4, SameTree DEF Whole
  <2>6. Items(u) = Showing(t, S)
    BY <2>4, <2>5, ItemsAre DEF Whole
  <2>7. Ready(u)
    BY <1>3, <2>4, <2>5 DEF Ready, Whole
  <2>. QED  BY <2>4, <2>6, <2>7 DEF u
<1>. QED  BY <1>2, <1>3

-----------------------------------------------------------------------------
(* Closing a window *)

(* The focus is in the tree, or on no window. *)
FocusOK(t, S) == t.focus \in S \/ (t.focus \in Node /\ Type(t, t.focus) # "LEAF")

(* What closing several windows keeps between one and the next. *)
Steady(t) ==
  /\ t \in Trees /\ Fit(t)
  /\ \/ t.head = Null /\ t.focus = Null
     \/ t.head # Null /\ \E S, d : Whole(t, S, d) /\ Distinct(t, S) /\ FocusOK(t, S)

LEMMA SteadyIs ==
  ASSUME NEW t
  PROVE  /\ Ready(t) => Steady(t)
         /\ Steady(t) => Safe(t)
         /\ \A S, d : Whole(t, S, d) /\ Distinct(t, S) /\ FocusOK(t, S) => Steady(t)
<1>1. Ready(t) => Steady(t)
  BY DEF Ready, Steady, FocusOK
<1>2. \A S, d : Whole(t, S, d) => S \in SUBSET Node /\ t.head # Null /\ t \in Trees /\ Fit(t)
  BY InTree DEF Whole
<1>3. Steady(t) => Safe(t)
  BY <1>2, NullIsNoNode DEF Steady, Safe, FocusOK
<1>. QED  BY <1>1, <1>2, <1>3 DEF Steady

(* u is t without the subtree at n, or as it was. *)
Shut(t, S, n, u) ==
  /\ Safe(u) /\ (u.err \notin Crashes => Steady(u))
  /\ Items(u) \in {Showing(t, S), Showing(t, S \ Below(t, n))}
  /\ u.err = "SUCC" => Items(u) = Showing(t, S \ Below(t, n))

LEMMA FreeIs ==
  ASSUME NEW t \in Trees, Fit(t), NEW n \in Node
  PROVE  LET u == FreeSubtree(t, n)
         IN  /\ u \in Trees /\ Fit(u) /\ u.head = t.head /\ u.focus = t.focus /\ u.err = t.err
             /\ \A m \in Node \ Below(t, n) : u.heap[m] = t.heap[m]
<1>. DEFINE h == [m \in Node |-> IF m \in Below(t, n) THEN Freed ELSE t.heap[m]]
            u == FreeSubtree(t, n)
<1>1. u = [t EXCEPT !.heap = h]
  BY DEF FreeSubtree
<1>2. h \in [Node -> Record] /\ \A m \in Node : h[m] = IF m \in Below(t, n) THEN Freed ELSE t.heap[m]
  <2>1. t.heap \in [Node -> Record] /\ Freed \in Record
    BY DEF Trees, Record, Freed
  <2>. QED  BY <2>1
<1>. HIDE DEF h, u
<1>3. u \in Trees /\ u.heap = h /\ u.head = t.head /\ u.focus = t.focus /\ u.err = t.err
  BY <1>1, <1>2, HeapIs
<1>4. Fit(u)
  BY <1>2, <1>3 DEF Fit, Type, Freed
<1>. QED  BY <1>2, <1>3, <1>4 DEF u

(* The last window goes. *)
LEMMA ShutsLast ==
  ASSUME NEW t, NEW S, NEW d, Whole(t, S, d), NEW u, u = Ok(AllGone(FreeSubtree(t, t.head)))
  PROVE  Shut(t, S, t.head, u)
<1>. DEFINE v == FreeSubtree(t, t.head)
            w == AllGone(v)
<1>1. t \in Trees /\ Fit(t) /\ Tree(t, S, d) /\ t.head \in Node /\ t.head # Null
  BY InTree DEF Whole
<1>2. v \in Trees /\ Fit(v)
  BY <1>1, FreeIs
<1>. HIDE DEF v
<1>3. w \in Trees /\ w.heap = v.heap /\ w.head = Null /\ w.focus = Null
  BY <1>2 DEF AllGone, Trees
<1>4. u = Ok(w)
  BY DEF v
<1>. HIDE DEF w
<1>5. u \in Trees /\ u.heap = v.heap /\ u.head = Null /\ u.focus = Null
  BY <1>3, <1>4, OkIs DEF Outcomes
<1>6. Fit(u)
  BY <1>2, <1>5 DEF Fit, Type
<1>7. Steady(u)
  BY <1>5, <1>6 DEF Steady
<1>8. Items(u) = {}
  BY <1>5, ItemsAre
<1>9. Showing(t, S \ Below(t, t.head)) = {}
  BY <1>1, ShownIs DEF Shown, Showing
<1>. QED  BY <1>7, <1>8, <1>9, SteadyIs DEF Shut

(* twm_remove_node and then the nodes freed: f is what remains. *)
Freeing(t, S, n, r, f) ==
  \E S2, d :
    /\ Whole(r, S2, d) /\ Distinct(r, S2) /\ Showing(r, S2) = Showing(t, S \ Below(t, n))
    /\ Whole(f, S2, d) /\ Distinct(f, S2) /\ Showing(f, S2) = Showing(t, S \ Below(t, n))
    /\ f.focus = r.focus /\ f.err = r.err
    /\ r.focus = t.focus \/ {t.focus, r.focus} \subseteq S \ Below(t, n)
    /\ \A m \in (S \ Below(t, n)) : m \in S2 \/ (Type(r, m) # "LEAF" /\ Type(f, m) # "LEAF")
    /\ \A m \in Node \ S : r.heap[m] = t.heap[m] /\ f.heap[m] = t.heap[m]
    /\ S2 \subseteq S \ Below(t, n)
    /\ \/ r.err = "SUCC"
       \/ r.err = "ILLEGAL_DELETE" /\ Parent(t, n) = t.head /\ Len(Kids(t, t.head)) = 1

LEMMA Frees ==
  ASSUME NEW t, NEW S, NEW d, Whole(t, S, d), Distinct(t, S), NEW n \in S, n # t.head,
         NEW p, p = Parent(t, n), NEW r, r = RemoveNode(t, p, IndexOf(t, n, p))
  PROVE  Freeing(t, S, n, r, FreeSubtree(r, n)) /\ IndexOf(t, n, p) # 0
<1>. DEFINE B == Below(t, n)
            f == FreeSubtree(r, n)
<1>1. t \in Trees /\ Tree(t, S, d) /\ S \in SUBSET Node /\ n \in Node
  BY DEF Whole, Tree
<1>2. Removed(t, S, n, r) /\ IndexOf(t, n, p) # 0
  BY Removes
<1>3. B \subseteq S /\ n \in B /\ \A m \in B : ToSet(Kids(t, m)) \subseteq B
  BY <1>1, Subtree
<1>. HIDE DEF B
<1>4. PICK S2, e :
        /\ Whole(r, S2, e) /\ S2 \subseteq S \ B /\ r.head = t.head
        /\ r.focus = t.focus \/ {t.focus, r.focus} \subseteq S \ B
        /\ \A m \in (Node \ S) \cup B : r.heap[m] = t.heap[m]
        /\ \A m \in (S \ B) \ S2 : Type(r, m) # "LEAF"
        /\ Distinct(t, S) => Distinct(r, S2)
        /\ Showing(r, S2) = Showing(t, S \ B)
        /\ \/ r.err = "SUCC"
           \/ r.err = "ILLEGAL_DELETE" /\ Parent(t, n) = t.head /\ Len(Kids(t, t.head)) = 1
  BY <1>2 DEF Removed, B
<1>5. r \in Trees /\ Fit(r) /\ Tree(r, S2, e)
  BY <1>4 DEF Whole
<1>6. Below(r, n) \subseteq B
  <2>1. \A m \in B : Kids(r, m) = Kids(t, m)
    BY <1>4 DEF Kids
  <2>2. B \in SUBSET Node /\ n \in B /\ \A m \in B : ToSet(Kids(r, m)) \subseteq B
    BY <1>1, <1>3, <2>1
  <2>. QED  BY <1>1, <1>5, <2>2, BelowIs
<1>7. /\ f \in Trees /\ Fit(f) /\ f.head = r.head /\ f.focus = r.focus /\ f.err = r.err
      /\ \A m \in Node \ Below(r, n) : f.heap[m] = r.heap[m]
  BY <1>1, <1>5, FreeIs
<1>. HIDE DEF f
<1>8. \A m \in Node \ B : f.heap[m] = r.heap[m]
  BY <1>6, <1>7
<1>9. Whole(f, S2, e) /\ Distinct(f, S2) /\ Showing(f, S2) = Showing(r, S2)
  <2>1. (\A m \in S2 : f.heap[m] = r.heap[m]) /\ \A m \in S2 : Full(r, m)
    BY <1>1, <1>4, <1>8 DEF Whole
  <2>2. /\ Tree(f, S2, e) /\ \A m \in S2 : Full(f, m)
        /\ Distinct(f, S2) <=> Distinct(r, S2)
        /\ Showing(f, S2) = Showing(r, S2)
    BY <1>5, <1>7, <2>1, SameOn
  <2>. QED  BY <1>4, <1>7, <2>2 DEF Whole
<1>10. \A m \in S \ B : m \in S2 \/ (Type(r, m) # "LEAF" /\ Type(f, m) # "LEAF")
  BY <1>1, <1>4, <1>8 DEF Type
<1>11. \A m \in Node \ S : r.heap[m] = t.heap[m] /\ f.heap[m] = t.heap[m]
  BY <1>3, <1>4, <1>8
<1>. QED  BY <1>2, <1>4, <1>7, <1>9, <1>10, <1>11 DEF Freeing, B, f

(* The sibling after the i-th of l. *)
LEMMA After ==
  ASSUME NEW l \in Nat, NEW i \in 1 .. l
  PROVE  (i % l) + 1 \in 1 .. l /\ (l > 1 => (i % l) + 1 # i)
<1>1. CASE i = l
  <2>1. l % l = 0
    BY Z3
  <2>. QED  BY <1>1, <2>1
<1>2. CASE i < l
  <2>1. i % l = i
    BY <1>2, Z3
  <2>. QED  BY <1>2, <2>1
<1>. QED  BY <1>1, <1>2

-----------------------------------------------------------------------------
(* Closing the focused window *)

(* The k-th child of p is in the tree. *)
LEMMA Kid ==
  ASSUME NEW t, NEW S, NEW d, Whole(t, S, d), NEW p \in S, NEW k \in 1 .. Len(Kids(t, p))
  PROVE  Kids(t, p)[k] \in ToSet(Kids(t, p)) /\ Kids(t, p)[k] \in S
<1>1. p \in Node /\ t \in Trees /\ Good(t, S, d, p)
  BY DEF Whole, Tree
<1>2. Kids(t, p)[k] \in ToSet(Kids(t, p))
  BY <1>1, NodeIs, NoKids
<1>. QED  BY <1>1, <1>2 DEF Good

(* The node that gets the focus is in the tree, and not below the one      *)
(* that goes.                                                              *)
LEMMA NextFocusIs ==
  ASSUME NEW t, NEW S, NEW d, Whole(t, S, d), t.focus \in S, NEW p, p = Parent(t, t.focus), p # Null,
         Len(Kids(t, p)) = 1 => Parent(t, p) # Null
  PROVE  NextFocus(t, p) \in S \ Below(t, t.focus)
<1>. DEFINE f == t.focus
            g == Parent(t, p)
            next == NextFocus(t, p)
            i == IndexOf(t, f, p)
            j == IndexOf(t, p, g)
<1>1. t \in Trees /\ Tree(t, S, d) /\ S \in SUBSET Node /\ f \in S
  BY InTree DEF Whole
<1>2. f # t.head /\ p \in S /\ p \in Node /\ f \in ToSet(Kids(t, p)) /\ f \in Node
  <2>1. f # t.head
    BY InTree
  <2>. QED  BY <1>1, <2>1, InTree DEF Linked
<1>3. Kids(t, p) \in Seq(Node) /\ Good(t, S, d, p)
  BY <1>1, <1>2, NodeIs DEF Tree
<1>4. PICK l \in Nat : l = Len(Kids(t, p))
  BY <1>3
<1>5. i \in 1 .. l /\ Kids(t, p)[i] = f
  BY <1>1, <1>2, <1>4, IndexIs
<1>6. next = CASE l = 1 -> Kids(t, g)[(j % Len(Kids(t, g))) + 1]
               [] l = 2 -> p
               [] OTHER -> Kids(t, p)[(i % l) + 1]
  BY <1>4 DEF NextFocus
<1>. HIDE DEF i, j, next
<1>7. p \notin Below(t, f)
  <2>1. p # f /\ ~ (d[f] < d[p])
    <3>1. d[p] < d[f] /\ d[p] \in Nat /\ d[f] \in Nat
      BY <1>1, <1>2, <1>3 DEF Good, Tree
    <3>. QED  BY <3>1
  <2>. QED  BY <1>1, <2>1, Subtree
<1>8. CASE l = 1
  <2>1. g # Null /\ p # t.head
    BY <1>4, <1>8, InTree
  <2>2. g \in S /\ g \in Node /\ p \in ToSet(Kids(t, g))
    BY <1>1, <1>2, <2>1, InTree DEF Linked
  <2>3. PICK m \in Nat : m = Len(Kids(t, g))
    BY <1>1, <2>2, NodeIs
  <2>4. j \in 1 .. m
    BY <1>1, <2>2, <2>3, IndexIs DEF j
  <2>5. (j % m) + 1 \in 1 .. m
    BY <2>3, <2>4, After
  <2>6. next = Kids(t, g)[(j % m) + 1]
    BY <1>6, <1>8, <2>3
  <2>7. next \in ToSet(Kids(t, g)) /\ next \in S
    BY <2>2, <2>3, <2>5, <2>6, Kid
  <2>8. f \in Below(t, p) /\ Below(t, f) \subseteq Below(t, p)
    BY <1>1, <1>2, BelowIs, Nested
  <2>9. next \notin Below(t, f)
    <3>1. CASE next = p
      BY <1>7, <3>1
    <3>2. CASE next # p
      <4>1. Below(t, p) \cap Below(t, next) = {}
        BY <1>1, <2>2, <2>7, <3>2, Apart
      <4>2. next \in Below(t, next)
        BY <1>1, <2>7, BelowIs
      <4>. QED  BY <2>8, <4>1, <4>2
    <3>. QED  BY <3>1, <3>2
  <2>. QED  BY <2>7, <2>9 DEF next
<1>9. CASE l = 2
  <2>1. next = p
    BY <1>6, <1>9
  <2>. QED  BY <1>2, <1>7, <2>1 DEF next
<1>10. CASE l # 1 /\ l # 2
  <2>1. l > 1
    <3>1. \A x \in Nat : \A y \in 1 .. x : x # 1 => x > 1
      OBVIOUS
    <3>. QED  BY <1>4, <1>5, <1>10, <3>1
  <2>2. (i % l) + 1 \in 1 .. l /\ (i % l) + 1 # i
    BY <1>4, <1>5, <2>1, After
  <2>3. next = Kids(t, p)[(i % l) + 1]
    BY <1>6, <1>10
  <2>4. next \in ToSet(Kids(t, p)) /\ next \in S
    BY <1>2, <1>4, <2>2, <2>3, Kid
  <2>5. next # f
    <3>1. DOMAIN Kids(t, p) = 1 .. l
      BY <1>3, <1>4
    <3>2. IsInjective(Kids(t, p))
      BY <1>3 DEF Good
    <3>. QED  BY <1>5, <2>2, <2>3, <3>1, <3>2 DEF IsInjective
  <2>6. Below(t, f) \cap Below(t, next) = {}
    BY <1>1, <1>2, <2>4, <2>5, Apart
  <2>7. next \in Below(t, next)
    BY <1>1, <2>4, BelowIs
  <2>. QED  BY <2>4, <2>6, <2>7 DEF next
<1>. QED  BY <1>8, <1>9, <1>10

(* A tree that an operation leaves as it was but for the outcome. *)
LEMMA Unshut ==
  ASSUME NEW t, NEW S, NEW d, Whole(t, S, d), Distinct(t, S), FocusOK(t, S), NEW code \in Outcomes
  PROVE  /\ Steady(Fail(t, code)) /\ Items(Fail(t, code)) = Showing(t, S) /\ Fail(t, code).err = code
         /\ code # "SUCC" => \A n : Shut(t, S, n, Fail(t, code))
<1>. DEFINE u == Fail(t, code)
<1>1. t \in Trees
  BY DEF Whole
<1>2. u \in Trees /\ u.heap = t.heap /\ u.head = t.head /\ u.focus = t.focus /\ u.err = code
  BY <1>1, OkIs
<1>. HIDE DEF u
<1>3. Whole(u, S, d) /\ Distinct(u, S) /\ Showing(u, S) = Showing(t, S)
  BY <1>2, SameTree DEF Whole
<1>4. FocusOK(u, S)
  BY <1>2 DEF FocusOK, Type
<1>5. Steady(u) /\ Safe(u)
  BY <1>3, <1>4, SteadyIs
<1>6. Items(u) = Showing(t, S)
  BY <1>2, <1>3, ItemsAre, InTree DEF Whole
<1>. QED  BY <1>2, <1>5, <1>6 DEF Shut, u

(* twm_tree_remove_focused: the focus is on a node of the tree, or on the  *)
(* parent that absorbed one; or it would have been on a freed node.        *)
LEMMA RemovesFocused ==
  ASSUME NEW t, NEW S, NEW d, Whole(t, S, d), Distinct(t, S), t.focus \in S
  PROVE  Shut(t, S, t.focus, RemoveFocused(t))
<1>. DEFINE f == t.focus
            p == Parent(t, f)
<1>1. t \in Trees /\ Tree(t, S, d) /\ S \in SUBSET Node /\ t.head \in S /\ f # Null /\ FocusOK(t, S)
  BY InTree, NullIsNoNode DEF Whole, FocusOK
<1>2. CASE p = Null
  <2>1. f = t.head
    BY <1>1, <1>2, InTree
  <2>2. RemoveFocused(t) = Ok(AllGone(FreeSubtree(t, t.head)))
    BY <1>1, <1>2, <2>1 DEF RemoveFocused
  <2>. QED  BY <2>1, <2>2, ShutsLast
<1>3. CASE p # Null
  <2>. DEFINE g == Parent(t, p)
              i == IndexOf(t, f, p)
              r == RemoveNode(t, p, i)
              next == NextFocus(t, p)
              freed == FreeSubtree(r, f)
              only == Len(Kids(t, p)) = 1
              u == RemoveFocused(t)
  <2>1. f # t.head
    BY <1>3, InTree
  <2>2. p \in S /\ p \in Node /\ ~ IsFreed(t, p)
    BY <1>1, <2>1, InTree DEF Linked
  <2>3. Freeing(t, S, f, r, freed) /\ i # 0
    BY <2>1, Frees
  <2>4. u = RemoveBelow(t, p)
    BY <1>1, <1>3 DEF RemoveFocused
  <2>5. g # Null => /\ g \in S /\ g \in Node /\ ~ IsFreed(t, g)
                    /\ IndexOf(t, p, g) # 0
    <3>. SUFFICES ASSUME g # Null
                  PROVE  g \in S /\ g \in Node /\ ~ IsFreed(t, g) /\ IndexOf(t, p, g) # 0
      OBVIOUS
    <3>1. p # t.head
      BY InTree
    <3>2. g \in S /\ p \in ToSet(Kids(t, g))
      BY <2>2, <3>1, InTree DEF Linked
    <3>. QED  BY <1>1, <3>2, InTree, IndexIs
  <2>. HIDE DEF u, next, freed
  <2>6. CASE only /\ g = Null
    <3>1. u = Fail(t, "BAD_DEVELOPER")
      BY <2>2, <2>3, <2>4, <2>6 DEF RemoveBelow
    <3>2. "BAD_DEVELOPER" \in Outcomes /\ "BAD_DEVELOPER" # "SUCC"
      BY DEF Outcomes, Errors
    <3>. QED  BY <1>1, <3>1, <3>2, Unshut DEF u
  <2>7. CASE ~ (only /\ g = Null)
    <3>1. u = IF Failed(r) THEN r
              ELSE IF IsFreed(freed, next) THEN UseAfterFree(freed)
              ELSE Redrawn(SetFocus(freed, next), p)
      BY <2>2, <2>3, <2>4, <2>5, <2>7 DEF RemoveBelow, next, freed
    <3>2. next \in S \ Below(t, f)
      BY <1>3, <2>7, NextFocusIs DEF next
    <3>. HIDE DEF r
    <3>3. PICK S2, e :
            /\ Whole(freed, S2, e) /\ Distinct(freed, S2)
            /\ Showing(freed, S2) = Showing(t, S \ Below(t, f))
            /\ \A m \in (S \ Below(t, f)) : m \in S2 \/ Type(freed, m) # "LEAF"
            /\ \/ r.err = "SUCC"
               \/ r.err = "ILLEGAL_DELETE" /\ p = t.head /\ Len(Kids(t, t.head)) = 1
      BY <2>3 DEF Freeing
    <3>4. ~ Failed(r)
      <4>1. Parent(t, t.head) = Null
        BY InTree
      <4>. QED  BY <2>7, <3>3, <4>1 DEF Failed
    <3>5. freed \in Trees /\ next \in Node
      BY <1>1, <3>2, <3>3 DEF Whole
    <3>6. CASE IsFreed(freed, next)
      <4>1. u = Fail(freed, "USE_AFTER_FREE")
        BY <3>1, <3>4, <3>6 DEF UseAfterFree
      <4>2. /\ u \in Trees /\ u.heap = freed.heap /\ u.head = freed.head
            /\ u.err = "USE_AFTER_FREE" /\ u.err \in Crashes /\ u.err # "SUCC"
        BY <3>5, <4>1, OkIs DEF Outcomes, Crashes
      <4>3. Whole(u, S2, e) /\ Distinct(u, S2) /\ Showing(u, S2) = Showing(freed, S2)
        BY <3>3, <4>2, SameTree DEF Whole
      <4>4. Safe(u)
        BY <4>2, <4>3 DEF Safe, Whole
      <4>5. Items(u) = Showing(u, S2)
        BY <4>2, <4>3, ItemsAre, InTree DEF Whole
      <4>. QED  BY <3>3, <4>2, <4>3, <4>4, <4>5 DEF Shut, u
    <3>7. CASE ~ IsFreed(freed, next)
      <4>. DEFINE v == SetFocus(freed, next)
      <4>1. v \in Trees /\ v.heap = freed.heap /\ v.head = freed.head /\ v.focus = next
        BY <3>5 DEF SetFocus, Trees
      <4>2. u = Redrawn(v, p)
        BY <3>1, <3>4, <3>7
      <4>. HIDE DEF v
      <4>3. u \in Trees /\ u.heap = freed.heap /\ u.head = freed.head /\ u.focus = next
        BY <4>1, <4>2, OkIs DEF Redrawn, Outcomes, Errors
      <4>4. Whole(u, S2, e) /\ Distinct(u, S2) /\ Showing(u, S2) = Showing(freed, S2)
        BY <3>3, <4>3, SameTree DEF Whole
      <4>5. FocusOK(u, S2)
        BY <3>2, <3>3, <3>5, <4>3 DEF FocusOK, Type
      <4>6. Steady(u)
        BY <4>4, <4>5, SteadyIs
      <4>7. Items(u) = Showing(u, S2)
        BY <4>3, <4>4, ItemsAre, InTree DEF Whole
      <4>. QED  BY <3>3, <4>4, <4>6, <4>7, SteadyIs DEF Shut, u
    <3>. QED  BY <3>6, <3>7 DEF u
  <2>. QED  BY <2>6, <2>7
<1>. QED  BY <1>2, <1>3

-----------------------------------------------------------------------------
(* Closing the window of an item *)

LEMMA BelowLeaf ==
  ASSUME NEW t, NEW S, NEW d, Whole(t, S, d), NEW n \in S, Type(t, n) = "LEAF"
  PROVE  Below(t, n) = {n}
<1>1. t \in Trees /\ n \in Node /\ Kids(t, n) = << >> /\ Kids(t, n) \in Seq(Node)
  BY NodeIs DEF Whole, Tree, Good
<1>2. ToSet(Kids(t, n)) = {}
  BY <1>1, NoKids
<1>3. {n} \in SUBSET Node /\ n \in {n} /\ \A m \in {n} : ToSet(Kids(t, m)) \subseteq {n}
  BY <1>1, <1>2
<1>. QED  BY <1>1, <1>3, BelowIs

(* What the focus is on when a leaf it is not on has gone. *)
LEMMA StillFocused ==
  ASSUME NEW t, NEW S, FocusOK(t, S), S \in SUBSET Node, NEW n, t.focus # n, NEW u, NEW S2,
         u.focus = t.focus \/ u.focus \in S \ {n},
         \A m \in S \ {n} : m \in S2 \/ Type(u, m) # "LEAF",
         \A m \in Node \ S : u.heap[m] = t.heap[m]
  PROVE  FocusOK(u, S2)
<1>1. CASE u.focus \in S \ {n}
  BY <1>1 DEF FocusOK
<1>2. CASE u.focus \notin S \ {n}
  <2>1. u.focus = t.focus /\ t.focus \notin S /\ t.focus \in Node
    BY <1>2 DEF FocusOK
  <2>. QED  BY <2>1 DEF FocusOK, Type
<1>. QED  BY <1>1, <1>2

LEMMA RemovesFound ==
  ASSUME NEW t, NEW S, NEW d, Whole(t, S, d), Distinct(t, S), FocusOK(t, S),
         NEW n \in S, Type(t, n) = "LEAF", n # t.focus
  PROVE  Shut(t, S, n, RemoveFound(t, n))
<1>. DEFINE p == Parent(t, n)
            u == RemoveFound(t, n)
            B == Below(t, n)
<1>1. t \in Trees /\ S \in SUBSET Node /\ n \in Node
  BY InTree DEF Whole
<1>2. CASE p = Null
  <2>1. n = t.head
    BY <1>2, InTree
  <2>2. u = Ok(AllGone(FreeSubtree(t, t.head)))
    BY <1>2, <2>1 DEF RemoveFound
  <2>. QED  BY <2>1, <2>2, ShutsLast
<1>3. CASE p # Null
  <2>. DEFINE r == RemoveNode(t, p, IndexOf(t, n, p))
              f == FreeSubtree(r, n)
  <2>1. n # t.head
    BY <1>3, InTree
  <2>2. Freeing(t, S, n, r, f)
    BY <2>1, Frees
  <2>3. u = IF Failed(r) THEN r ELSE Ok(f)
    BY <1>3 DEF RemoveFound
  <2>4. B = {n}
    BY BelowLeaf
  <2>. HIDE DEF u, f, r, B, p
  <2>5. PICK S2, e :
          /\ Whole(r, S2, e) /\ Distinct(r, S2) /\ Showing(r, S2) = Showing(t, S \ B)
          /\ Whole(f, S2, e) /\ Distinct(f, S2) /\ Showing(f, S2) = Showing(t, S \ B)
          /\ f.focus = r.focus
          /\ r.focus = t.focus \/ {t.focus, r.focus} \subseteq S \ B
          /\ \A m \in (S \ B) : m \in S2 \/ (Type(r, m) # "LEAF" /\ Type(f, m) # "LEAF")
          /\ \A m \in Node \ S : r.heap[m] = t.heap[m] /\ f.heap[m] = t.heap[m]
          /\ \/ r.err = "SUCC"
             \/ r.err = "ILLEGAL_DELETE"
    BY <2>2 DEF Freeing, B
  <2>6. FocusOK(r, S2)
    BY <1>1, <2>4, <2>5, StillFocused
  <2>7. FocusOK(f, S2)
    BY <1>1, <2>4, <2>5, StillFocused
  <2>8. CASE Failed(r)
    <3>1. u = r /\ u.err # "SUCC"
      BY <2>3, <2>8 DEF Failed
    <3>2. Steady(u)
      BY <2>5, <2>6, <3>1, SteadyIs
    <3>3. Items(u) = Showing(r, S2)
      BY <2>5, <3>1, ItemsAre DEF Whole
    <3>. QED  BY <2>5, <3>1, <3>2, <3>3, SteadyIs DEF Shut, u, B
  <2>9. CASE ~ Failed(r)
    <3>1. u = Fail(f, "SUCC") /\ "SUCC" \in Outcomes
      BY <2>3, <2>9, Codes DEF Ok, Fail
    <3>2. Steady(u) /\ Items(u) = Showing(f, S2)
      BY <2>5, <2>7, <3>1, Unshut
    <3>. QED  BY <2>5, <3>2, SteadyIs DEF Shut, u, B
  <2>. QED  BY <2>8, <2>9
<1>. QED  BY <1>2, <1>3

(* The window of item is closed, or it was not there, or an error says     *)
(* that it may still be there; the others are.                             *)
Closes(t, item, u) ==
  /\ Safe(u) /\ (u.err \notin Crashes => Steady(u))
  /\ Items(t) \ {item} \subseteq Items(u)
  /\ u.err = "SUCC" => item \notin Items(u)

LEMMA ShutCloses ==
  ASSUME NEW t, NEW S, NEW d, Whole(t, S, d), Distinct(t, S), NEW n \in S, Type(t, n) = "LEAF",
         t.heap[n].item # Gone, NEW u, Shut(t, S, n, u)
  PROVE  Closes(t, t.heap[n].item, u)
<1>. DEFINE item == t.heap[n].item
<1>1. Below(t, n) = {n}
  BY BelowLeaf
<1>2. Items(t) = Showing(t, S)
  BY ItemsAre DEF Whole
<1>3. Showing(t, S) \ {item} \subseteq Showing(t, S \ {n})
  BY DEF Showing
<1>4. Showing(t, S \ {n}) \subseteq Showing(t, S) /\ item \notin Showing(t, S \ {n})
  BY DEF Showing, Distinct
<1>. QED  BY <1>1, <1>2, <1>3, <1>4 DEF Shut, Closes

(* twm_tree_remove_item *)
LEMMA RemovesItem ==
  ASSUME NEW t, Steady(t), NEW item \in Item
  PROVE  Closes(t, item, RemoveItem(t, item))
<1>. DEFINE u == RemoveItem(t, item)
            f == t.focus
            shows == f # Null /\ Type(t, f) = "LEAF" /\ t.heap[f].item = item
            found == FindItem(t, t.head, item)
<1>1. item # Gone /\ t \in Trees
  BY TwmAssumption DEF Steady
<1>2. u = IF shows THEN RemoveFocused(t)
          ELSE IF t.head = Null THEN Fail(t, "NULL_ARG")
          ELSE CASE found.err = "SUCC" -> RemoveFound(t, found.node)
                 [] found.err = "NOT_FOUND" -> Ok(t)
                 [] OTHER -> Fail(t, found.err)
  BY DEF RemoveItem
<1>3. {"NULL_ARG", "INVALID_TREE"} \subseteq Outcomes \ {"SUCC"} /\ "SUCC" \in Outcomes
  BY DEF Outcomes, Errors
<1>. HIDE DEF u, found
<1>4. CASE t.head = Null
  <2>1. f = Null
    BY <1>4 DEF Steady
  <2>2. u = Fail(t, "NULL_ARG")
    BY <1>2, <1>4, <2>1
  <2>3. /\ u \in Trees /\ u.heap = t.heap /\ u.head = Null /\ u.focus = Null /\ u.err = "NULL_ARG"
    BY <1>1, <1>3, <1>4, <2>1, <2>2, OkIs
  <2>4. Fit(u)
    BY <2>3, SameTree DEF Steady, Fit, Type
  <2>5. Steady(u)
    BY <2>3, <2>4 DEF Steady
  <2>6. Items(t) = {}
    BY <1>1, <1>4, ItemsAre
  <2>. QED  BY <1>3, <2>3, <2>5, <2>6, SteadyIs DEF Closes, u
<1>5. CASE t.head # Null
  <2>1. PICK S, d : Whole(t, S, d) /\ Distinct(t, S) /\ FocusOK(t, S)
    BY <1>5 DEF Steady
  <2>2. CASE shows
    <3>1. f \in S
      BY <2>1, <2>2 DEF FocusOK
    <3>2. u = RemoveFocused(t)
      BY <1>2, <2>2
    <3>3. Shut(t, S, f, u)
      BY <2>1, <3>1, <3>2, RemovesFocused
    <3>. QED  BY <1>1, <2>1, <2>2, <3>1, <3>3, ShutCloses DEF u
  <2>3. CASE ~ shows
    <3>1. Found(t, S, item, found)
      BY <2>1, Finds DEF found
    <3>2. CASE found.err = "SUCC"
      <4>. DEFINE n == found.node
      <4>1. n \in S /\ Type(t, n) = "LEAF" /\ t.heap[n].item = item /\ u = RemoveFound(t, n)
        BY <1>2, <1>5, <2>3, <3>1, <3>2 DEF Found
      <4>2. n # f
        BY <2>1, <2>3, <4>1, InTree, NullIsNoNode
      <4>. HIDE DEF n
      <4>3. Shut(t, S, n, u)
        BY <2>1, <4>1, <4>2, RemovesFound
      <4>. QED  BY <1>1, <2>1, <4>1, <4>3, ShutCloses DEF u
    <3>3. CASE found.err = "NOT_FOUND"
      <4>1. u = Fail(t, "SUCC") /\ item \notin Showing(t, S)
        BY <1>2, <1>5, <2>3, <3>1, <3>3 DEF Found, Ok, Fail
      <4>2. Steady(u) /\ Items(u) = Showing(t, S)
        BY <1>3, <2>1, <4>1, Unshut
      <4>3. Items(t) = Showing(t, S)
        BY <2>1, ItemsAre DEF Whole
      <4>. QED  BY <4>1, <4>2, <4>3, SteadyIs DEF Closes, u
    <3>4. CASE found.err \notin {"SUCC", "NOT_FOUND"}
      <4>1. u = Fail(t, "INVALID_TREE")
        BY <1>2, <1>5, <2>3, <3>1, <3>4 DEF Found
      <4>2. Steady(u) /\ Items(u) = Showing(t, S) /\ u.err # "SUCC"
        BY <1>3, <2>1, <4>1, Unshut
      <4>3. Items(t) = Showing(t, S)
        BY <2>1, ItemsAre DEF Whole
      <4>. QED  BY <4>2, <4>3, SteadyIs DEF Closes, u
    <3>. QED  BY <3>2, <3>3, <3>4
  <2>. QED  BY <2>2, <2>3
<1>. QED  BY <1>4, <1>5

-----------------------------------------------------------------------------
(* Closing the windows of a connection *)

(* The recursive function of CloseWindows, up to n dbg_guvs. *)
CloseNext(g, i) == IF g[i - 1].err \in Crashes THEN g[i - 1] ELSE RemoveItem(g[i - 1], Guvs[i])
Closing(t, n, g) == g = [i \in 0 .. n |-> IF i = 0 THEN t ELSE CloseNext(g, i)]

LEMMA ClosingExists ==
  ASSUME NEW t
  PROVE  \A n \in Nat : \E g : Closing(t, n, g)
<1>. DEFINE S == {n \in Nat : \E g : Closing(t, n, g)}
<1>1. 0 \in S
  <2>. DEFINE g == [i \in 0 .. 0 |-> t]
  <2>1. g = [i \in 0 .. 0 |-> IF i = 0 THEN t ELSE CloseNext(g, i)]
    <3>1. \A i \in 0 .. 0 : i = 0
      OBVIOUS
    <3>. HIDE DEF CloseNext
    <3>. QED  BY <3>1
  <2>. QED  BY <2>1 DEF Closing
<1>2. ASSUME NEW n \in Nat, n \in S PROVE n + 1 \in S
  <2>1. PICK g : Closing(t, n, g)
    BY <1>2
  <2>. DEFINE last == IF g[n].err \in Crashes THEN g[n] ELSE RemoveItem(g[n], Guvs[n + 1])
              h == [i \in 0 .. n + 1 |-> IF i = n + 1 THEN last ELSE g[i]]
              k == [i \in 0 .. n + 1 |-> IF i = 0 THEN t ELSE CloseNext(h, i)]
  <2>2. h[n + 1] = last /\ (\A i \in 0 .. n : h[i] = g[i]) /\ h = [i \in 0 .. n + 1 |-> h[i]]
    OBVIOUS
  <2>3. \A i \in 0 .. n : g[i] = IF i = 0 THEN t ELSE CloseNext(g, i)
    BY <2>1 DEF Closing
  <2>4. k = [i \in 0 .. n + 1 |-> k[i]] /\ \A i \in 0 .. n + 1 : k[i] = IF i = 0 THEN t ELSE CloseNext(h, i)
    OBVIOUS
  <2>. HIDE DEF h, k
  <2>5. ASSUME NEW i \in 0 .. n + 1 PROVE h[i] = k[i]
    <3>1. CASE i = n + 1
      <4>1. i # 0 /\ i - 1 = n /\ n \in 0 .. n
        BY <3>1
      <4>2. CloseNext(h, i) = last
        BY <2>2, <3>1, <4>1 DEF CloseNext
      <4>. QED  BY <2>2, <2>4, <3>1, <4>1, <4>2
    <3>2. CASE i # n + 1
      <4>1. i \in 0 .. n /\ h[i] = g[i] /\ (i # 0 => i - 1 \in 0 .. n)
        BY <2>2, <3>2
      <4>2. i # 0 => CloseNext(h, i) = CloseNext(g, i)
        BY <2>2, <4>1 DEF CloseNext
      <4>. QED  BY <2>3, <2>4, <4>1, <4>2
    <3>. QED  BY <3>1, <3>2
  <2>6. h = k
    BY <2>2, <2>4, <2>5
  <2>7. Closing(t, n + 1, h)
    BY <2>6 DEF Closing, k
  <2>. QED  BY <2>7
<1>3. \A n \in Nat : n \in S
  <2>. HIDE DEF S
  <2>. QED  BY <1>1, <1>2, SetInduction
<1>. QED  BY <1>3

LEMMA CloseWindowsIs ==
  ASSUME NEW t
  PROVE  \E g : /\ Closing(t, Len(Guvs), g)
                /\ CloseWindows(t) = IF g[Len(Guvs)].err \in Crashes THEN g[Len(Guvs)]
                                     ELSE Forget(g[Len(Guvs)])
<1>. DEFINE F(g) == [i \in 0 .. Len(Guvs) |->
              IF i = 0 THEN t
              ELSE IF g[i - 1].err \in Crashes THEN g[i - 1]
              ELSE RemoveItem(g[i - 1], Guvs[i])]
            closed == CHOOSE g : g = F(g)
<1>1. PICK g : Closing(t, Len(Guvs), g)
  BY ClosingExists, TwmAssumption
<1>2. \A k : F(k) = [i \in 0 .. Len(Guvs) |-> IF i = 0 THEN t ELSE CloseNext(k, i)]
  BY DEF CloseNext
<1>3. g = F(g)
  BY <1>1, <1>2 DEF Closing
<1>4. closed = F(closed)
  <2>. HIDE DEF F
  <2>. QED  BY <1>3, Zenon
<1>5. CloseWindows(t) = IF closed[Len(Guvs)].err \in Crashes THEN closed[Len(Guvs)]
                        ELSE Forget(closed[Len(Guvs)])
  BY DEF CloseWindows
<1>6. Closing(t, Len(Guvs), closed)
  <2>. HIDE DEF closed
  <2>. QED  BY <1>2, <1>4 DEF Closing
<1>. HIDE DEF closed
<1>. QED  BY <1>5, <1>6

(* The dbg_guvs a window still shows are forgotten. *)
LEMMA Forgets ==
  ASSUME NEW t, Safe(t)
  PROVE  Safe(Forget(t))
<1>. DEFINE h == [n \in Node |->
              IF t.heap[n].item \in ToSet(Guvs) THEN [t.heap[n] EXCEPT !.item = Gone] ELSE t.heap[n]]
            u == Forget(t)
<1>1. t \in Trees /\ Fit(t)
  BY DEF Safe
<1>2. t.heap \in [Node -> Record]
  BY <1>1 DEF Trees
<1>3. \A n \in Node : h[n] \in Record
  BY <1>2 DEF Record
<1>4. h \in [Node -> Record]
  BY <1>3
<1>5. /\ u \in Trees /\ u.head = t.head /\ u.focus = t.focus /\ u.err = t.err
      /\ \A n \in Node : u.heap[n] = IF t.heap[n].item \in ToSet(Guvs)
                                     THEN [t.heap[n] EXCEPT !.item = Gone] ELSE t.heap[n]
  <2>1. u = [t EXCEPT !.heap = h]
    BY DEF Forget
  <2>2. \A n \in Node : h[n] = IF t.heap[n].item \in ToSet(Guvs)
                               THEN [t.heap[n] EXCEPT !.item = Gone] ELSE t.heap[n]
    OBVIOUS
  <2>. HIDE DEF h, u
  <2>. QED  BY <1>1, <1>4, <2>1, <2>2, HeapIs
<1>. HIDE DEF h, u
<1>6. \A n \in Node :
        /\ Type(u, n) = Type(t, n) /\ Kids(u, n) = Kids(t, n) /\ Parent(u, n) = Parent(t, n)
        /\ u.heap[n].item = IF t.heap[n].item \in ToSet(Guvs) THEN Gone ELSE t.heap[n].item
  <2>. SUFFICES ASSUME NEW n \in Node
                PROVE  /\ Type(u, n) = Type(t, n) /\ Kids(u, n) = Kids(t, n)
                       /\ Parent(u, n) = Parent(t, n)
                       /\ u.heap[n].item = IF t.heap[n].item \in ToSet(Guvs) THEN Gone
                                           ELSE t.heap[n].item
    OBVIOUS
  <2>1. t.heap[n] \in Record
    BY <1>2
  <2>. QED  BY <1>5, <2>1 DEF Type, Kids, Parent, Record
<1>7. Fit(u)
  <2>1. NoItem \notin ToSet(Guvs) /\ Gone # NoItem
    BY TwmAssumption DEF Item, Gone, NoItem
  <2>. QED  BY <1>1, <1>6, <2>1 DEF Fit
<1>8. ASSUME NEW S, NEW d, Whole(t, S, d), Distinct(t, S)
      PROVE  Whole(u, S, d) /\ Distinct(u, S)
  <2>1. S \in SUBSET Node /\ \A n \in S : ToSet(Kids(t, n)) \subseteq Node /\ Kids(t, n) \in Seq(Node)
    BY <1>1, <1>8, InTree, NodeIs, NoKids
  <2>2. Tree(u, S, d)
    <3>1. Tree(t, S, d)
      BY <1>8 DEF Whole
    <3>2. \A n \in S : Good(u, S, d, n)
      BY <1>6, <2>1, <3>1 DEF Tree, Good
    <3>3. \A n \in S \ {t.head} : Linked(u, S, n)
      BY <1>6, <2>1, <3>1 DEF Tree, Linked
    <3>. QED  BY <1>5, <1>6, <2>1, <3>1, <3>2, <3>3 DEF Tree
  <2>3. \A n \in S : Full(u, n)
    <3>. SUFFICES ASSUME NEW n \in S PROVE Full(u, n)
      OBVIOUS
    <3>1. Full(t, n) /\ n \in Node
      BY <1>8, <2>1 DEF Whole
    <3>2. Len(Kids(t, n)) = 1 => Kids(t, n)[1] \in Node
      BY <2>1, OneKid
    <3>. QED  BY <1>5, <1>6, <3>1, <3>2 DEF Full
  <2>4. Distinct(u, S)
    BY <1>6, <1>8, <2>1 DEF Distinct
  <2>. QED  BY <1>5, <1>7, <2>2, <2>3, <2>4 DEF Whole
<1>. QED  BY <1>5, <1>7, <1>8 DEF Safe, u

(* cleanup_fpga_connection *)
LEMMA ClosesWindows ==
  ASSUME NEW t, Steady(t)
  PROVE  Safe(CloseWindows(t))
<1>1. PICK g :
        /\ Closing(t, Len(Guvs), g)
        /\ CloseWindows(t) = IF g[Len(Guvs)].err \in Crashes THEN g[Len(Guvs)]
                             ELSE Forget(g[Len(Guvs)])
  BY CloseWindowsIs
<1>2. PICK l \in Nat : l = Len(Guvs)
  BY TwmAssumption
<1>3. \A i \in 0 .. l : g[i] = IF i = 0 THEN t ELSE CloseNext(g, i)
  BY <1>1, <1>2 DEF Closing
<1>. DEFINE OK(u) == Safe(u) /\ (u.err \notin Crashes => Steady(u))
            S == {n \in Nat : n <= l => OK(g[n])}
<1>4. 0 \in S
  <2>1. g[0] = t
    BY <1>3
  <2>. QED  BY <2>1, SteadyIs
<1>5. ASSUME NEW n \in Nat, n \in S PROVE n + 1 \in S
  <2>. SUFFICES ASSUME n + 1 <= l PROVE OK(g[n + 1])
    OBVIOUS
  <2>1. n + 1 \in 0 .. l /\ n + 1 # 0 /\ (n + 1) - 1 = n /\ n <= l /\ n + 1 \in 1 .. l
    OBVIOUS
  <2>2. OK(g[n])
    BY <1>5, <2>1
  <2>3. g[n + 1] = IF g[n].err \in Crashes THEN g[n] ELSE RemoveItem(g[n], Guvs[n + 1])
    BY <1>3, <2>1 DEF CloseNext
  <2>4. Guvs[n + 1] \in Item
    <3>1. Guvs[n + 1] \in ToSet(Guvs)
      BY <1>2, <2>1, TwmAssumption, NoKids
    <3>. QED  BY <3>1 DEF Item
  <2>5. CASE g[n].err \in Crashes
    BY <2>2, <2>3, <2>5
  <2>6. CASE g[n].err \notin Crashes
    <3>1. Closes(g[n], Guvs[n + 1], g[n + 1])
      BY <2>2, <2>3, <2>4, <2>6, RemovesItem
    <3>. QED  BY <3>1 DEF Closes
  <2>. QED  BY <2>5, <2>6
<1>6. l \in S
  <2>. HIDE DEF S
  <2>. QED  BY <1>4, <1>5, SetInduction
<1>. QED  BY <1>1, <1>2, <1>6, Forgets

-----------------------------------------------------------------------------
(* The steps of the program *)

LEMMA RoomIs ==
  ASSUME NEW t \in Trees, Cardinality(Unused(t)) >= 2
  PROVE  Room(t)
<1>. DEFINE U == Unused(t)
<1>1. U \in SUBSET Node /\ \A n \in U : IsFreed(t, n)
  BY DEF Unused
<1>. HIDE DEF U
<1>2. CASE U = {}
  <2>1. Cardinality(U) = 0
    BY <1>2, FS_EmptySet
  <2>. QED  BY <2>1 DEF U
<1>3. CASE \E x \in U : U = {x}
  <2>1. Cardinality(U) = 1
    BY <1>3, FS_Singleton
  <2>. QED  BY <2>1 DEF U
<1>4. CASE U # {} /\ ~ \E x \in U : U = {x}
  <2>1. PICK x \in U : TRUE
    BY <1>4
  <2>2. PICK y \in U : y # x
    BY <1>4, <2>1
  <2>. QED  BY <1>1, <2>1, <2>2 DEF Room
<1>. QED  BY <1>2, <1>3, <1>4

LEMMA FocusIsIn ==
  ASSUME Safe(tree), FocusShown, Running
  PROVE  Ready(tree)
<1>1. CASE tree.head = Null
  BY <1>1 DEF Safe, Running, Ready
<1>2. CASE tree.head # Null
  <2>1. PICK S, d : Whole(tree, S, d) /\ Distinct(tree, S)
    BY <1>2 DEF Safe
  <2>2. Shown(tree) = S
    BY <2>1, ShownIs DEF Whole
  <2>3. tree.focus \in S
    BY <1>2, <2>2 DEF Safe, Running, FocusShown
  <2>. QED  BY <1>2, <2>1, <2>3 DEF Safe, Ready
<1>. QED  BY <1>1, <1>2

LEMMA Finishes ==
  ASSUME NEW u, Safe(u), Finish(u)
  PROVE  Safe(tree') /\ Items(tree') = Items(u) /\ tree'.err = u.err
BY Collected, CollectIs DEF Finish, Safe

(* An error changes the outcome only. *)
LEMMA FailsReady ==
  ASSUME NEW t, Ready(t), NEW code \in Outcomes
  PROVE  Safe(Fail(t, code))
BY TurnIs, TurnsSafely

LEMMA InitSafe ==
  ASSUME Init
  PROVE  Safe(tree)
<1>1. Freed \in Record
  BY DEF Freed, Record
<1>2. Empty \in Trees /\ Empty.head = Null /\ Empty.focus = Null
  <2>1. [n \in Node |-> Freed] \in [Node -> Record]
    BY <1>1
  <2>. QED  BY <2>1, Codes DEF Empty, Trees
<1>3. \A n \in Node : Empty.heap[n] = Freed
  BY DEF Empty
<1>4. Fit(Empty) /\ \A n \in Node : IsFreed(Empty, n)
  BY <1>3 DEF Fit, Type, Freed, IsFreed
<1>5. Ready(Empty) /\ Items(Empty) = {}
  BY <1>2, <1>4, ItemsAre DEF Ready
<1>6. 1 \in Node /\ MsgWin \in Item
  BY Sizes DEF Node, Item
<1>7. Safe(AddWindow(Empty, MsgWin))
  BY <1>2, <1>4, <1>5, <1>6, Adds
<1>. QED  BY <1>7 DEF Init

LEMMA NextSafe ==
  ASSUME Safe(tree), FocusShown, Next
  PROVE  Safe(tree')
<1>1. Running
  BY DEF Next, KeyMoveWindow, KeyMoveFocus, UseFocused, KeyRemove, KeySetStackDir, KeyToggle,
         CmdSelect, CmdDummy, CmdCloseGuv, CmdCloseFpga, FpgaHangsUp, DrawCrash, Finish
<1>2. Ready(tree) /\ tree \in Trees /\ Steady(tree)
  BY <1>1, FocusIsIn, SteadyIs DEF Safe
<1>3. RoomForNodes => Room(tree)
  BY <1>2, RoomIs DEF RoomForNodes
<1>. DEFINE r == FocusedAs(tree)
<1>4. Ready(r) /\ r.heap = tree.heap /\ r.head = tree.head /\ Items(r) = Items(tree) /\ Steady(r)
  BY <1>2, FocusedAsIs, SteadyIs
<1>5. AfterLine = r
  BY DEF AfterLine
<1>. HIDE DEF r
<1>6. ASSUME NEW dir \in Dir, KeyMoveWindow(dir) PROVE Safe(tree')
  <2>1. Kept(tree, MoveFocusedNode(tree, dir))
    BY <1>2, <1>3, <1>6, MovesFocused DEF KeyMoveWindow
  <2>. QED  BY <1>6, <2>1, Finishes DEF KeyMoveWindow, Kept
<1>7. ASSUME NEW dir \in FocusDir, KeyMoveFocus(dir) PROVE Safe(tree')
  <2>1. Safe(MoveFocus(tree, dir))
    BY <1>2, MovesFocus, TurnsSafely
  <2>. QED  BY <1>7, <2>1, Finishes DEF KeyMoveFocus
<1>8. CASE UseFocused
  <2>1. Safe(r) /\ Safe(UseAfterFree(r))
    <3>1. "USE_AFTER_FREE" \in Outcomes
      BY DEF Outcomes, Crashes
    <3>. QED  BY <1>4, <3>1, ReadyIsSafe, FailsReady DEF UseAfterFree
  <2>2. Finish(UseAfterFree(r)) \/ Finish(r)
    BY <1>5, <1>8 DEF UseFocused
  <2>. QED  BY <2>1, <2>2, Finishes
<1>9. CASE KeyRemove
  <2>1. Safe(RemoveFocused(tree))
    <3>1. CASE tree.focus = Null
      <4>1. RemoveFocused(tree) = Ok(tree)
        BY <3>1 DEF RemoveFocused
      <4>. QED  BY <1>2, <4>1, TurnIs, TurnsSafely
    <3>2. CASE tree.focus # Null
      <4>1. PICK S, d : Whole(tree, S, d) /\ Distinct(tree, S) /\ tree.focus \in S
        BY <1>2, <3>2 DEF Ready
      <4>. QED  BY <4>1, RemovesFocused DEF Shut
    <3>. QED  BY <3>1, <3>2
  <2>. QED  BY <1>9, <2>1, Finishes DEF KeyRemove
<1>10. ASSUME NEW type \in Stack, KeySetStackDir(type) PROVE Safe(tree')
  <2>1. Safe(SetStackDir(tree, type))
    BY <1>2, <1>3, <1>10, SetsDir DEF KeySetStackDir
  <2>. QED  BY <1>10, <2>1, Finishes DEF KeySetStackDir
<1>11. CASE KeyToggle
  <2>1. \A type \in Stack : Safe(SetStackDir(tree, type))
    BY <1>2, <1>3, <1>11, SetsDir DEF KeyToggle
  <2>2. Safe(ToggleStackDir(tree))
    BY <2>1 DEF ToggleStackDir, Stack
  <2>. QED  BY <1>11, <2>2, Finishes DEF KeyToggle
<1>12. ASSUME NEW item \in ToSet(Guvs) \cup {MsgWin}, CmdSelect(item) PROVE Safe(tree')
  <2>. DEFINE s == FocusItem(r, item)
  <2>1. Ready(s) /\ s.heap = tree.heap /\ (s.err = "NOT_FOUND" => item \notin Items(s))
    BY <1>4, FocusItemIs
  <2>2. Room(s) /\ \E x \in Node : IsFreed(s, x)
    BY <1>3, <1>12, <2>1 DEF CmdSelect, Room, IsFreed, Type
  <2>3. item \in Item
    BY DEF Item
  <2>4. Finish(IF s.err = "NOT_FOUND" THEN AddWindow(s, item) ELSE s)
    BY <1>5, <1>12 DEF CmdSelect
  <2>. HIDE DEF s
  <2>5. CASE s.err = "NOT_FOUND"
    <3>1. Safe(AddWindow(s, item))
      BY <2>1, <2>2, <2>3, <2>5, Adds
    <3>. QED  BY <2>4, <2>5, <3>1, Finishes
  <2>6. CASE s.err # "NOT_FOUND"
    BY <2>1, <2>4, <2>6, ReadyIsSafe, Finishes
  <2>. QED  BY <2>5, <2>6
<1>13. ASSUME NEW item \in Dummies, CmdDummy(item) PROVE Safe(tree')
  <2>1. item \in Item /\ item \notin Items(r)
    <3>1. item \notin {tree.heap[n].item : n \in Node}
      BY <1>13 DEF CmdDummy
    <3>2. Shown(tree) \subseteq Node
      BY <1>2, NullIsNoNode, BelowIs DEF Shown, Trees
    <3>. QED  BY <1>4, <3>1, <3>2 DEF Item, Items
  <2>2. Room(r) /\ \E x \in Node : IsFreed(r, x)
    BY <1>3, <1>4, <1>13 DEF CmdDummy, Room, IsFreed, Type
  <2>3. Safe(AddWindow(r, item))
    BY <1>4, <2>1, <2>2, Adds
  <2>. QED  BY <1>5, <1>13, <2>3, Finishes DEF CmdDummy
<1>14. ASSUME NEW g \in ToSet(Guvs), CmdCloseGuv(g) PROVE Safe(tree')
  <2>1. g \in Item
    BY DEF Item
  <2>2. Closes(r, g, RemoveItem(r, g))
    BY <1>4, <2>1, RemovesItem
  <2>. QED  BY <1>5, <1>14, <2>2, Finishes DEF CmdCloseGuv, Closes
<1>15. CASE CmdCloseFpga
  BY <1>4, <1>5, <1>15, ClosesWindows, Finishes DEF CmdCloseFpga
<1>16. CASE FpgaHangsUp
  BY <1>2, <1>16, ClosesWindows, Finishes DEF FpgaHangsUp
<1>17. CASE DrawCrash
  <2>1. {"DIVIDE_BY_ZERO", "USE_AFTER_FREE"} \subseteq Outcomes
    BY DEF Outcomes, Crashes
  <2>2. Safe(Fail(tree, "DIVIDE_BY_ZERO")) /\ Safe(Fail(tree, "USE_AFTER_FREE"))
    BY <1>2, <2>1, FailsReady
  <2>3. Finish(Fail(tree, "DIVIDE_BY_ZERO")) \/ Finish(Fail(tree, "USE_AFTER_FREE"))
    BY <1>17 DEF DrawCrash
  <2>. QED  BY <2>2, <2>3, Finishes
<1>. QED  BY <1>6, <1>7, <1>8, <1>9, <1>10, <1>11, <1>12, <1>13, <1>14, <1>15, <1>16, <1>17 DEF Next

-----------------------------------------------------------------------------
(* The theorems *)

(* Up to the first state where the focus is on no node of the tree, there  *)
(* is a set of nodes that is the tree: its head has no parent, every other *)
(* one is below the node it names as its parent and nowhere else, depth    *)
(* grows downwards, a stack without windows is the head's or has one       *)
(* window, and no two windows show one item.  Every operation of src/twm.c *)
(* that returns, and the drawing, keep it.                                 *)
THEOREM TreeInvariant == UntilLost => []Safe(tree)
<1>1. Init => Safe(tree)
  BY InitSafe
<1>2. Safe(tree) /\ [FocusShown /\ Next]_tree => Safe(tree)'
  <2>1. CASE UNCHANGED tree
    BY <2>1
  <2>. QED  BY <2>1, NextSafe
<1>. QED  BY <1>1, <1>2, PTL DEF UntilLost

LEMMA SafeShape ==
  ASSUME Safe(tree)
  PROVE  TreeShape /\ OnlyChildIsLeaf /\ FocusIffWindows /\ NoTwins
<1>1. TypeOK
  BY DEF Safe, Fit, TypeOK
<1>2. FocusIffWindows
  BY DEF Safe, FocusIffWindows, Running
<1>3. CASE tree.head = Null
  <2>1. Shown(tree) = {}
    BY <1>3 DEF Shown
  <2>. QED  BY <1>1, <1>2, <1>3, <2>1 DEF TreeShape, OnlyChildIsLeaf, NoTwins
<1>4. CASE tree.head # Null
  <2>1. PICK S, d : Whole(tree, S, d) /\ Distinct(tree, S)
    BY <1>4 DEF Safe
  <2>2. Shown(tree) = S
    BY <2>1, ShownIs DEF Whole
  <2>3. TreeShape
    <3>1. \A n \in S : Good(tree, S, d, n) /\ ~ IsFreed(tree, n)
      BY <2>1, InTree DEF Whole, Tree
    <3>2. \A n \in S : Type(tree, n) # "LEAF" /\ n # tree.head => Kids(tree, n) # << >>
      BY <2>1 DEF Whole, Full
    <3>. QED  BY <1>1, <2>1, <2>2, <3>1, <3>2, InTree DEF TreeShape, Good
  <2>4. OnlyChildIsLeaf
    BY <2>1, <2>2 DEF Whole, Full, OnlyChildIsLeaf
  <2>5. NoTwins
    BY <2>1, <2>2 DEF Distinct, NoTwins
  <2>. QED  BY <1>2, <2>3, <2>4, <2>5
<1>. QED  BY <1>3, <1>4

(* Every node of the tree is allocated, in one place, and names the node   *)
(* above it; no stack has more than MAX_CHILDREN, and none but the root's  *)
(* is empty (src/twm.c).                                                   *)
THEOREM ShapeKept == UntilLost => []TreeShape
<1>1. Safe(tree) => TreeShape
  BY SafeShape
<1>. QED  BY <1>1, TreeInvariant, PTL

(* A node with a single child has a window below it (src/twm.h), after any *)
(* moves, wraps, merges and removals.                                      *)
THEOREM OnlyChildrenAreLeaves == UntilLost => []OnlyChildIsLeaf
<1>1. Safe(tree) => OnlyChildIsLeaf
  BY SafeShape
<1>. QED  BY <1>1, TreeInvariant, PTL

(* There is a focus exactly when there are windows: no operation follows a *)
(* null focus, or keeps one on a tree that is gone.                        *)
THEOREM FocusWhileWindows == UntilLost => []FocusIffWindows
<1>1. Safe(tree) => FocusIffWindows
  BY SafeShape
<1>. QED  BY <1>1, TreeInvariant, PTL

(* No item has two windows: a search that finds none looked everywhere.    *)
THEOREM OneWindowPerItem == UntilLost => []NoTwins
<1>1. Safe(tree) => NoTwins
  BY SafeShape
<1>. QED  BY <1>1, TreeInvariant, PTL

(* Moving the focused window, along any path and whatever collapses behind *)
(* it, or not at all because its new parent is full, loses no window.      *)
THEOREM MovesLoseNothing == UntilLost => MovesKeepWindows
<1>. DEFINE A == Items(tree) # Items(tree') /\ tree'.err \in {"SUCC", "FULL_PARENT"}
                   => ~ \E dir \in Dir : KeyMoveWindow(dir)
<1>1. ASSUME Safe(tree), [FocusShown /\ Next]_tree PROVE [A]_tree
  <2>. SUFFICES ASSUME FocusShown, NEW dir \in Dir, KeyMoveWindow(dir),
                       tree'.err \in {"SUCC", "FULL_PARENT"}
                PROVE  Items(tree') = Items(tree)
    BY <1>1
  <2>. DEFINE u == MoveFocusedNode(tree, dir)
  <2>1. RoomForNodes /\ Finish(u)
    BY DEF KeyMoveWindow
  <2>2. Ready(tree) /\ Room(tree)
    BY <1>1, <2>1, FocusIsIn, RoomIs DEF Finish, RoomForNodes, Safe
  <2>3. Kept(tree, u)
    BY <2>2, MovesFocused
  <2>. HIDE DEF u
  <2>. QED  BY <2>1, <2>3, Finishes DEF Kept
<1>. QED  BY <1>1, TreeInvariant, PTL DEF UntilLost, MovesKeepWindows

(* Closing a dbg_guv's window takes that window away if it reports         *)
(* success, and no other, whatever is merged or removed around it.         *)
THEOREM ClosingIsExact == UntilLost => CloseIsExact
<1>. DEFINE A == \A g \in ToSet(Guvs) : CmdCloseGuv(g) =>
                   /\ Items(tree) \ {g} \subseteq Items(tree')
                   /\ tree'.err = "SUCC" => g \notin Items(tree')
<1>1. ASSUME Safe(tree), [FocusShown /\ Next]_tree PROVE [A]_tree
  <2>. SUFFICES ASSUME FocusShown, NEW g \in ToSet(Guvs), CmdCloseGuv(g)
                PROVE  /\ Items(tree) \ {g} \subseteq Items(tree')
                       /\ tree'.err = "SUCC" => g \notin Items(tree')
    BY <1>1
  <2>. DEFINE r == FocusedAs(tree)
              u == RemoveItem(r, g)
  <2>1. Finish(u)
    BY DEF CmdCloseGuv, AfterLine
  <2>2. Ready(tree) /\ g \in Item
    BY <1>1, <2>1, FocusIsIn DEF Finish, Item
  <2>3. Steady(r) /\ Items(r) = Items(tree)
    BY <2>2, FocusedAsIs, SteadyIs
  <2>. HIDE DEF r
  <2>4. Closes(r, g, u)
    BY <2>2, <2>3, RemovesItem
  <2>. HIDE DEF u
  <2>. QED  BY <2>1, <2>3, <2>4, Finishes DEF Closes
<1>. QED  BY <1>1, TreeInvariant, PTL DEF UntilLost, CloseIsExact
=============================================================================
