--------------------------- MODULE DecodingProofs ---------------------------
(***************************************************************************)
(* Proofs about the header pass, for all blocks, trees, keys, file sizes   *)
(* and numbers of records, and for every interleaving of node and reader;  *)
(* and about the addresses of scripts.                                     *)
(***************************************************************************)
EXTENDS HeaderPass, Script, FiniteSetTheorems, SequenceTheorems, WellFoundedInduction, TLAPS

-----------------------------------------------------------------------------
(* Induction and recursion.  A property is a set here, and the body of a    *)
(* recursion a function, as the provers cannot instantiate an operator.     *)

\* A set of naturals has a least element.
LEMMA LeastElement ==
  ASSUME NEW S, S \subseteq Nat, S # {}
  PROVE  \E u \in S : \A y \in S : u <= y
<1>1. PICK u \in S : \A y \in S : ~(<<y, u>> \in OpToRel(<, Nat))
  BY WFMin, NatLessThanWellFounded
<1>2. \A y \in S : ~(y < u)
  BY <1>1 DEF OpToRel
<1>3. \A y \in S : y \in Nat /\ u \in Nat
  OBVIOUS
<1> QED BY <1>2, <1>3

\* A set with 0 that is closed under successor has every natural number.
LEMMA SetInduction ==
  ASSUME NEW T, 0 \in T, \A n \in Nat : n \in T => n + 1 \in T
  PROVE  Nat \subseteq T
<1> SUFFICES ASSUME Nat \ T # {} PROVE FALSE
  OBVIOUS
<1>1. PICK u \in Nat \ T : \A y \in Nat \ T : u <= y
  BY LeastElement
<1>2. u # 0 /\ u - 1 \in Nat /\ ~(u <= u - 1) /\ u - 1 + 1 = u
  BY <1>1
<1>3. u - 1 \in T
  BY <1>1, <1>2
<1> QED BY <1>1, <1>2, <1>3

\* Min of a set of naturals is its least element.
LEMMA MinFacts ==
  ASSUME NEW S, S \subseteq Nat, S # {}
  PROVE  Min(S) \in S /\ \A y \in S : Min(S) <= y
<1>1. PICK u \in S : \A y \in S : u <= y
  BY LeastElement
<1> QED BY <1>1 DEF Min

\* A finite set that a function maps to the naturals has an element of largest value.
LEMMA LargestElement ==
  ASSUME NEW S, IsFiniteSet(S), S # {}, NEW f, \A x \in S : f[x] \in Nat
  PROVE  \E x \in S : \A y \in S : f[y] <= f[x]
<1> DEFINE N == {k \in Nat : \A s \in SUBSET S : s # {} /\ Cardinality(s) = k
                               => \E x \in s : \A y \in s : f[y] <= f[x]}
<1>1. \A s \in SUBSET S : IsFiniteSet(s) /\ Cardinality(s) \in Nat
  BY FS_Subset, FS_CardinalityType
<1>2. 0 \in N
  <2>1. \A s \in SUBSET S : Cardinality(s) = 0 => s = {}
    BY <1>1, FS_EmptySet
  <2> QED BY <2>1
<1>3. \A k \in Nat : k \in N => k + 1 \in N
  <2> SUFFICES ASSUME NEW k \in N, NEW s \in SUBSET S, s # {}, Cardinality(s) = k + 1
               PROVE  \E x \in s : \A y \in s : f[y] <= f[x]
    OBVIOUS
  <2>1. PICK z : z \in s
    OBVIOUS
  <2>2. PICK r : r = s \ {z}
    OBVIOUS
  <2>3. r \in SUBSET S /\ Cardinality(r) = k
    BY <1>1, <2>1, <2>2, FS_RemoveElement
  <2>4. CASE r = {}
    BY <2>1, <2>2, <2>4
  <2>5. CASE r # {}
    <3>1. PICK x \in r : \A y \in r : f[y] <= f[x]
      BY <2>3, <2>5
    <3>2. f[x] \in Nat /\ f[z] \in Nat /\ x \in s /\ \A y \in s : f[y] \in Nat /\ (y \in r \/ y = z)
      BY <2>1, <2>2, <3>1
    <3>3. CASE f[z] <= f[x]
      BY <3>1, <3>2, <3>3
    <3>4. CASE ~(f[z] <= f[x])
      <4>1. \A y \in s : f[y] <= f[z]
        BY <3>1, <3>2, <3>4
      <4> QED BY <2>1, <4>1
    <3> QED BY <3>3, <3>4
  <2> QED BY <2>4, <2>5
<1>4. Nat \subseteq N
  BY ONLY <1>2, <1>3, SetInduction
<1> QED BY <1>1, <1>4

\* Induction from a root upwards: par has a rank.
LEMMA TreeInduction ==
  ASSUME NEW D, NEW par, NEW rank, \A h \in D : rank[h] \in Nat,
         \A h \in D : par[h] \in D => rank[par[h]] < rank[h],
         NEW T, \A h \in D : (par[h] \in D => par[h] \in T) => h \in T
  PROVE  D \subseteq T
<1> SUFFICES ASSUME NEW h \in D, h \notin T PROVE FALSE
  OBVIOUS
<1> DEFINE S == {rank[x] : x \in D \ T}
<1>1. S \subseteq Nat /\ S # {}
  OBVIOUS
<1>2. PICK u \in S : \A y \in S : u <= y
  <2> HIDE DEF S
  <2> QED BY <1>1, LeastElement
<1>3. PICK x \in D \ T : u = rank[x]
  OBVIOUS
<1>4. par[x] \in D /\ par[x] \notin T
  BY <1>3
<1>5. rank[par[x]] \in S /\ rank[par[x]] < rank[x] /\ rank[par[x]] \in Nat /\ rank[x] \in Nat
  BY <1>3, <1>4
<1> HIDE DEF S
<1> QED BY <1>2, <1>3, <1>5

\* g is the recursion from a root upwards with A at a root and G elsewhere.
TreeFunction(g, D, par, A, G) ==
  /\ g = [h \in D |-> g[h]]
  /\ \A h \in D : g[h] = IF par[h] \in D THEN G[h][g[par[h]]] ELSE A[h]

\* The recursion has a solution if par has a bounded rank: it is built rank by rank.
LEMMA TreeRecursion ==
  ASSUME NEW D, NEW par, NEW K \in Nat, NEW rank, \A h \in D : rank[h] \in 0..K,
         \A h \in D : par[h] \in D => rank[par[h]] < rank[h],
         NEW A, NEW G
  PROVE  \E g : TreeFunction(g, D, par, A, G)
<1> DEFINE R(g, h) == IF par[h] \in D THEN G[h][g[par[h]]] ELSE A[h]
<1> DEFINE N == {k \in Nat : \E g : \A h \in D : rank[h] <= k => g[h] = R(g, h)}
<1>1. 0 \in N
  <2> DEFINE g0 == [h \in D |-> A[h]]
  <2>1. \A h \in D : rank[h] <= 0 => g0[h] = R(g0, h)
    OBVIOUS
  <2> HIDE DEF g0
  <2> QED BY <2>1
<1>2. \A k \in Nat : k \in N => k + 1 \in N
  <2> SUFFICES ASSUME NEW k \in N PROVE k + 1 \in N
    OBVIOUS
  <2>1. PICK g : \A h \in D : rank[h] <= k => g[h] = R(g, h)
    OBVIOUS
  <2> DEFINE e == [h \in D |-> R(g, h)]
  <2>2. ASSUME NEW h \in D, rank[h] <= k + 1 PROVE e[h] = R(e, h)
    <3>1. CASE par[h] \notin D
      BY <3>1
    <3>2. CASE par[h] \in D
      <4>1. rank[par[h]] <= k
        BY <2>2, <3>2
      <4>2. e[par[h]] = g[par[h]]
        BY <2>1, <3>2, <4>1
      <4> QED BY <3>2, <4>2
    <3> QED BY <3>1, <3>2
  <2>3. k + 1 \in Nat
    OBVIOUS
  <2> HIDE DEF e
  <2> QED BY <2>2, <2>3
<1>3. Nat \subseteq N
  BY ONLY <1>1, <1>2, SetInduction
<1>4. PICK g : \A h \in D : rank[h] <= K => g[h] = R(g, h)
  BY <1>3
<1> DEFINE e == [h \in D |-> g[h]]
<1>5. \A h \in D : R(e, h) = R(g, h)
  OBVIOUS
<1>6. \A h \in D : e[h] = R(e, h)
  BY <1>4, <1>5
<1>7. e = [h \in D |-> e[h]]
  OBVIOUS
<1>8. TreeFunction(e, D, par, A, G)
  BY <1>6, <1>7 DEF TreeFunction
<1> HIDE DEF e
<1> QED BY <1>8

\* The rounds of a loop.
Loop(it, P, F, x, n) ==
  /\ it \in [0..n -> P] /\ it[0] = x
  /\ \A i \in 0..(n - 1) : it[i + 1] = F[it[i]]

\* Iterate is the loop it is meant to be.
LEMMA IterateFacts ==
  ASSUME NEW P, NEW F, F \in [P -> P], NEW x, x \in P, NEW n, n \in Nat
  PROVE  Loop(Iterate(F, x, n), P, F, x, n)
<1> DEFINE D == 0..n
           par == [i \in D |-> i - 1]
           rank == [i \in D |-> i]
           A == [i \in D |-> x]
           G == [i \in D |-> F]
           R(g) == [i \in D |-> IF i = 0 THEN x ELSE F[g[i - 1]]]
<1>0. \A h \in D : rank[h] \in 0..n
  OBVIOUS
<1>n. \A h \in D : rank[h] \in Nat
  OBVIOUS
<1>k. n \in Nat
  OBVIOUS
<1>1. \A h \in D : par[h] \in D => rank[par[h]] < rank[h]
  OBVIOUS
<1>2. \A i \in D : /\ par[i] = i - 1 /\ (i = 0 <=> par[i] \notin D) /\ A[i] = x /\ G[i] = F
  OBVIOUS
<1>3. \E g : TreeFunction(g, D, par, A, G)
  <2> HIDE DEF D, par, rank, A, G
  <2> QED BY ONLY <1>k, <1>0, <1>1, TreeRecursion
<1>4. PICK g : TreeFunction(g, D, par, A, G)
  BY <1>3
<1>5. g = R(g)
  <2>1. \A i \in D : g[i] = IF i = 0 THEN x ELSE F[g[i - 1]]
    <3> HIDE DEF D, par, A, G
    <3> QED BY <1>2, <1>4 DEF TreeFunction
  <2> HIDE DEF D
  <2> QED BY <1>4, <2>1 DEF TreeFunction
<1> DEFINE it == CHOOSE h : h = R(h)
<1>6. it = R(it)
  <2> HIDE DEF R
  <2> QED BY <1>5
<1>7. Iterate(F, x, n) = it
  BY DEF Iterate
<1>8. /\ it = [i \in D |-> it[i]]
      /\ it[0] = x
      /\ \A i \in 1..n : it[i] = F[it[i - 1]]
  <2> HIDE DEF it
  <2> QED BY <1>6
<1>9. D \subseteq {i \in D : it[i] \in P}
  <2> DEFINE T == {i \in D : it[i] \in P}
  <2>1. \A i \in D : (par[i] \in D => par[i] \in T) => i \in T
    <3> SUFFICES ASSUME NEW i \in D, par[i] \in D => par[i] \in T PROVE it[i] \in P
      OBVIOUS
    <3> HIDE DEF it
    <3>1. CASE i = 0
      BY <1>8, <3>1
    <3>2. CASE i # 0
      <4>1. i \in 1..n /\ i - 1 \in D /\ par[i] = i - 1
        BY <3>2
      <4>2. it[i - 1] \in P
        BY <4>1
      <4> QED BY <1>8, <4>1, <4>2
    <3> QED BY <3>1, <3>2
  <2>2. D \subseteq T
    <3> HIDE DEF it, D, T, par, rank
    <3> QED BY ONLY <1>n, <1>1, <2>1, TreeInduction
  <2> HIDE DEF it, D
  <2> QED BY <2>2
<1>10. \A i \in 0..(n - 1) : it[i + 1] = F[it[i]]
  <2> HIDE DEF it
  <2> TAKE i \in 0..(n - 1)
  <2>1. i + 1 \in 1..n /\ (i + 1) - 1 = i
    OBVIOUS
  <2> QED BY <1>8, <2>1
<1>11. it \in [0..n -> P] /\ it[0] = x
  <2> HIDE DEF it
  <2> QED BY <1>8, <1>9
<1> HIDE DEF it
<1> QED BY <1>7, <1>10, <1>11 DEF Loop


-----------------------------------------------------------------------------
(* The block tree. *)

\* What the assumption on the blocks says, in the form the proofs use.
LEMMA BlockFacts ==
  /\ IsFiniteSet(Block) /\ NoHash \notin Block /\ 0 \notin Block /\ Unknown \notin Block
  /\ \A b \in Block : b \in Nat /\ (Parent[b] \in Block \/ Parent[b] = NoHash)
  /\ \A b \in Block : Parent[b] # NoHash <=> Parent[b] \in Block
  BY BlockAssumption DEF NoHash, Unknown

Height(ht) == /\ \A b \in Block : ht[b] \in 0..Cardinality(Block)
              /\ \A b \in Block : Parent[b] \in Block => ht[Parent[b]] < ht[b]

\* The parents have a rank.
LEMMA HeightExists == Cardinality(Block) \in Nat /\ \E ht : Height(ht)
<1>1. Cardinality(Block) \in Nat
  BY BlockFacts, FS_CardinalityType
<1>2. PICK ht \in [Block -> 0..Cardinality(Block)] :
         \A b \in Block : Parent[b] # NoHash => ht[Parent[b]] < ht[b]
  BY BlockAssumption
<1>3. Height(ht)
  BY <1>2, BlockFacts DEF Height
<1> QED BY <1>1, <1>3

\* Induction from the genesis block upwards.
LEMMA BlockInduction ==
  ASSUME NEW T, \A b \in Block : (Parent[b] \in Block => Parent[b] \in T) => b \in T
  PROVE  Block \subseteq T
<1>1. PICK ht : Height(ht)
  BY HeightExists
<1>2. \A b \in Block : ht[b] \in Nat
  BY <1>1, HeightExists DEF Height
<1>3. \A b \in Block : Parent[b] \in Block => ht[Parent[b]] < ht[b]
  BY <1>1 DEF Height
<1> QED BY ONLY <1>2, <1>3, TreeInduction,
           \A b \in Block : (Parent[b] \in Block => Parent[b] \in T) => b \in T

\* The recursions over the blocks have solutions.
LEMMA BlockRecursion ==
  ASSUME NEW A, NEW G
  PROVE  \E g : TreeFunction(g, Block, Parent, A, G)
<1>1. PICK ht : Height(ht)
  BY HeightExists
<1>2. \A b \in Block : ht[b] \in 0..Cardinality(Block)
  BY <1>1 DEF Height
<1>3. \A b \in Block : Parent[b] \in Block => ht[Parent[b]] < ht[b]
  BY <1>1 DEF Height
<1>4. Cardinality(Block) \in Nat
  BY HeightExists
<1> QED BY ONLY <1>2, <1>3, <1>4, TreeRecursion

\* Ancestors satisfies its definition.
LEMMA AncestorsRec ==
  \A b \in Block : Ancestors[b] = IF Parent[b] = NoHash THEN {b} ELSE {b} \cup Ancestors[Parent[b]]
<1> DEFINE A == [b \in Block |-> {b}]
           G == [b \in Block |-> [v \in SUBSET Block |-> {b} \cup v]]
           R(g) == [b \in Block |-> IF Parent[b] = NoHash THEN {b} ELSE {b} \cup g[Parent[b]]]
<1>1. PICK g : TreeFunction(g, Block, Parent, A, G)
  <2> HIDE DEF A, G
  <2> QED BY BlockRecursion
<1>2. \A b \in Block : g[b] = IF Parent[b] \in Block THEN G[b][g[Parent[b]]] ELSE {b}
  BY <1>1 DEF TreeFunction
<1>3. Block \subseteq {b \in Block : g[b] \in SUBSET Block}
  <2> DEFINE T == {b \in Block : g[b] \in SUBSET Block}
  <2>1. \A b \in Block : (Parent[b] \in Block => Parent[b] \in T) => b \in T
    BY <1>2
  <2> HIDE DEF T
  <2>2. Block \subseteq T
    BY <2>1, BlockInduction
  <2> QED BY <2>2 DEF T
<1>4. g = R(g)
  <2>1. \A b \in Block : g[b] = IF Parent[b] = NoHash THEN {b} ELSE {b} \cup g[Parent[b]]
    BY <1>2, <1>3, BlockFacts
  <2>2. g = [b \in Block |-> g[b]]
    BY <1>1 DEF TreeFunction
  <2> QED BY <2>1, <2>2
<1> DEFINE it == CHOOSE h : h = R(h)
<1>5. it = R(it)
  <2> HIDE DEF R
  <2> QED BY <1>4
<1>6. Ancestors = it
  BY DEF Ancestors
<1> HIDE DEF it
<1> QED BY <1>5, <1>6

\* TotalWork satisfies its definition.
LEMMA TotalWorkRec ==
  \A b \in Block : TotalWork[b] = work_from_bits(Bits[b])
                                + IF Parent[b] = NoHash THEN 0 ELSE TotalWork[Parent[b]]
<1> DEFINE w(b) == work_from_bits(Bits[b])
           A == [b \in Block |-> w(b) + 0]
           G == [b \in Block |-> [v \in Nat |-> w(b) + v]]
           R(g) == [b \in Block |-> w(b) + IF Parent[b] = NoHash THEN 0 ELSE g[Parent[b]]]
<1>0. \A b \in Block : w(b) \in Nat
  BY BlockAssumption
<1>1. PICK g : TreeFunction(g, Block, Parent, A, G)
  <2> HIDE DEF A, G
  <2> QED BY BlockRecursion
<1> HIDE DEF w
<1>2. \A b \in Block : g[b] = IF Parent[b] \in Block THEN G[b][g[Parent[b]]] ELSE w(b) + 0
  BY <1>1 DEF TreeFunction
<1>3. Block \subseteq {b \in Block : g[b] \in Nat}
  <2> DEFINE T == {b \in Block : g[b] \in Nat}
  <2>0. \A b \in Block : \A v \in Nat : G[b][v] \in Nat
    BY <1>0
  <2>1. \A b \in Block : (Parent[b] \in Block => Parent[b] \in T) => b \in T
    <3> HIDE DEF G
    <3>1. \A b \in Block : w(b) + 0 \in Nat
      BY <1>0
    <3> QED BY <1>2, <2>0, <3>1
  <2> HIDE DEF T
  <2>2. Block \subseteq T
    BY <2>1, BlockInduction
  <2> QED BY <2>2 DEF T
<1>4. g = R(g)
  <2>1. \A b \in Block : g[b] = w(b) + IF Parent[b] = NoHash THEN 0 ELSE g[Parent[b]]
    BY <1>2, <1>3, BlockFacts
  <2>2. g = [b \in Block |-> g[b]]
    BY <1>1 DEF TreeFunction
  <2> QED BY <2>1, <2>2
<1> DEFINE it == CHOOSE h : h = R(h)
<1>5. it = R(it)
  <2> HIDE DEF R
  <2> QED BY <1>4
<1>6. TotalWork = it
  BY DEF TotalWork, w
<1>7. \A b \in Block : it[b] = w(b) + IF Parent[b] = NoHash THEN 0 ELSE it[Parent[b]]
  <2> HIDE DEF it
  <2> QED BY <1>5
<1> HIDE DEF it
<1> QED BY <1>6, <1>7 DEF w

\* The work of a chain is a natural number.
LEMMA TotalWorkType == \A b \in Block : TotalWork[b] \in Nat
<1> DEFINE T == {b \in Block : TotalWork[b] \in Nat}
<1>0. \A b \in Block : work_from_bits(Bits[b]) \in Nat
  BY BlockAssumption
<1>1. \A b \in Block : (Parent[b] \in Block => Parent[b] \in T) => b \in T
  BY <1>0, TotalWorkRec, BlockFacts
<1>2. Block \subseteq T
  <2> HIDE DEF T
  <2> QED BY <1>1, BlockInduction
<1> QED BY <1>2

\* A block is an ancestor of its own, and the ancestors of an ancestor are ancestors.
LEMMA AncestorFacts ==
  \A b \in Block : /\ Ancestors[b] \subseteq Block /\ b \in Ancestors[b]
                   /\ \A a \in Ancestors[b] : Ancestors[a] \subseteq Ancestors[b]
<1> DEFINE T == {b \in Block : /\ Ancestors[b] \subseteq Block /\ b \in Ancestors[b]
                               /\ \A a \in Ancestors[b] : Ancestors[a] \subseteq Ancestors[b]}
<1>1. \A b \in Block : (Parent[b] \in Block => Parent[b] \in T) => b \in T
  <2> SUFFICES ASSUME NEW b \in Block, Parent[b] \in Block => Parent[b] \in T PROVE b \in T
    OBVIOUS
  <2>1. CASE Parent[b] = NoHash
    <3>1. Ancestors[b] = {b}
      BY <2>1, AncestorsRec
    <3> QED BY <3>1
  <2>2. CASE Parent[b] # NoHash
    <3>1. Ancestors[b] = {b} \cup Ancestors[Parent[b]] /\ Parent[b] \in T
      BY <2>2, AncestorsRec, BlockFacts
    <3> QED BY <3>1
  <2> QED BY <2>1, <2>2
<1>2. Block \subseteq T
  <2> HIDE DEF T
  <2> QED BY <1>1, BlockInduction
<1> QED BY <1>2

\* A block's ancestors are finitely many, its parent's, and itself, which is no
\* ancestor of its parent.
LEMMA AncestorCount ==
  ASSUME NEW b \in Block
  PROVE  /\ IsFiniteSet(Ancestors[b])
         /\ Parent[b] = NoHash => Ancestors[b] = {b}
         /\ Parent[b] # NoHash => /\ Parent[b] \in Block
                                  /\ Ancestors[b] = Ancestors[Parent[b]] \cup {b}
                                  /\ b \notin Ancestors[Parent[b]]
<1>1. IsFiniteSet(Ancestors[b])
  BY AncestorFacts, BlockFacts, FS_Subset
<1>2. PICK ht : Height(ht)
  BY HeightExists
<1>3. \A c \in Block : ht[c] \in Nat /\ (Parent[c] \in Block => ht[Parent[c]] < ht[c])
  BY <1>2, HeightExists DEF Height
<1> DEFINE T == {c \in Block : \A a \in Ancestors[c] : ht[a] <= ht[c]}
<1>4. \A c \in Block : (Parent[c] \in Block => Parent[c] \in T) => c \in T
  <2> SUFFICES ASSUME NEW c \in Block, Parent[c] \in Block => Parent[c] \in T,
                      NEW a \in Ancestors[c]
               PROVE  ht[a] <= ht[c]
    OBVIOUS
  <2>1. CASE a = c
    BY <1>3, <2>1
  <2>2. CASE a # c
    <3>1. Parent[c] \in Block /\ a \in Ancestors[Parent[c]]
      BY <2>2, AncestorsRec, BlockFacts
    <3>2. a \in Block
      BY AncestorFacts
    <3>3. ht[a] <= ht[Parent[c]]
      BY <3>1
    <3> QED BY <1>3, <3>1, <3>2, <3>3
  <2> QED BY <2>1, <2>2
<1>5. Block \subseteq T
  <2> HIDE DEF T
  <2> QED BY <1>4, BlockInduction
<1>6. Parent[b] # NoHash => b \notin Ancestors[Parent[b]]
  <2> SUFFICES ASSUME Parent[b] # NoHash, b \in Ancestors[Parent[b]] PROVE FALSE
    OBVIOUS
  <2>1. Parent[b] \in Block
    BY BlockFacts
  <2>2. ht[b] <= ht[Parent[b]] /\ ht[Parent[b]] < ht[b] /\ ht[b] \in Nat /\ ht[Parent[b]] \in Nat
    BY <1>3, <1>5, <2>1
  <2> QED BY <2>2
<1> QED BY <1>1, <1>6, AncestorsRec, BlockFacts

-----------------------------------------------------------------------------
(* getchaintips and the stale set. *)

\* Walking down from a tip as many headers as its branch has gives the branch.
LEMMA BranchFacts ==
  ASSUME NEW t \in Block, NEW Act, \A a \in Act : a \in Block /\ Ancestors[a] \subseteq Act
  PROVE  branch(t, Cardinality(Ancestors[t] \ Act)) = Ancestors[t] \ Act
<1> DEFINE P == Block \cup {NoHash}
           previous == [b \in P |-> IF b = NoHash THEN NoHash ELSE Parent[b]]
<1>1. PICK S : S = Ancestors[t] \ Act
  OBVIOUS
<1>2. IsFiniteSet(S) /\ Cardinality(S) \in Nat
  BY <1>1, AncestorCount, FS_Subset, FS_CardinalityType
<1>3. PICK n \in Nat : n = Cardinality(S)
  BY <1>2
<1>4. previous \in [P -> P]
  BY BlockFacts
<1>p. t \in P
  OBVIOUS
<1>n. n \in Nat
  OBVIOUS
<1>5. PICK cur : cur = Iterate(previous, t, n)
  OBVIOUS
<1>6. Loop(cur, P, previous, t, n)
  <2> HIDE DEF P, previous
  <2> QED BY ONLY <1>p, <1>n, <1>4, <1>5, IterateFacts
<1> DEFINE rest(i) == IF cur[i] = NoHash THEN {} ELSE Ancestors[cur[i]] \ Act
           done(i) == {cur[j] : j \in 0..(i - 1)} \ {NoHash}
           J(i) == S = done(i) \cup rest(i) /\ IsFiniteSet(rest(i)) /\ Cardinality(rest(i)) = n - i
<1>7. J(0)
  <2>1. done(0) = {} /\ rest(0) = S
    BY <1>1, <1>6, BlockFacts DEF Loop
  <2> HIDE DEF done, rest
  <2> QED BY <1>2, <1>3, <2>1
<1>8. ASSUME NEW i \in Nat, i + 1 <= n, J(i) PROVE J(i + 1)
  <2>1. IsFiniteSet(rest(i)) /\ Cardinality(rest(i)) = n - i /\ n - i # 0 /\ S = done(i) \cup rest(i)
    BY <1>8
  <2>2. rest(i) # {}
    <3> HIDE DEF rest
    <3> QED BY <2>1, FS_EmptySet
  <2>3. i \in 0..n /\ i \in 0..(n - 1) /\ cur[i] \in P
    BY <1>6, <1>8 DEF Loop
  <2>4. cur[i] \in Block /\ cur[i] # NoHash /\ rest(i) = Ancestors[cur[i]] \ Act /\ cur[i] \notin Act
    BY <2>2, <2>3
  <2>5. cur[i + 1] = Parent[cur[i]]
    BY <1>6, <2>3, <2>4 DEF Loop
  <2>6. rest(i) = rest(i + 1) \cup {cur[i]} /\ cur[i] \notin rest(i + 1)
    <3>1. CASE Parent[cur[i]] = NoHash
      <4>1. Ancestors[cur[i]] = {cur[i]} /\ rest(i + 1) = {}
        BY <2>4, <2>5, <3>1, AncestorCount
      <4> QED BY <2>4, <4>1
    <3>2. CASE Parent[cur[i]] # NoHash
      <4>1. /\ Ancestors[cur[i]] = Ancestors[Parent[cur[i]]] \cup {cur[i]}
            /\ cur[i] \notin Ancestors[Parent[cur[i]]]
            /\ rest(i + 1) = Ancestors[Parent[cur[i]]] \ Act
        BY <2>4, <2>5, <3>2, AncestorCount
      <4> QED BY <2>4, <4>1
    <3> QED BY <3>1, <3>2
  <2>7. done(i + 1) = done(i) \cup {cur[i]}
    BY <2>3, <2>4
  <2> HIDE DEF rest, done
  <2>8. S = done(i + 1) \cup rest(i + 1)
    BY <2>1, <2>6, <2>7
  <2>9. IsFiniteSet(rest(i + 1)) /\ Cardinality(rest(i + 1)) = n - (i + 1)
    <3>1. rest(i) \ {cur[i]} = rest(i + 1) /\ cur[i] \in rest(i)
      BY <2>6
    <3>2. IsFiniteSet(rest(i + 1)) /\ Cardinality(rest(i + 1)) = Cardinality(rest(i)) - 1
      BY <2>1, <3>1, FS_RemoveElement
    <3> QED BY <2>1, <3>2
  <2> QED BY <2>8, <2>9
<1>9. J(n)
  <2> DEFINE T == {i \in Nat : i <= n => J(i)}
  <2> HIDE DEF J
  <2>1. 0 \in T
    BY <1>7
  <2>2. \A i \in Nat : i \in T => i + 1 \in T
    BY <1>8
  <2>3. Nat \subseteq T
    <3> HIDE DEF T
    <3> QED BY ONLY <2>1, <2>2, SetInduction
  <2> QED BY <2>3
<1>10. rest(n) = {} /\ S = done(n)
  <2> HIDE DEF rest, done
  <2>1. IsFiniteSet(rest(n)) /\ Cardinality(rest(n)) = 0
    BY <1>9
  <2> QED BY <1>9, <2>1, FS_EmptySet
<1>11. branch(t, n) = done(n)
  BY <1>5 DEF branch
<1> QED BY <1>1, <1>3, <1>10, <1>11

\* Above a block that the node knows there is a leaf of what it knows.
LEMMA LeafAbove ==
  ASSUME NEW known \in SUBSET Block, NEW b \in known
  PROVE  \E t \in known : b \in Ancestors[t] /\ \A c \in known : Parent[c] # t
<1> DEFINE S == {c \in known : b \in Ancestors[c]}
<1>1. PICK ht : Height(ht)
  BY HeightExists
<1>2. \A c \in Block : ht[c] \in Nat /\ (Parent[c] \in Block => ht[Parent[c]] < ht[c])
  BY <1>1, HeightExists DEF Height
<1>3. IsFiniteSet(S) /\ S # {} /\ \A x \in S : ht[x] \in Nat
  <2>1. S \subseteq Block /\ b \in S
    BY AncestorFacts
  <2> QED BY <1>2, <2>1, BlockFacts, FS_Subset
<1>4. PICK t \in S : \A y \in S : ht[y] <= ht[t]
  <2> HIDE DEF S
  <2> QED BY <1>3, LargestElement
<1>5. ASSUME NEW c \in known, Parent[c] = t PROVE FALSE
  <2>1. c \in Block /\ t \in Block /\ t \in Ancestors[c] /\ b \in Ancestors[t]
    <3>1. c \in Block /\ t \in Block /\ Parent[c] # NoHash /\ b \in Ancestors[t]
      BY <1>5, BlockFacts
    <3>2. Ancestors[c] = Ancestors[t] \cup {c} /\ t \in Ancestors[t]
      BY <1>5, <3>1, AncestorCount, AncestorFacts
    <3> QED BY <3>1, <3>2
  <2>2. c \in S
    BY <2>1, AncestorFacts
  <2>3. ht[c] <= ht[t] /\ ht[t] < ht[c] /\ ht[c] \in Nat /\ ht[t] \in Nat
    BY <1>2, <1>4, <1>5, <2>1, <2>2
  <2> QED BY <2>3
<1> QED BY <1>4, <1>5

\* The stale set is exact for the tree the node knows, but for the branches it
\* reports as headers-only.
LEMMA OrphanFacts ==
  ASSUME active \in Block \cup {NoHash}, NEW known \in SUBSET Block, NEW marked,
         NEW b \in known, NEW stale, stale = orphan_block_hashes(chain_tips(known, marked))
  PROVE  /\ b \in ActiveAncestors(active) => b \notin stale
         /\ b \notin ActiveAncestors(active)
              => b \in stale \/ \E t \in known : b \in Ancestors[t] /\ ~(Ancestors[t] \subseteq Stored)
<1>1. PICK Act : Act = ActiveAncestors(active)
  OBVIOUS
<1>2. \A a \in Act : a \in Block /\ Ancestors[a] \subseteq Act
  BY <1>1, AncestorFacts DEF ActiveAncestors
<1> DEFINE leaves == {l \in known : \A c \in known : Parent[c] # l} \cup ({active} \ {NoHash})
           status(t) == IF t \in Act THEN "active"
                        ELSE IF Ancestors[t] \cap marked # {} THEN "invalid"
                        ELSE IF ~(Ancestors[t] \subseteq Stored) THEN "headers-only"
                        ELSE "valid-fork"
           tip(t) == [hash |-> t, status |-> status(t), branch_len |-> Cardinality(Ancestors[t] \ Act)]
<1>t. chain_tips(known, marked) = {tip(t) : t \in leaves}
  BY <1>1, Zenon DEF chain_tips
<1>l. leaves \subseteq Block
  OBVIOUS
<1>u. \A t \in leaves : tip(t).hash = t /\ tip(t).status = status(t)
                         /\ tip(t).branch_len = Cardinality(Ancestors[t] \ Act)
  <2> HIDE DEF leaves, status
  <2> QED OBVIOUS
<1>3. \A u \in chain_tips(known, marked) :
         u.hash \in Block /\ u.branch_len = Cardinality(Ancestors[u.hash] \ Act)
  <2> HIDE DEF leaves, tip
  <2> TAKE u \in chain_tips(known, marked)
  <2>1. PICK t \in leaves : u = tip(t)
    BY <1>t
  <2> QED BY <1>l, <1>u, <2>1
<1>4. \A u \in chain_tips(known, marked) : branch(u.hash, u.branch_len) = Ancestors[u.hash] \ Act
  BY <1>2, <1>3, BranchFacts
<1>5. b \in Act => b \notin stale
  BY <1>4 DEF orphan_block_hashes
<1>6. ASSUME b \notin Act
      PROVE  b \in stale \/ \E t \in known : b \in Ancestors[t] /\ ~(Ancestors[t] \subseteq Stored)
  <2>1. PICK t \in known : b \in Ancestors[t] /\ \A c \in known : Parent[c] # t
    BY LeafAbove
  <2>2. t \notin Act
    BY <1>2, <1>6, <2>1
  <2>3. PICK u \in chain_tips(known, marked) :
          /\ u.hash = t
          /\ u.status = status(t)
    <3>1. t \in leaves
      BY <2>1
    <3> HIDE DEF leaves, tip, status
    <3> QED BY <1>t, <1>u, <3>1
  <2>4. CASE u.status \in {"active", "headers-only"}
    BY <2>1, <2>2, <2>3, <2>4
  <2>5. CASE u.status \notin {"active", "headers-only"}
    <3>1. b \in branch(u.hash, u.branch_len)
      BY <1>4, <1>6, <2>1, <2>3
    <3> QED BY <2>5, <3>1 DEF orphan_block_hashes
  <2> QED BY <2>4, <2>5
<1> QED BY <1>1, <1>5, <1>6

-----------------------------------------------------------------------------
(* The node: what is in its files at any moment.                            *)

Record == [block : Block, file : Nat \ {0}, offset : Nat]

\* What a cell of a record is on disk.
Encoded(nd, cell, off) ==
  IF nd.xor = <<>> THEN cell ELSE XorCell(cell, nd.xor[(off % Len(nd.xor)) + 1])

\* Of a file with the records Q, the first w cells are written: they are the
\* cells of the records, which lie one behind the other from the start of the
\* file; at most the last of them is not whole.  The cells behind are zero.
FileInv(nd, file, w, Q) ==
  /\ file \in Seq(Nat) /\ w \in Nat /\ w <= Len(file) /\ Q \subseteq Record
  /\ \A o \in 1..Len(file) : o > w => file[o] = 0
  /\ \E r \in Q : r.offset = 0
  /\ \A r \in Q : r.offset <= w
  /\ \A r \in Q : RecordEnd(r) >= w \/ \E q \in Q : q.offset = RecordEnd(r)
  /\ \A r \in Q : r.offset = 0 \/ \E q \in Q : RecordEnd(q) = r.offset
  /\ \A r, q \in Q : RecordEnd(r) <= w /\ RecordEnd(q) > w => RecordEnd(r) <= q.offset
  /\ \A r \in Q : \A k \in 1..Len(RecordCells(r.block)) :
       r.offset + k <= w => file[r.offset + k] = Encoded(nd, RecordCells(r.block)[k], r.offset + k - 1)

\* The cells of a record.
LEMMA RecordFacts ==
  ASSUME NEW b \in Block
  PROVE  /\ RecordCells(b) \in Seq(Nat) /\ Len(Body[b]) \in Nat
         /\ Len(RecordCells(b)) = 3 + Len(Body[b])
         /\ RecordCells(b)[1] = Magic
         /\ RecordCells(b)[2] = 1 + Len(Body[b])
         /\ RecordCells(b)[3] = b
         /\ \A k \in 1..Len(Body[b]) : RecordCells(b)[3 + k] = Body[b][k]
         /\ \A k \in 1..Len(RecordCells(b)) : RecordCells(b)[k] \in Cells
<1>1. Body[b] \in Seq(Nat) /\ Len(Body[b]) \in Nat /\ b \in Nat /\ Magic \in Nat
  BY BlockAssumption, CellAssumption
<1>2. PICK p : p = <<Magic, 1 + Len(Body[b]), b>>
  OBVIOUS
<1>3. p \in Seq(Nat) /\ Len(p) = 3 /\ p[1] = Magic /\ p[2] = 1 + Len(Body[b]) /\ p[3] = b
  BY <1>1, <1>2
<1>4. PICK c : c = p \o Body[b]
  OBVIOUS
<1>5. c = RecordCells(b)
  BY <1>2, <1>4 DEF RecordCells
<1>6. /\ c \in Seq(Nat) /\ Len(c) = 3 + Len(Body[b])
      /\ c[1] = Magic /\ c[2] = 1 + Len(Body[b]) /\ c[3] = b
      /\ \A k \in 1..Len(Body[b]) : c[3 + k] = Body[b][k]
  <2>1. /\ c \in Seq(Nat) /\ Len(c) = Len(p) + Len(Body[b])
        /\ \A i \in 1..(Len(p) + Len(Body[b])) : c[i] = IF i <= Len(p) THEN p[i] ELSE Body[b][i - Len(p)]
    BY <1>1, <1>3, <1>4, ConcatProperties
  <2>2. \A i \in 1..(3 + Len(Body[b])) : c[i] = IF i <= 3 THEN p[i] ELSE Body[b][i - 3]
    BY <1>3, <2>1
  <2>3. \A k \in 1..Len(Body[b]) : c[3 + k] = Body[b][k]
    <3> TAKE k \in 1..Len(Body[b])
    <3>1. 3 + k \in 1..(3 + Len(Body[b])) /\ ~(3 + k <= 3) /\ (3 + k) - 3 = k
      BY <1>1
    <3> QED BY <2>2, <3>1
  <2>4. c[1] = p[1] /\ c[2] = p[2] /\ c[3] = p[3]
    <3>1. \A i \in 1..3 : i \in 1..(3 + Len(Body[b])) /\ i <= 3
      BY <1>1
    <3> QED BY <2>2, <3>1
  <2> QED BY <1>3, <2>1, <2>3, <2>4
<1>7. \A k \in 1..Len(c) : c[k] \in Cells
  <2> TAKE k \in 1..Len(c)
  <2>1. Magic \in Cells /\ b \in Cells /\ 1 + Len(Body[b]) \in Cells
    BY DEF Cells
  <2>2. \A j \in 1..Len(Body[b]) : Body[b][j] \in Cells
    BY <1>1 DEF Cells, ToSet
  <2>3. CASE k <= 3
    <3>1. k = 1 \/ k = 2 \/ k = 3
      BY <2>3
    <3> QED BY <1>6, <2>1, <3>1
  <2>4. CASE k > 3
    <3>1. k - 3 \in 1..Len(Body[b]) /\ 3 + (k - 3) = k
      BY <1>1, <1>6, <2>4
    <3>2. c[3 + (k - 3)] = Body[b][k - 3]
      BY <1>6, <3>1
    <3> QED BY <2>2, <3>1, <3>2
  <2> QED BY <1>6, <2>3, <2>4
<1> QED BY <1>1, <1>5, <1>6, <1>7

\* Where a record ends.
LEMMA EndFacts ==
  ASSUME NEW r \in Record
  PROVE  /\ r.block \in Block /\ r.offset \in Nat /\ r.file \in Nat /\ r.file >= 1
         /\ Len(RecordCells(r.block)) \in Nat /\ Len(RecordCells(r.block)) >= 3
         /\ RecordEnd(r) = r.offset + Len(RecordCells(r.block))
         /\ RecordEnd(r) \in Nat /\ RecordEnd(r) >= r.offset + 3
<1>1. r.block \in Block /\ r.offset \in Nat /\ r.file \in Nat /\ r.file >= 1
  BY DEF Record
<1>2. Len(RecordCells(r.block)) \in Nat /\ Len(RecordCells(r.block)) >= 3
  BY <1>1, RecordFacts
<1> QED BY <1>1, <1>2 DEF RecordEnd

\* A record begun behind the others of its file.
LEMMA FileBegin ==
  ASSUME NEW nd, NEW file, NEW w, NEW Q, FileInv(nd, file, w, Q),
         NEW r \in Record, r.offset = w,
         \E q \in Q : RecordEnd(q) = w, \A q \in Q : RecordEnd(q) <= w
  PROVE  FileInv(nd, file, w, Q \cup {r})
<1>1. w \in Nat /\ RecordEnd(r) \in Nat /\ RecordEnd(r) > w
  BY EndFacts DEF FileInv
<1>2. \A q \in Q : q.offset \in Nat /\ RecordEnd(q) \in Nat /\ RecordEnd(q) >= q.offset + 3
  BY EndFacts DEF FileInv
<1> DEFINE P == Q \cup {r}
<1>3. \A p \in P : RecordEnd(p) >= w \/ \E q \in P : q.offset = RecordEnd(p)
  BY <1>1 DEF FileInv
<1>4. \A p \in P : p.offset = 0 \/ \E q \in P : RecordEnd(q) = p.offset
  BY <1>1 DEF FileInv
<1>5. \A p, q \in P : RecordEnd(p) <= w /\ RecordEnd(q) > w => RecordEnd(p) <= q.offset
  BY <1>1, <1>2
<1>6. \A p \in P : \A k \in 1..Len(RecordCells(p.block)) :
        p.offset + k <= w => file[p.offset + k] = Encoded(nd, RecordCells(p.block)[k], p.offset + k - 1)
  <2>1. \A k \in 1..Len(RecordCells(r.block)) : ~(r.offset + k <= w)
    BY <1>1
  <2> QED BY <2>1 DEF FileInv
<1>7. P \subseteq Record /\ (\E p \in P : p.offset = 0) /\ \A p \in P : p.offset <= w
  BY <1>1 DEF FileInv
<1> QED BY <1>3, <1>4, <1>5, <1>6, <1>7 DEF FileInv

\* The first record of a file.
LEMMA FileNew ==
  ASSUME NEW nd, NEW file \in Seq(Nat), \A o \in 1..Len(file) : file[o] = 0,
         NEW r \in Record, r.offset = 0
  PROVE  FileInv(nd, file, 0, {r})
<1>1. RecordEnd(r) \in Nat /\ RecordEnd(r) > 0
  BY EndFacts
<1>2. \A k \in 1..Len(RecordCells(r.block)) : ~(r.offset + k <= 0)
  OBVIOUS
<1> QED BY <1>1, <1>2 DEF FileInv

\* The unwritten tail of a file is cut.
LEMMA FileCut ==
  ASSUME NEW nd, NEW file, NEW w, NEW Q, FileInv(nd, file, w, Q),
         NEW c \in Seq(Nat), Len(c) = w, \A o \in 1..w : c[o] = file[o]
  PROVE  FileInv(nd, c, w, Q)
<1>1. w \in Nat /\ Q \subseteq Record
  BY DEF FileInv
<1>2. ASSUME NEW r \in Q, NEW k \in 1..Len(RecordCells(r.block)), r.offset + k <= w
      PROVE  c[r.offset + k] = Encoded(nd, RecordCells(r.block)[k], r.offset + k - 1)
  <2>1. r.offset + k \in 1..w
    BY <1>1, <1>2, EndFacts
  <2> QED BY <1>2, <2>1 DEF FileInv
<1> QED BY <1>1, <1>2 DEF FileInv

\* One more cell of the last record is written.
LEMMA FileWrite ==
  ASSUME NEW nd, NEW file, NEW w, NEW Q, FileInv(nd, file, w, Q),
         NEW cur \in Q, w < RecordEnd(cur),
         \A q \in Q : q # cur => RecordEnd(q) <= cur.offset /\ \E s \in Q : s.offset = RecordEnd(q),
         NEW g \in Seq(Nat), Len(g) >= w + 1, \A o \in 1..Len(g) : o # w + 1 => o <= Len(file) /\ g[o] = file[o],
         g[w + 1] = Encoded(nd, RecordCells(cur.block)[w + 1 - cur.offset], w)
  PROVE  FileInv(nd, g, w + 1, Q)
<1>1. w \in Nat /\ Q \subseteq Record /\ w <= Len(file) /\ Len(g) \in Nat /\ Len(file) \in Nat
  BY DEF FileInv
<1>2. \A q \in Q : /\ q.offset \in Nat /\ RecordEnd(q) \in Nat /\ RecordEnd(q) >= q.offset + 3
                   /\ RecordEnd(q) = q.offset + Len(RecordCells(q.block))
                   /\ Len(RecordCells(q.block)) \in Nat /\ q.offset <= w
  BY <1>1, EndFacts DEF FileInv
<1>3. w + 1 \in Nat /\ w + 1 <= Len(g)
  BY <1>1
<1>4. ASSUME NEW o \in 1..Len(g), o > w + 1 PROVE g[o] = 0
  <2>1. o # w + 1 /\ o > w
    BY <1>1, <1>4
  <2>2. o \in 1..Len(file) /\ g[o] = file[o]
    BY <1>1, <2>1
  <2> QED BY <2>1, <2>2 DEF FileInv
<1>o. \A q \in Q : /\ q.offset \in Nat /\ q.offset <= w /\ RecordEnd(q) \in Nat
                   /\ q # cur => RecordEnd(q) <= w
  <2>1. \A q \in Q : q.offset \in Nat /\ q.offset <= w /\ RecordEnd(q) \in Nat
    BY <1>2
  <2>2. \A q \in Q : q # cur => RecordEnd(q) <= cur.offset
    OBVIOUS
  <2> QED BY ONLY <1>1, <2>1, <2>2, cur \in Q
<1>5. \A r \in Q : r.offset <= w + 1
  BY ONLY <1>1, <1>o
<1>6. \A r \in Q : RecordEnd(r) >= w + 1 \/ \E q \in Q : q.offset = RecordEnd(r)
  <2> TAKE r \in Q
  <2>1. CASE r = cur
    BY <1>1, <1>2, <2>1
  <2>2. CASE r # cur
    BY <2>2
  <2> QED BY <2>1, <2>2
<1>7. \A r, q \in Q : RecordEnd(r) <= w + 1 /\ RecordEnd(q) > w + 1 => RecordEnd(r) <= q.offset
  <2> SUFFICES ASSUME NEW r \in Q, NEW q \in Q, RecordEnd(r) <= w + 1, RecordEnd(q) > w + 1
               PROVE  RecordEnd(r) <= q.offset
    OBVIOUS
  <2>1. q = cur
    BY ONLY <1>1, <1>o, q \in Q, RecordEnd(q) > w + 1
  <2>2. r # cur
    BY ONLY <1>1, <1>o, <2>1, r \in Q, q \in Q, RecordEnd(q) > w + 1, RecordEnd(r) <= w + 1
  <2> QED BY <2>1, <2>2
<1>8. ASSUME NEW r \in Q, NEW k \in 1..Len(RecordCells(r.block)), r.offset + k <= w + 1
      PROVE  g[r.offset + k] = Encoded(nd, RecordCells(r.block)[k], r.offset + k - 1)
  <2>1. CASE r.offset + k = w + 1
    <3>0. /\ r.offset \in Nat /\ k \in Nat
          /\ RecordEnd(r) \in Nat /\ RecordEnd(r) >= r.offset + k
      BY <1>2
    <3>1. RecordEnd(r) >= w + 1
      BY ONLY <1>1, <2>1, <3>0
    <3>2. r = cur
      BY ONLY <1>1, <1>o, <3>1, r \in Q
    <3>3. w + 1 - cur.offset = k /\ r.offset + k - 1 = w
      <4>1. PICK a : a = r.offset
        OBVIOUS
      <4>2. a \in Nat /\ k \in Nat /\ w \in Nat /\ a + k = w + 1
        BY ONLY <1>1, <2>1, <3>0, <4>1
      <4>3. w + 1 - a = k /\ a + k - 1 = w
        BY ONLY <4>2
      <4> QED BY ONLY <3>2, <4>1, <4>3
    <3> QED BY <2>1, <3>2, <3>3
  <2>2. CASE r.offset + k # w + 1
    <3>0. r.offset \in Nat /\ k \in Nat /\ k >= 1
      BY <1>2
    <3>1. r.offset + k \in 1..Len(g) /\ r.offset + k <= w
      <4>1. \A a, j, v, m \in Nat : /\ a + j <= v + 1 /\ a + j # v + 1 /\ j >= 1 /\ v + 1 <= m
                                    => a + j \in 1..m /\ a + j <= v
        OBVIOUS
      <4> QED BY ONLY <1>1, <1>3, <1>8, <2>2, <3>0, <4>1
    <3>2. file[r.offset + k] = Encoded(nd, RecordCells(r.block)[k], r.offset + k - 1)
      BY <3>1 DEF FileInv
    <3> QED BY <2>2, <3>1, <3>2
  <2> QED BY <2>1, <2>2
<1>9. (\E r \in Q : r.offset = 0) /\ \A r \in Q : r.offset = 0 \/ \E q \in Q : RecordEnd(q) = r.offset
  BY DEF FileInv
<1> QED BY <1>1, <1>3, <1>4, <1>5, <1>6, <1>7, <1>8, <1>9 DEF FileInv

\* How many cells of file f are written, if m of the last record cur are not.
Written(rw, cur, m, f) == IF f = Len(rw) THEN RecordEnd(cur) - m ELSE Len(rw[f])

\* All files: R are the records in them, those in C whole.
Files(nd, rw, R, C, cur, m) ==
  /\ rw \in Seq(Seq(Nat)) /\ R \subseteq Record /\ m \in Nat /\ (R = {} <=> Len(rw) = 0)
  /\ R # {} => /\ cur \in R /\ cur.file = Len(rw) /\ m <= Len(RecordCells(cur.block))
               /\ \E r \in R : Parent[r.block] = NoHash
  /\ C \subseteq R /\ (\A r \in R : r # cur => r \in C) /\ (m = 0 => C = R)
  /\ \A r \in R : r.file <= Len(rw)
  /\ \A r \in R : r.file = Len(rw) /\ r # cur =>
       RecordEnd(r) <= cur.offset /\ \E s \in R : s.file = Len(rw) /\ s.offset = RecordEnd(r)
  /\ \A r \in C : RecordEnd(r) <= Written(rw, cur, m, r.file)
  /\ \A f \in 1..Len(rw) : FileInv(nd, rw[f], Written(rw, cur, m, f), {r \in R : r.file = f})

\* A record begun in the last file.
LEMMA FilesAppend ==
  ASSUME NEW nd, NEW rw, NEW R, NEW C, NEW cur, Files(nd, rw, R, C, cur, 0), R # {},
         NEW r \in Record, r.file = Len(rw), r.offset = RecordEnd(cur)
  PROVE  Files(nd, rw, R \cup {r}, R, r, Len(RecordCells(r.block)))
<1> DEFINE P == R \cup {r}
           m == Len(RecordCells(r.block))
           n == Len(rw)
<1>1. /\ rw \in Seq(Seq(Nat)) /\ R \subseteq Record /\ n \in Nat /\ n # 0 /\ n \in 1..n
      /\ cur \in R /\ cur.file = n /\ C = R /\ \A q \in R : q.file <= n
      /\ \E q \in R : Parent[q.block] = NoHash
  BY DEF Files
<1>2. m \in Nat /\ RecordEnd(r) = r.offset + m /\ r.offset \in Nat /\ RecordEnd(cur) \in Nat
      /\ RecordEnd(r) >= r.offset + 3
  BY <1>1, EndFacts
<1>3. \A f \in 1..n : Written(rw, r, m, f) = Written(rw, cur, 0, f)
  BY <1>2 DEF Written
<1>4. Written(rw, cur, 0, n) = RecordEnd(cur)
  BY <1>2 DEF Written
<1>e. \A q \in R : q.file = n => RecordEnd(q) <= RecordEnd(cur)
  <2> SUFFICES ASSUME NEW q \in R, q.file = n PROVE RecordEnd(q) <= RecordEnd(cur)
    OBVIOUS
  <2>1. RecordEnd(q) <= Written(rw, cur, 0, q.file)
    BY <1>1 DEF Files
  <2> QED BY <1>4, <2>1
<1>5. ASSUME NEW f \in 1..n PROVE FileInv(nd, rw[f], Written(rw, r, m, f), {q \in P : q.file = f})
  <2>1. PICK Q : Q = {q \in R : q.file = f}
    OBVIOUS
  <2>2. PICK w : w = Written(rw, cur, 0, f)
    OBVIOUS
  <2>3. FileInv(nd, rw[f], w, Q)
    BY <2>1, <2>2 DEF Files
  <2>4. CASE f # n
    <3>1. {q \in P : q.file = f} = Q
      BY <2>1, <2>4
    <3> QED BY <1>3, <2>2, <2>3, <3>1
  <2>5. CASE f = n
    <3>1. {q \in P : q.file = f} = Q \cup {r}
      BY <2>1, <2>5
    <3>2. r.offset = w /\ (\E q \in Q : RecordEnd(q) = w) /\ \A q \in Q : RecordEnd(q) <= w
      BY <1>1, <1>4, <1>e, <2>1, <2>2, <2>5
    <3>3. FileInv(nd, rw[f], w, Q \cup {r})
      BY <2>3, <3>2, FileBegin
    <3> QED BY <1>3, <2>2, <3>1, <3>3
  <2> QED BY <2>4, <2>5
<1>6. \A q \in P : q.file = n /\ q # r =>
        RecordEnd(q) <= r.offset /\ \E s \in P : s.file = n /\ s.offset = RecordEnd(q)
  <2> SUFFICES ASSUME NEW q \in R, q.file = n
               PROVE  RecordEnd(q) <= r.offset /\ \E s \in P : s.file = n /\ s.offset = RecordEnd(q)
    OBVIOUS
  <2>1. RecordEnd(q) <= r.offset
    BY <1>e
  <2>2. CASE q = cur
    BY <2>1, <2>2
  <2>3. CASE q # cur
    <3>1. \E s \in R : s.file = n /\ s.offset = RecordEnd(q)
      BY <2>3 DEF Files
    <3> QED BY <2>1, <3>1
  <2> QED BY <2>2, <2>3
<1>7. \A q \in R : RecordEnd(q) <= Written(rw, r, m, q.file)
  <2> TAKE q \in R
  <2>1. RecordEnd(q) <= Written(rw, cur, 0, q.file)
    BY <1>1 DEF Files
  <2>2. q.file \in 1..n
    BY <1>1, EndFacts
  <2> QED BY <1>3, <2>1, <2>2
<1>8. m # 0 /\ r \in P /\ r.file = n /\ P \subseteq Record /\ P # {} /\ n # 0
  BY <1>1, EndFacts
<1>9. \A q \in P : q.file <= n
  BY <1>1
<1>10. \E q \in P : Parent[q.block] = NoHash
  BY <1>1
<1>11. m <= Len(RecordCells(r.block))
  BY <1>2
<1>12. /\ rw \in Seq(Seq(Nat)) /\ P \subseteq Record /\ m \in Nat /\ (P = {} <=> n = 0)
       /\ P # {} => /\ r \in P /\ r.file = n /\ m <= Len(RecordCells(r.block)) /\ \E q \in P : Parent[q.block] = NoHash
       /\ R \subseteq P /\ (\A q \in P : q # r => q \in R) /\ (m = 0 => R = P)
  <2> HIDE DEF m
  <2> QED BY <1>1, <1>2, <1>8, <1>10, <1>11
<1> HIDE DEF m, P
<1>13. Files(nd, rw, P, R, r, m)
  BY ONLY <1>5, <1>6, <1>7, <1>9, <1>12 DEF Files
<1> QED BY <1>13 DEF P, m

\* A new file, and the last of the others cut to end.
Extended(rw, rw2, n, end) ==
  /\ rw2 \in Seq(Seq(Nat)) /\ Len(rw2) = n + 1
  /\ \A g \in 1..n : g # n => rw2[g] = rw[g]
  /\ n > 0 => Len(rw2[n]) = end /\ \A o \in 1..end : rw2[n][o] = rw[n][o]
  /\ \A o \in 1..Len(rw2[n + 1]) : rw2[n + 1][o] = 0

\* A record begun in a new file, the file before it cut.
LEMMA FilesExtend ==
  ASSUME NEW nd, NEW rw, NEW R, NEW C, NEW cur, Files(nd, rw, R, C, cur, 0),
         NEW n, n = Len(rw), NEW rw2, Extended(rw, rw2, n, RecordEnd(cur)),
         NEW r \in Record, r.file = n + 1, r.offset = 0, R = {} => Parent[r.block] = NoHash
  PROVE  Files(nd, rw2, R \cup {r}, R, r, Len(RecordCells(r.block)))
<1> USE DEF Extended
<1> DEFINE P == R \cup {r}
           m == Len(RecordCells(r.block))
<1>1. /\ R \subseteq Record /\ n \in Nat /\ (R = {} <=> n = 0) /\ C = R
      /\ \A q \in R : q.file <= n
  BY DEF Files
<1>2. /\ m \in Nat /\ m >= 3 /\ RecordEnd(r) = r.offset + m
  BY EndFacts
<1>3. n > 0 => cur \in R /\ RecordEnd(cur) \in Nat
  <2>1. n > 0 => R # {}
    BY <1>1
  <2>2. R # {} => cur \in R
    BY DEF Files
  <2> QED BY <1>1, <2>1, <2>2, EndFacts
<1>4. \A f \in 1..n : Written(rw2, r, m, f) = Written(rw, cur, 0, f)
  <2> TAKE f \in 1..n
  <2>1. Written(rw2, r, m, f) = Len(rw2[f])
    BY <1>1 DEF Written
  <2>2. CASE f = n
    BY <1>1, <1>3, <2>1, <2>2 DEF Written
  <2>3. CASE f # n
    BY <1>1, <2>1, <2>3 DEF Written
  <2> QED BY <2>2, <2>3
<1>5. Written(rw2, r, m, n + 1) = 0
  BY <1>1, <1>2 DEF Written
<1>6. \A q \in R : q.file \in 1..n /\ q.file # n + 1
  BY <1>1, EndFacts
<1>7. ASSUME NEW f \in 1..(n + 1)
      PROVE  FileInv(nd, rw2[f], Written(rw2, r, m, f), {q \in P : q.file = f})
  <2>1. CASE f = n + 1
    <3>1. {q \in P : q.file = f} = {r}
      BY <1>6, <2>1
    <3>2. rw2[f] \in Seq(Nat) /\ \A o \in 1..Len(rw2[f]) : rw2[f][o] = 0
      BY <2>1, <1>1
    <3>3. FileInv(nd, rw2[f], 0, {r})
      BY <3>2, FileNew
    <3> QED BY <1>5, <2>1, <3>1, <3>3
  <2>2. CASE f # n + 1
    <3>0. f \in 1..n
      BY <1>1, <2>2
    <3>1. PICK Q : Q = {q \in R : q.file = f}
      OBVIOUS
    <3>2. PICK w : w = Written(rw, cur, 0, f)
      OBVIOUS
    <3>3. FileInv(nd, rw[f], w, Q)
      BY <1>1, <3>0, <3>1, <3>2 DEF Files
    <3>4. {q \in P : q.file = f} = Q
      BY <2>2, <3>1
    <3>5. CASE f # n
      <4>1. rw2[f] = rw[f]
        BY <3>0, <3>5
      <4> QED BY <1>4, <3>0, <3>2, <3>3, <3>4, <4>1
    <3>6. CASE f = n
      <4>1. w = RecordEnd(cur)
        BY <1>3, <3>0, <3>2, <3>6 DEF Written
      <4>2. rw2[f] \in Seq(Nat) /\ Len(rw2[f]) = w /\ \A o \in 1..w : rw2[f][o] = rw[f][o]
        BY <1>1, <3>0, <3>6, <4>1
      <4>3. FileInv(nd, rw2[f], w, Q)
        <5>1. PICK c : c = rw2[f]
          OBVIOUS
        <5>2. PICK file : file = rw[f]
          OBVIOUS
        <5>3. FileInv(nd, c, w, Q)
          BY ONLY <3>3, <4>2, <5>1, <5>2, FileCut
        <5> QED BY <5>1, <5>3
      <4> QED BY <1>4, <3>0, <3>2, <3>4, <4>3
    <3> QED BY <3>5, <3>6
  <2> QED BY <2>1, <2>2
<1>8. \A q \in P : q.file = n + 1 /\ q # r =>
        RecordEnd(q) <= r.offset /\ \E s \in P : s.file = n + 1 /\ s.offset = RecordEnd(q)
  BY <1>6
<1>9. \A q \in R : RecordEnd(q) <= Written(rw2, r, m, q.file)
  <2> TAKE q \in R
  <2>1. RecordEnd(q) <= Written(rw, cur, 0, q.file)
    BY <1>1 DEF Files
  <2> QED BY <1>4, <1>6, <2>1
<1>10. \A q \in P : q.file <= n + 1
  BY <1>1, <1>6
<1>11. \E q \in P : Parent[q.block] = NoHash
  <2>1. R # {} => \E q \in R : Parent[q.block] = NoHash
    BY DEF Files
  <2> QED BY <2>1
<1>12. /\ rw2 \in Seq(Seq(Nat)) /\ P \subseteq Record /\ m \in Nat /\ (P = {} <=> Len(rw2) = 0)
       /\ P # {} => /\ r \in P /\ r.file = Len(rw2) /\ m <= Len(RecordCells(r.block))
                    /\ \E q \in P : Parent[q.block] = NoHash
       /\ R \subseteq P /\ (\A q \in P : q # r => q \in R) /\ (m = 0 => R = P)
  <2>1. m <= Len(RecordCells(r.block)) /\ m # 0 /\ n + 1 # 0
    BY <1>1, <1>2
  <2> HIDE DEF m
  <2> QED BY <1>1, <1>2, <1>11, <2>1
<1> HIDE DEF m, P
<1>13. Len(rw2) = n + 1
  OBVIOUS
<1>14. Files(nd, rw2, P, R, r, m)
  BY ONLY <1>7, <1>8, <1>9, <1>10, <1>12, <1>13 DEF Files
<1> QED BY <1>14 DEF P, m

\* Cell w + 1 of the last file is written.
CellWritten(rw, rw2, n, w, c) ==
  /\ rw2 \in Seq(Seq(Nat)) /\ Len(rw2) = n /\ \A g \in 1..n : g # n => rw2[g] = rw[g]
  /\ Len(rw2[n]) >= w + 1 /\ rw2[n][w + 1] = c
  /\ \A o \in 1..Len(rw2[n]) : o # w + 1 => o <= Len(rw[n]) /\ rw2[n][o] = rw[n][o]

\* One more cell of the last record.
LEMMA FilesWrite ==
  ASSUME NEW nd, NEW rw, NEW R, NEW C, NEW cur, NEW m, Files(nd, rw, R, C, cur, m), m > 0, R # {},
         NEW n, n = Len(rw), NEW w, w = RecordEnd(cur) - m,
         NEW rw2, NEW c, CellWritten(rw, rw2, n, w, c),
         c = Encoded(nd, RecordCells(cur.block)[w + 1 - cur.offset], w),
         NEW C2, C2 = IF m = 1 THEN R ELSE C
  PROVE  Files(nd, rw2, R, C2, cur, m - 1)
<1> USE DEF CellWritten
<1>1. /\ R \subseteq Record /\ n \in Nat /\ n # 0 /\ n \in 1..n /\ m \in Nat /\ cur \in R
      /\ cur.file = n /\ m <= Len(RecordCells(cur.block)) /\ C \subseteq R
      /\ (\A r \in R : r # cur => r \in C) /\ \A q \in R : q.file <= n
      /\ \E r \in R : Parent[r.block] = NoHash
  BY DEF Files
<1>2. /\ RecordEnd(cur) = cur.offset + Len(RecordCells(cur.block)) /\ RecordEnd(cur) \in Nat
      /\ cur.offset \in Nat /\ Len(RecordCells(cur.block)) \in Nat
  BY <1>1, EndFacts
<1>3. w \in Nat /\ w < RecordEnd(cur) /\ cur.offset <= w /\ m - 1 \in Nat
      /\ RecordEnd(cur) - (m - 1) = w + 1
  <2>1. PICK e : e = RecordEnd(cur)
    OBVIOUS
  <2>2. PICK a : a = cur.offset
    OBVIOUS
  <2>3. PICK L : L = Len(RecordCells(cur.block))
    OBVIOUS
  <2>4. a \in Nat /\ L \in Nat /\ m \in Nat /\ m <= L /\ m > 0 /\ e = a + L /\ w = e - m
    BY <1>1, <1>2, <2>1, <2>2, <2>3
  <2>5. w \in Nat /\ w < e /\ a <= w /\ m - 1 \in Nat /\ e - (m - 1) = w + 1
    BY ONLY <2>4
  <2> QED BY ONLY <2>1, <2>2, <2>5
<1>4. Written(rw, cur, m, n) = w /\ Written(rw2, cur, m - 1, n) = w + 1
  BY <1>3 DEF Written
<1>5. \A f \in 1..n : f # n => Written(rw2, cur, m - 1, f) = Written(rw, cur, m, f)
  BY DEF Written
<1>6. \A r \in R : r.file \in 1..n
  <2>1. \A r \in R : r.file \in Nat /\ r.file >= 1
    BY <1>1, EndFacts
  <2> QED BY ONLY <1>1, <2>1
<1>7. \A r \in R : r.file = n /\ r # cur =>
        RecordEnd(r) <= cur.offset /\ \E s \in R : s.file = n /\ s.offset = RecordEnd(r)
  BY DEF Files
<1>8. ASSUME NEW f \in 1..n
      PROVE  FileInv(nd, rw2[f], Written(rw2, cur, m - 1, f), {r \in R : r.file = f})
  <2>1. PICK Q : Q = {q \in R : q.file = f}
    OBVIOUS
  <2>2. FileInv(nd, rw[f], Written(rw, cur, m, f), Q)
    BY <2>1 DEF Files
  <2>3. CASE f # n
    <3>1. rw2[f] = rw[f]
      BY <2>3
    <3> QED BY <1>5, <2>1, <2>2, <2>3, <3>1
  <2>4. CASE f = n
    <3>1. FileInv(nd, rw[n], w, Q) /\ cur \in Q
      BY <1>1, <1>4, <2>1, <2>2, <2>4
    <3>2. \A q \in Q : q # cur => RecordEnd(q) <= cur.offset /\ \E s \in Q : s.offset = RecordEnd(q)
      BY <1>7, <2>1, <2>4
    <3>3. rw2[n] \in Seq(Nat)
      BY <1>1
    <3>4. FileInv(nd, rw2[n], w + 1, Q)
      <4>1. PICK g : g = rw2[n]
        OBVIOUS
      <4>2. PICK file : file = rw[n]
        OBVIOUS
      <4>3. FileInv(nd, g, w + 1, Q)
        <5>1. FileInv(nd, file, w, Q) /\ cur \in Q /\ w < RecordEnd(cur) /\ g \in Seq(Nat)
          BY <1>3, <3>1, <3>3, <4>1, <4>2
        <5>2. Len(g) >= w + 1 /\ g[w + 1] = Encoded(nd, RecordCells(cur.block)[w + 1 - cur.offset], w)
          BY <4>1
        <5>3. \A o \in 1..Len(g) : o # w + 1 => o <= Len(file) /\ g[o] = file[o]
          BY <4>1, <4>2
        <5> QED BY ONLY <3>2, <5>1, <5>2, <5>3, FileWrite
      <4> QED BY <4>1, <4>3
    <3> QED BY <1>4, <2>1, <2>4, <3>4
  <2> QED BY <2>3, <2>4
<1>9. ASSUME NEW r \in C2 PROVE RecordEnd(r) <= Written(rw2, cur, m - 1, r.file)
  <2>1. r \in R /\ RecordEnd(r) \in Nat
    BY <1>1, EndFacts
  <2>2. CASE r = cur
    <3>1. CASE m = 1
      BY <1>1, <1>2, <1>4, <2>2, <3>1
    <3>2. CASE m # 1
      <4>1. RecordEnd(cur) <= Written(rw, cur, m, n)
        BY <1>1, <1>9, <2>2, <3>2 DEF Files
      <4> QED BY <1>2, <1>3, <1>4, <4>1
    <3> QED BY <3>1, <3>2
  <2>3. CASE r # cur
    <3>1. RecordEnd(r) <= Written(rw, cur, m, r.file)
      BY <1>1, <2>1, <2>3 DEF Files
    <3>2. CASE r.file = n
      BY <1>3, <1>4, <2>1, <3>1, <3>2
    <3>3. CASE r.file # n
      BY <1>5, <1>6, <2>1, <3>1, <3>3
    <3> QED BY <3>2, <3>3
  <2> QED BY <2>2, <2>3
<1>10. /\ rw2 \in Seq(Seq(Nat)) /\ R \subseteq Record /\ m - 1 \in Nat /\ (R = {} <=> n = 0)
       /\ R # {} => /\ cur \in R /\ cur.file = n /\ m - 1 <= Len(RecordCells(cur.block))
                    /\ \E r \in R : Parent[r.block] = NoHash
  <2>1. m - 1 <= Len(RecordCells(cur.block))
    BY <1>1, <1>2
  <2> QED BY <1>1, <1>3, <2>1
<1>11. C2 \subseteq R /\ (\A r \in R : r # cur => r \in C2) /\ (m - 1 = 0 => C2 = R)
  BY <1>1
<1>12. \A q \in R : q.file <= n
  BY <1>1
<1>13. Len(rw2) = n
  OBVIOUS
<1> QED BY ONLY <1>7, <1>8, <1>9, <1>10, <1>11, <1>12, <1>13 DEF Files

\* The elements of a sequence, and of one with one more.
LEMMA SeqFacts ==
  ASSUME NEW S, NEW s \in Seq(S), NEW x \in S
  PROVE  /\ ToSet(s) \subseteq S /\ (ToSet(s) = {} <=> s = <<>>) /\ (Len(s) = 0 <=> s = <<>>)
         /\ s # <<>> => Last(s) \in ToSet(s)
         /\ ToSet(Append(s, x)) = ToSet(s) \cup {x} /\ Append(s, x) # <<>>
         /\ Last(Append(s, x)) = x /\ Front(Append(s, x)) = s
<1>1. Len(s) \in Nat /\ DOMAIN s = 1..Len(s) /\ \A i \in 1..Len(s) : s[i] \in S
  OBVIOUS
<1>2. Len(s) = 0 <=> s = <<>>
  BY EmptySeq
<1>3. PICK t : t = Append(s, x)
  OBVIOUS
<1>4. /\ t \in Seq(S) /\ Len(t) = Len(s) + 1 /\ DOMAIN t = 1..(Len(s) + 1)
      /\ t[Len(s) + 1] = x /\ \A i \in 1..Len(s) : t[i] = s[i]
  BY <1>3
<1>5. ToSet(t) = ToSet(s) \cup {x}
  <2>1. 1..(Len(s) + 1) = 1..Len(s) \cup {Len(s) + 1}
    BY <1>1
  <2>2. \A y : y \in ToSet(t) <=> \E i \in 1..(Len(s) + 1) : t[i] = y
    BY <1>4 DEF ToSet
  <2>3. \A y : y \in ToSet(s) <=> \E i \in 1..Len(s) : s[i] = y
    BY <1>1 DEF ToSet
  <2>4. \A y : y \in ToSet(t) <=> y \in ToSet(s) \/ y = x
    BY <1>4, <2>1, <2>2, <2>3
  <2> QED BY <2>4
<1>6. ToSet(s) \subseteq S /\ (ToSet(s) = {} <=> Len(s) = 0)
  <2>1. Len(s) # 0 => 1 \in 1..Len(s)
    BY <1>1
  <2> QED BY <1>1, <2>1 DEF ToSet
<1>7. s # <<>> => Last(s) \in ToSet(s)
  <2>1. Len(s) # 0 => Len(s) \in 1..Len(s)
    BY <1>1
  <2> QED BY <1>1, <1>2, <2>1 DEF ToSet, Last
<1>8. Last(t) = x
  BY <1>4 DEF Last
<1>9. Front(t) = s
  <2>1. Front(t) = SubSeq(t, 1, Len(s))
    BY <1>1, <1>4 DEF Front
  <2>2. SubSeq(t, 1, Len(s)) = s
    BY <1>1, <1>4
  <2> QED BY <2>1, <2>2
<1>10. t # <<>>
  BY <1>1, <1>4
<1> QED BY <1>2, <1>3, <1>5, <1>6, <1>7, <1>8, <1>9, <1>10

\* What is in the node's files at any moment.
NodeInv ==
  /\ node \in Setups /\ records \in Seq(Record) /\ pending \in Seq(Nat)
  /\ active \in Block \cup {NoHash}
  /\ Files(node, raw, ToSet(records), Complete, Last(records), Len(pending))
  /\ records = <<>> => pending = <<>>
  /\ \A k \in 1..Len(pending) :
       LET cells == RecordCells(Last(records).block)
       IN pending[k] = cells[Len(cells) - Len(pending) + k]

\* An empty directory.
LEMMA NodeInit ==
  ASSUME HPInit
  PROVE  NodeInv
<1>1. /\ node \in Setups /\ raw = <<>> /\ records = <<>> /\ pending = <<>> /\ active = NoHash
  BY DEF HPInit
<1>2. ToSet(records) = {} /\ Complete = {} /\ Len(pending) = 0 /\ Len(raw) = 0 /\ raw \in Seq(Seq(Nat))
  BY <1>1 DEF Complete, ToSet
<1>3. 1..Len(raw) = {} /\ 1..Len(pending) = {}
  BY <1>2
<1>4. Files(node, raw, ToSet(records), Complete, Last(records), Len(pending))
  BY <1>2, <1>3 DEF Files
<1> QED BY <1>1, <1>3, <1>4 DEF NodeInv

\* The node begins a record: in the last file, in a new one, or in the first.
LEMMA BeginStep ==
  ASSUME NodeInv, NEW b \in Block, BeginRecord(b)
  PROVE  NodeInv'
<1> DEFINE f == Len(raw)
           end == RecordEnd(Last(records))
           fits == f > 0 /\ end + Len(RecordCells(b)) <= FileCap
           cut == [g \in DOMAIN raw |-> IF g = f THEN SubSeq(raw[g], 1, end) ELSE raw[g]]
           new == IF node.padded THEN Zeros(FileCap) ELSE <<>>
           R == ToSet(records)
<1>1. PICK r : r = [block |-> b, file |-> IF fits THEN f ELSE f + 1, offset |-> IF fits THEN end ELSE 0]
  OBVIOUS
<1>2. /\ pending = <<>> /\ pending' = RecordCells(b) /\ node' = node /\ active' = active
      /\ records = <<>> => Parent[b] = NoHash
      /\ raw' = IF fits THEN raw ELSE Append(cut, new)
      /\ records' = Append(records, r)
  BY <1>1 DEF BeginRecord
<1>3. /\ node \in Setups /\ records \in Seq(Record) /\ active \in Block \cup {NoHash}
      /\ Files(node, raw, R, Complete, Last(records), Len(pending)) /\ Len(pending) = 0
  BY <1>2 DEF NodeInv
<1>4. PICK cur : cur = Last(records)
  OBVIOUS
<1>5. Files(node, raw, R, Complete, cur, 0)
  BY <1>3, <1>4
<1>6. /\ raw \in Seq(Seq(Nat)) /\ f \in Nat /\ DOMAIN raw = 1..f /\ (R = {} <=> f = 0)
      /\ R \subseteq Record
  BY <1>5 DEF Files
<1>7. f > 0 => /\ cur \in R /\ end = RecordEnd(cur) /\ end \in Nat /\ end <= Len(raw[f])
               /\ raw[f] \in Seq(Nat) /\ f \in 1..f
  <2> SUFFICES ASSUME f > 0 PROVE /\ cur \in R /\ end = RecordEnd(cur) /\ end \in Nat
                                  /\ end <= Len(raw[f]) /\ raw[f] \in Seq(Nat) /\ f \in 1..f
    OBVIOUS
  <2>1. cur \in R /\ end = RecordEnd(cur) /\ f \in 1..f /\ raw[f] \in Seq(Nat)
    BY <1>4, <1>5, <1>6 DEF Files
  <2>2. end \in Nat
    BY <1>6, <2>1, EndFacts
  <2>3. FileInv(node, raw[f], Written(raw, cur, 0, f), {q \in R : q.file = f})
    BY <1>5, <2>1 DEF Files
  <2>4. Written(raw, cur, 0, f) = end
    BY <2>1, <2>2 DEF Written
  <2> QED BY <2>1, <2>2, <2>3, <2>4 DEF FileInv
<1>8. r.block = b /\ r.file = (IF fits THEN f ELSE f + 1) /\ r.offset = (IF fits THEN end ELSE 0)
  BY <1>1
<1>9. r \in Record
  <2>1. (IF fits THEN f ELSE f + 1) \in Nat \ {0}
    BY <1>6
  <2>2. (IF fits THEN end ELSE 0) \in Nat
    BY <1>7
  <2> HIDE DEF fits, end, f
  <2> QED BY <1>1, <2>1, <2>2 DEF Record
<1>10. /\ records' \in Seq(Record) /\ ToSet(records') = R \cup {r} /\ Last(records') = r
       /\ Front(records') = records
  BY <1>2, <1>3, <1>9, SeqFacts
<1>11. RecordCells(b) \in Seq(Nat) /\ Len(RecordCells(b)) \in Nat /\ Len(RecordCells(b)) >= 3
  BY RecordFacts
<1>12. Complete' = R /\ Len(pending') = Len(RecordCells(r.block)) /\ pending' # <<>> /\ records' # <<>>
  <2>1. pending' # <<>> /\ Len(pending') = Len(RecordCells(r.block))
    BY <1>2, <1>8, <1>11
  <2>2. records' # <<>>
    BY <1>2, <1>3, <1>9, SeqFacts
  <2> QED BY <1>10, <2>1, <2>2 DEF Complete
<1>13. Files(node, raw', R \cup {r}, R, r, Len(RecordCells(r.block)))
  <2>1. CASE fits
    <3>1. f > 0 /\ r.file = f /\ r.offset = RecordEnd(cur) /\ raw' = raw /\ R # {}
      BY <1>2, <1>6, <1>7, <1>8, <2>1
    <3> HIDE DEF R, fits, end
    <3> QED BY <1>5, <1>9, <3>1, FilesAppend
  <2>2. CASE ~fits
    <3>1. new \in Seq(Nat) /\ \A o \in 1..Len(new) : new[o] = 0
      BY BoundAssumption DEF Zeros
    <3>2. f > 0 => LET c == SubSeq(raw[f], 1, end)
                   IN c \in Seq(Nat) /\ Len(c) = end /\ \A o \in 1..end : c[o] = raw[f][o]
      <4> SUFFICES ASSUME f > 0
                   PROVE LET c == SubSeq(raw[f], 1, end)
                         IN c \in Seq(Nat) /\ Len(c) = end /\ \A o \in 1..end : c[o] = raw[f][o]
        OBVIOUS
      <4>1. PICK q : q = raw[f]
        OBVIOUS
      <4>2. PICK e : e = end
        OBVIOUS
      <4>3. q \in Seq(Nat) /\ e \in Nat /\ e <= Len(q)
        BY <1>7, <4>1, <4>2
      <4>4. LET c == SubSeq(q, 1, e) IN c \in Seq(Nat) /\ Len(c) = e /\ \A o \in 1..e : c[o] = q[o]
        BY ONLY <4>3
      <4> QED BY <4>1, <4>2, <4>4
    <3>3. \A g \in 1..f : cut[g] = IF g = f THEN SubSeq(raw[f], 1, end) ELSE raw[g]
      BY <1>6
    <3>4. cut \in Seq(Seq(Nat)) /\ Len(cut) = f
      <4>1. \A g \in 1..f : raw[g] \in Seq(Nat)
        BY <1>6
      <4>2. \A g \in 1..f : cut[g] \in Seq(Nat)
        <5> TAKE g \in 1..f
        <5> HIDE DEF cut, end, f
        <5>1. CASE g # f
          BY <3>3, <4>1, <5>1
        <5>2. CASE g = f
          <6>1. f > 0
            BY <1>6, <5>2
          <6> QED BY <3>2, <3>3, <5>2, <6>1
        <5> QED BY <5>1, <5>2
      <4>3. cut \in [1..f -> Seq(Nat)]
        BY <1>6, <4>2
      <4> HIDE DEF cut, f
      <4> QED BY <1>6, <4>3
    <3> HIDE DEF cut, new, fits
    <3>5. PICK rw2 : rw2 = raw'
      OBVIOUS
    <3>6. /\ rw2 \in Seq(Seq(Nat)) /\ Len(rw2) = f + 1
          /\ \A g \in 1..f : rw2[g] = cut[g]
          /\ rw2[f + 1] = new
      BY <1>2, <2>2, <3>1, <3>4, <3>5
    <3>7. \A g \in 1..f : g # f => rw2[g] = rw2[g] /\ rw2[g] = raw[g]
      BY <3>3, <3>6
    <3>8. f > 0 => Len(rw2[f]) = RecordEnd(cur) /\ \A o \in 1..RecordEnd(cur) : rw2[f][o] = raw[f][o]
      <4> SUFFICES ASSUME f > 0
                   PROVE Len(rw2[f]) = RecordEnd(cur) /\ \A o \in 1..RecordEnd(cur) : rw2[f][o] = raw[f][o]
        OBVIOUS
      <4>1. rw2[f] = SubSeq(raw[f], 1, end) /\ end = RecordEnd(cur)
        BY <1>7, <3>3, <3>6
      <4> QED BY <3>2, <4>1
    <3>9. \A o \in 1..Len(rw2[f + 1]) : rw2[f + 1][o] = 0
      BY <3>1, <3>6
    <3>10. r.file = f + 1 /\ r.offset = 0 /\ (R = {} => Parent[r.block] = NoHash)
      <4>1. R = {} => records = <<>>
        BY <1>3, <1>9, SeqFacts
      <4> QED BY <1>2, <1>8, <2>2, <4>1
    <3>11. PICK n : n = f
      OBVIOUS
    <3>12. Files(node, rw2, R \cup {r}, R, r, Len(RecordCells(r.block)))
      <4>1. /\ n = Len(raw) /\ r.file = n + 1 /\ Len(rw2) = n + 1 /\ rw2 \in Seq(Seq(Nat))
            /\ \A g \in 1..n : g # n => rw2[g] = raw[g]
            /\ n > 0 => Len(rw2[n]) = RecordEnd(cur) /\ \A o \in 1..RecordEnd(cur) : rw2[n][o] = raw[n][o]
            /\ \A o \in 1..Len(rw2[n + 1]) : rw2[n + 1][o] = 0
        BY <3>6, <3>7, <3>8, <3>9, <3>10, <3>11
      <4> HIDE DEF R, f, end
      <4>2. n = Len(raw) /\ Extended(raw, rw2, n, RecordEnd(cur)) /\ r.file = n + 1 /\ r.offset = 0
        BY <3>10, <4>1 DEF Extended
      <4>3. R = {} => Parent[r.block] = NoHash
        BY <3>10
      <4> QED BY ONLY <1>5, <1>9, <4>2, <4>3, FilesExtend
    <3> QED BY <3>5, <3>12
  <2> QED BY <2>1, <2>2
<1>14. Files(node, raw, ToSet(records), Complete, Last(records), Len(pending))'
  <2> HIDE DEF R
  <2> QED BY <1>2, <1>10, <1>12, <1>13
<1>15. \A k \in 1..Len(pending') : LET cells == RecordCells(r.block)
                                  IN pending'[k] = cells[Len(cells) - Len(pending') + k]
  <2>1. \A k \in 1..Len(RecordCells(b)) : Len(RecordCells(b)) - Len(RecordCells(b)) + k = k
    BY <1>11
  <2> QED BY <1>2, <1>8, <2>1
<1>16. pending' \in Seq(Nat)
  BY <1>2, <1>11
<1> HIDE DEF R, fits, f, end, cut, new
<1> QED BY <1>2, <1>3, <1>10, <1>12, <1>14, <1>15, <1>16 DEF NodeInv

\* The node writes one cell more, and may move its tip after the last.
LEMMA WriteStep ==
  ASSUME NodeInv, WriteCell
  PROVE  NodeInv'
<1> DEFINE R == ToSet(records)
           S == Connected(Stored \cup {Last(records).block})
           ok == {b \in S : Ancestors[b] \cap node.invalid = {}}
           better == {b \in ok : active = NoHash \/ TotalWork[b] > TotalWork[active]}
<1>1. PICK cur : cur = Last(records)
  OBVIOUS
<1>2. PICK m : m = Len(pending)
  OBVIOUS
<1>3. PICK w : w = RecordEnd(cur) - m
  OBVIOUS
<1>4. PICK c : c = Obfuscate(Head(pending), w)
  OBVIOUS
<1>5. PICK n : n = cur.file
  OBVIOUS
<1>6. PICK file : file = raw[n]
  OBVIOUS
<1>7. PICK g : g = IF w < Len(file) THEN [file EXCEPT ![w + 1] = c] ELSE Append(file, c)
  OBVIOUS
<1>8. /\ pending # <<>> /\ pending' = Tail(pending) /\ node' = node /\ records' = records
      /\ raw' = [raw EXCEPT ![n] = g]
      /\ active' \in IF Len(pending) > 1 \/ better = {} THEN {active}
                     ELSE {b \in better : \A o \in better : TotalWork[o] <= TotalWork[b]}
  BY <1>1, <1>2, <1>3, <1>4, <1>5, <1>6, <1>7 DEF WriteCell
<1>9. /\ node \in Setups /\ records \in Seq(Record) /\ active \in Block \cup {NoHash}
      /\ pending \in Seq(Nat) /\ records # <<>>
      /\ Files(node, raw, R, Complete, cur, m)
      /\ \A k \in 1..m : pending[k] = RecordCells(cur.block)[Len(RecordCells(cur.block)) - m + k]
  BY <1>1, <1>2, <1>8 DEF NodeInv
<1>10. m \in Nat /\ m > 0 /\ Head(pending) = pending[1] /\ 1 \in 1..m
  BY <1>2, <1>8, <1>9
<1>11. R \subseteq Record /\ R # {}
  <2>1. \E b : b \in Record
    BY <1>9 DEF Files
  <2> QED BY <1>9, <2>1, SeqFacts
<1>12. /\ raw \in Seq(Seq(Nat)) /\ cur \in R /\ n = Len(raw) /\ n \in Nat /\ n # 0 /\ n \in 1..n
       /\ m <= Len(RecordCells(cur.block)) /\ DOMAIN raw = 1..n
  BY <1>5, <1>9, <1>11 DEF Files
<1>13. /\ cur.block \in Block /\ cur.offset \in Nat /\ RecordEnd(cur) = cur.offset + Len(RecordCells(cur.block))
       /\ Len(RecordCells(cur.block)) \in Nat /\ RecordEnd(cur) \in Nat
  BY <1>11, <1>12, EndFacts
<1>14. w \in Nat /\ w + 1 - cur.offset = Len(RecordCells(cur.block)) - m + 1
       /\ Len(RecordCells(cur.block)) - m + 1 \in 1..Len(RecordCells(cur.block))
  <2>1. PICK e : e = RecordEnd(cur)
    OBVIOUS
  <2>2. PICK a : a = cur.offset
    OBVIOUS
  <2>3. PICK L : L = Len(RecordCells(cur.block))
    OBVIOUS
  <2>4. a \in Nat /\ L \in Nat /\ m \in Nat /\ m <= L /\ m > 0 /\ e = a + L /\ w = e - m
    BY <1>3, <1>10, <1>12, <1>13, <2>1, <2>2, <2>3
  <2>5. w \in Nat /\ w + 1 - a = L - m + 1 /\ L - m + 1 \in 1..L
    BY ONLY <2>4
  <2> QED BY ONLY <2>2, <2>3, <2>5
<1>15. PICK cell : cell = RecordCells(cur.block)[w + 1 - cur.offset]
  OBVIOUS
<1>16. Head(pending) = cell /\ cell \in Cells /\ cell \in Nat
  <2>1. Head(pending) = cell
    BY <1>9, <1>10, <1>14, <1>15
  <2>2. \A k \in 1..Len(RecordCells(cur.block)) : RecordCells(cur.block)[k] \in Cells
    BY <1>13, RecordFacts
  <2>3. pending[1] \in Nat
    BY <1>2, <1>9, <1>10
  <2> QED BY <1>10, <1>14, <1>15, <2>1, <2>2, <2>3
<1>17. c = Encoded(node, cell, w)
  BY <1>4, <1>16 DEF Obfuscate, Encoded
<1>18. c \in Nat
  <2>1. PICK key : key = node.xor
    OBVIOUS
  <2>2. CASE key = <<>>
    BY <1>16, <1>17, <2>1, <2>2 DEF Encoded
  <2>3. CASE key # <<>>
    <3>1. key \in Seq(Nat)
      BY <1>9, <2>1, CellAssumption
    <3>2. Len(key) \in Nat /\ Len(key) > 0
      BY <2>3, <3>1
    <3>3. (w % Len(key)) + 1 \in 1..Len(key)
      BY <1>14, <3>2
    <3>4. key[(w % Len(key)) + 1] \in ToSet(key)
      BY <3>1, <3>3 DEF ToSet
    <3>5. \A k \in ToSet(key) : XorCell(cell, k) \in Nat
      BY <1>9, <1>16, <2>1, CellAssumption
    <3> QED BY <1>17, <2>1, <2>3, <3>4, <3>5 DEF Encoded
  <2> QED BY <2>2, <2>3
<1>19. file \in Seq(Nat) /\ w <= Len(file) /\ Len(file) \in Nat
  <2>1. FileInv(node, raw[n], Written(raw, cur, m, n), {r \in R : r.file = n})
    BY <1>9, <1>12 DEF Files
  <2>2. Written(raw, cur, m, n) = w
    BY <1>3, <1>12 DEF Written
  <2> QED BY <1>6, <2>1, <2>2 DEF FileInv
<1>20. /\ g \in Seq(Nat) /\ Len(g) >= w + 1 /\ g[w + 1] = c
       /\ \A o \in 1..Len(g) : o # w + 1 => o <= Len(file) /\ g[o] = file[o]
  <2>1. CASE w < Len(file)
    <3>1. g = [file EXCEPT ![w + 1] = c] /\ w + 1 \in 1..Len(file)
      BY <1>7, <1>14, <1>19, <2>1
    <3>2. g \in Seq(Nat) /\ Len(g) = Len(file) /\ g[w + 1] = c /\ \A o \in 1..Len(file) : o # w + 1 => g[o] = file[o]
      BY ONLY <1>18, <1>19, <3>1
    <3> QED BY ONLY <1>14, <1>19, <3>1, <3>2
  <2>2. CASE ~(w < Len(file))
    <3>1. g = Append(file, c) /\ w = Len(file)
      BY <1>7, <1>14, <1>19, <2>2
    <3>2. g \in Seq(Nat) /\ Len(g) = w + 1 /\ g[w + 1] = c /\ \A o \in 1..w : g[o] = file[o]
      BY ONLY <1>18, <1>19, <3>1
    <3> QED BY ONLY <1>14, <1>19, <3>1, <3>2
  <2> QED BY <2>1, <2>2
<1>21. PICK rw2 : rw2 = raw'
  OBVIOUS
<1>22. CellWritten(raw, rw2, n, w, c)
  <2>1. rw2 \in Seq(Seq(Nat)) /\ Len(rw2) = n /\ rw2[n] = g /\ \A i \in 1..n : i # n => rw2[i] = raw[i]
    BY <1>8, <1>12, <1>20, <1>21
  <2> QED BY <1>6, <1>20, <2>1 DEF CellWritten
<1>23. /\ Len(pending') = m - 1 /\ pending' \in Seq(Nat) /\ (pending' = <<>> <=> m = 1)
       /\ \A k \in 1..(m - 1) : pending'[k] = pending[k + 1]
  <2>1. Len(pending') = m - 1 /\ pending' \in Seq(Nat) /\ \A k \in 1..(m - 1) : pending'[k] = pending[k + 1]
    BY <1>2, <1>8, <1>9, HeadTailProperties
  <2>2. pending' = <<>> <=> Len(pending') = 0
    BY <2>1, EmptySeq
  <2> QED BY <1>10, <2>1, <2>2
<1>24. PICK C2 : C2 = Complete'
  OBVIOUS
<1>25. C2 = IF m = 1 THEN R ELSE Complete
  BY <1>8, <1>23, <1>24 DEF Complete
<1>26. Files(node, rw2, R, C2, cur, m - 1)
  <2> HIDE DEF R
  <2>1. Files(node, raw, R, Complete, cur, m) /\ m > 0 /\ R # {} /\ n = Len(raw)
    BY <1>9, <1>10, <1>11, <1>12
  <2>2. c = Encoded(node, RecordCells(cur.block)[w + 1 - cur.offset], w)
    BY <1>15, <1>17
  <2> QED BY ONLY <1>3, <1>22, <1>25, <2>1, <2>2, FilesWrite
<1>27. Files(node, raw, ToSet(records), Complete, Last(records), Len(pending))'
  BY <1>1, <1>8, <1>21, <1>23, <1>24, <1>26
<1>28. \A k \in 1..(m - 1) : pending'[k] = RecordCells(cur.block)[Len(RecordCells(cur.block)) - (m - 1) + k]
  <2> TAKE k \in 1..(m - 1)
  <2>1. k + 1 \in 1..m
    BY <1>10
  <2>2. PICK L : L = Len(RecordCells(cur.block))
    OBVIOUS
  <2>3. L \in Nat
    BY <1>13, <2>2
  <2>4. L - m + (k + 1) = L - (m - 1) + k
    BY ONLY <1>10, <2>3, k \in 1..(m - 1)
  <2>5. pending[k + 1] = RecordCells(cur.block)[L - m + (k + 1)]
    BY <1>9, <2>1, <2>2
  <2> QED BY <1>23, <2>2, <2>4, <2>5
<1>29. active' \in Block \cup {NoHash}
  <2>1. \A q \in Complete : q.block \in Block
    <3>1. Complete \subseteq R
      BY <1>9 DEF Files
    <3> QED BY <1>11, <3>1, EndFacts
  <2>2. better \subseteq Block
    BY <1>1, <1>13, <2>1 DEF Connected, Stored
  <2> HIDE DEF better
  <2> QED BY <1>8, <1>9, <2>2
<1>30. \A k \in 1..Len(pending') :
         LET cells == RecordCells(Last(records').block)
         IN pending'[k] = cells[Len(cells) - Len(pending') + k]
  BY <1>1, <1>8, <1>23, <1>28
<1> QED BY <1>8, <1>9, <1>23, <1>27, <1>29, <1>30 DEF NodeInv

-----------------------------------------------------------------------------
(* The reader of one file. *)

\* What FileInv says of a file, in the words the reader decodes with key.
Decoded(file, key, w, Q) ==
  /\ Len(file) \in Nat /\ w \in Nat /\ w <= Len(file) /\ Q \subseteq Record
  /\ \E r \in Q : r.offset = 0
  /\ \A r \in Q : r.offset <= w
  /\ \A r \in Q : RecordEnd(r) >= w \/ \E q \in Q : q.offset = RecordEnd(r)
  /\ \A r \in Q : r.offset = 0 \/ \E q \in Q : RecordEnd(q) = r.offset
  /\ \A r, q \in Q : RecordEnd(r) <= w /\ RecordEnd(q) > w => RecordEnd(r) <= q.offset
  /\ \A r \in Q : \A k \in 1..Len(RecordCells(r.block)) :
       r.offset + k <= w => word(file, r.offset + k - 1, key) = RecordCells(r.block)[k]
  /\ \A o \in 0..(Len(file) - 1) :
       o >= w => word(file, o, key) \in Nat \ (KnownMagics \cup Block)

\* Decoding undoes what the node did to a cell.
LEMMA DecodeFacts ==
  ASSUME NEW nd \in Setups, NEW file, NEW w, NEW Q, FileInv(nd, file, w, Q),
         NEW key, key = read_xor_key(nd.xor)
  PROVE  Decoded(file, key, w, Q)
<1>0. PICK x : x = nd.xor
  OBVIOUS
<1>1. x \in Seq(Nat) /\ Len(x) \in Nat /\ DOMAIN x = 1..Len(x)
  BY <1>0, CellAssumption
<1>2. \A o \in Nat : x # <<>> => (o % Len(x)) + 1 \in 1..Len(x) /\ x[(o % Len(x)) + 1] \in ToSet(x)
  <2> SUFFICES ASSUME NEW o \in Nat, x # <<>>
               PROVE  (o % Len(x)) + 1 \in 1..Len(x) /\ x[(o % Len(x)) + 1] \in ToSet(x)
    OBVIOUS
  <2>1. Len(x) > 0
    BY <1>1
  <2>2. (o % Len(x)) + 1 \in 1..Len(x)
    BY <1>1, <2>1
  <2> QED BY <1>1, <2>2 DEF ToSet
<1>3. ASSUME NEW o \in Nat, NEW c \in Cells, file[o + 1] = Encoded(nd, c, o)
      PROVE  word(file, o, key) = c
  <2>1. CASE x = <<>>
    <3>1. key = <<>>
      BY <1>0, <2>1 DEF read_xor_key
    <3> QED BY <1>0, <1>3, <2>1, <3>1 DEF Encoded, word
  <2>2. CASE x # <<>> /\ \A i \in DOMAIN x : x[i] = 0
    <3>1. key = <<>>
      BY <1>0, <2>2 DEF read_xor_key
    <3>2. x[(o % Len(x)) + 1] = 0
      BY <1>1, <1>2, <2>2
    <3>3. XorCell(c, 0) = c
      BY CellAssumption
    <3> QED BY <1>0, <1>3, <2>2, <3>1, <3>2, <3>3 DEF Encoded, word
  <2>3. CASE x # <<>> /\ ~(\A i \in DOMAIN x : x[i] = 0)
    <3>1. key = x
      BY <1>0, <2>3 DEF read_xor_key
    <3>2. PICK k : k = x[(o % Len(x)) + 1]
      OBVIOUS
    <3>3. k \in ToSet(x)
      BY <1>2, <2>3, <3>2
    <3>4. XorCell(XorCell(c, k), k) = c
      BY <1>0, <3>3, CellAssumption
    <3>5. file[o + 1] = XorCell(c, k)
      BY <1>0, <1>3, <2>3, <3>2 DEF Encoded
    <3> QED BY <2>3, <3>1, <3>2, <3>4, <3>5 DEF word
  <2> QED BY <2>1, <2>2, <2>3
<1>4. ASSUME NEW o \in Nat, file[o + 1] = 0
      PROVE  word(file, o, key) \in Nat \ (KnownMagics \cup Block)
  <2>1. CASE key = <<>>
    <3>1. word(file, o, key) = 0
      BY <1>4, <2>1 DEF word
    <3> QED BY <3>1, CellAssumption, BlockFacts
  <2>2. CASE key # <<>>
    <3>1. key = x
      BY <1>0, <2>2 DEF read_xor_key
    <3>2. PICK k : k = x[(o % Len(x)) + 1]
      OBVIOUS
    <3>3. k \in ToSet(x)
      BY <1>2, <2>2, <3>1, <3>2
    <3>4. XorCell(0, k) \in Nat \ (KnownMagics \cup Block)
      BY <1>0, <3>3, CellAssumption
    <3> QED BY <1>4, <2>2, <3>1, <3>2, <3>4 DEF word
  <2> QED BY <2>1, <2>2
<1>5. ASSUME NEW r \in Q, NEW k \in 1..Len(RecordCells(r.block)), r.offset + k <= w
      PROVE  word(file, r.offset + k - 1, key) = RecordCells(r.block)[k]
  <2>1. r \in Record /\ r.offset \in Nat /\ r.block \in Block
    BY EndFacts DEF FileInv
  <2>2. PICK o : o = r.offset + k - 1
    OBVIOUS
  <2>3. o \in Nat /\ o + 1 = r.offset + k
    <3>1. PICK a : a = r.offset
      OBVIOUS
    <3>2. a \in Nat /\ k \in Nat /\ k >= 1 /\ o = a + k - 1
      BY <2>1, <2>2, <3>1, RecordFacts
    <3>3. o \in Nat /\ o + 1 = a + k
      BY ONLY <3>2
    <3> QED BY <3>1, <3>3
  <2>4. PICK c : c = RecordCells(r.block)[k]
    OBVIOUS
  <2>5. c \in Cells
    BY <2>1, <2>4, RecordFacts
  <2>6. file[o + 1] = Encoded(nd, c, o)
    <3>1. file[r.offset + k] = Encoded(nd, RecordCells(r.block)[k], r.offset + k - 1)
      BY <1>5 DEF FileInv
    <3> QED BY <2>2, <2>3, <2>4, <3>1
  <2> QED BY <1>3, <2>2, <2>3, <2>4, <2>5, <2>6
<1>6. ASSUME NEW o \in 0..(Len(file) - 1), o >= w
      PROVE  word(file, o, key) \in Nat \ (KnownMagics \cup Block)
  <2>1. o \in Nat /\ o + 1 \in 1..Len(file) /\ o + 1 > w
    BY <1>6 DEF FileInv
  <2>2. file[o + 1] = 0
    BY <2>1 DEF FileInv
  <2> QED BY <1>4, <2>1, <2>2
<1>7. Len(file) \in Nat
  BY DEF FileInv
<1> QED BY <1>5, <1>6, <1>7 DEF FileInv, Decoded

\* The words of a record, as far as they have been written.
LEMMA RecordWords ==
  ASSUME NEW file, NEW key, NEW w, NEW Q, Decoded(file, key, w, Q), NEW r \in Q
  PROVE  /\ r \in Record /\ r.offset \in Nat /\ r.block \in Block /\ RecordEnd(r) \in Nat
         /\ Len(Body[r.block]) \in Nat
         /\ RecordEnd(r) = r.offset + 3 + Len(Body[r.block])
         /\ w \in Nat /\ r.offset <= w
         /\ r.offset < w => word(file, r.offset, key) = Magic
         /\ r.offset + 1 < w => word(file, r.offset + 1, key) = 1 + Len(Body[r.block])
         /\ r.offset + 2 < w => word(file, r.offset + 2, key) = r.block
         /\ \A k \in 1..Len(Body[r.block]) :
              r.offset + 2 + k < w => word(file, r.offset + 2 + k, key) = Body[r.block][k]
<1>1. r \in Record /\ w \in Nat /\ r.offset <= w
  BY DEF Decoded
<1>2. r.offset \in Nat /\ r.block \in Block
  BY <1>1, EndFacts
<1>3. PICK a : a = r.offset
  OBVIOUS
<1>4. PICK b : b = r.block
  OBVIOUS
<1>5. PICK cells : cells = RecordCells(b)
  OBVIOUS
<1>6. PICK L : L = Len(Body[b])
  OBVIOUS
<1>7. /\ b \in Block /\ L \in Nat /\ Len(cells) = 3 + L /\ cells[1] = Magic /\ cells[2] = 1 + L
      /\ cells[3] = b /\ \A k \in 1..L : cells[3 + k] = Body[b][k]
  BY <1>2, <1>4, <1>5, <1>6, RecordFacts
<1>8. \A k \in 1..Len(cells) : a + k <= w => word(file, a + k - 1, key) = cells[k]
  BY <1>3, <1>4, <1>5 DEF Decoded
<1>9. a \in Nat /\ w \in Nat /\ L \in Nat
  BY <1>1, <1>2, <1>3, <1>7
<1>10. \A k \in Nat : k < 3 + L /\ a + k < w => word(file, a + k, key) = cells[k + 1]
  <2> SUFFICES ASSUME NEW k \in Nat, k < 3 + L, a + k < w PROVE word(file, a + k, key) = cells[k + 1]
    OBVIOUS
  <2>1. k + 1 \in 1..(3 + L) /\ a + (k + 1) <= w /\ a + (k + 1) - 1 = a + k
    BY ONLY <1>9, k \in Nat, k < 3 + L, a + k < w
  <2> QED BY <1>7, <1>8, <2>1
<1>11. a < w => word(file, a, key) = Magic
  <2>1. a < w => a + 0 < w /\ 0 < 3 + L /\ a + 0 = a /\ 0 + 1 = 1
    BY ONLY <1>9
  <2> QED BY ONLY <1>7, <1>10, <2>1
<1>12. a + 1 < w => word(file, a + 1, key) = 1 + L
  <2>1. 1 < 3 + L /\ 1 + 1 = 2
    BY ONLY <1>9
  <2> QED BY ONLY <1>7, <1>10, <2>1
<1>13. a + 2 < w => word(file, a + 2, key) = b
  <2>1. 2 < 3 + L /\ 2 + 1 = 3
    BY ONLY <1>9
  <2> QED BY ONLY <1>7, <1>10, <2>1
<1>14. \A k \in 1..L : a + 2 + k < w => word(file, a + 2 + k, key) = Body[b][k]
  <2> SUFFICES ASSUME NEW k \in 1..L, a + 2 + k < w PROVE word(file, a + 2 + k, key) = Body[b][k]
    OBVIOUS
  <2>1. 2 + k \in Nat /\ 2 + k < 3 + L /\ a + (2 + k) < w /\ a + (2 + k) = a + 2 + k /\ (2 + k) + 1 = 3 + k
    BY ONLY <1>9, k \in 1..L, a + 2 + k < w
  <2> QED BY <1>7, <1>10, <2>1
<1>15. RecordEnd(r) = a + 3 + L /\ RecordEnd(r) \in Nat
  <2>1. RecordEnd(r) = a + (3 + L)
    BY <1>3, <1>4, <1>5, <1>7 DEF RecordEnd
  <2> QED BY ONLY <1>9, <2>1
<1> QED BY ONLY <1>1, <1>2, <1>3, <1>4, <1>6, <1>7, <1>11, <1>12, <1>13, <1>14, <1>15

\* A loop over the offsets 0..N, each round of which stays or advances by
\* three at least, has come to rest after N \div 3 rounds.
Advancing(F, N) == F \in [0..N -> 0..N] /\ \A p \in 0..N : F[p] = p \/ F[p] >= p + 3

Rests(it, N, F, x, n) ==
  /\ n \in Nat /\ Loop(it, 0..N, F, x, n) /\ F[it[n]] = it[n]
  /\ \A i \in 0..n : \E j \in 0..n : it[j] = F[it[i]]

\* A loop that advances by three or rests is at rest after a third of N rounds.
LEMMA LoopRest ==
  ASSUME NEW N \in Nat, NEW F, Advancing(F, N), NEW x, x \in 0..N
  PROVE  Rests(Iterate(F, x, N \div 3), N, F, x, N \div 3)
<1>n. PICK n : n = N \div 3
  OBVIOUS
<1>it. PICK it : it = Iterate(F, x, n)
  OBVIOUS
<1>1. n \in Nat /\ 3 * n + 3 > N
  BY <1>n
<1>2. Loop(it, 0..N, F, x, n)
  BY <1>1, <1>it, IterateFacts DEF Advancing
<1>3. /\ it[0] = x /\ \A i \in 0..n : it[i] \in 0..N
      /\ \A i \in 0..(n - 1) : it[i + 1] = F[it[i]]
  BY <1>1, <1>2 DEF Loop
<1> DEFINE T == {i \in Nat : i <= n => it[i] >= 3 * i \/ F[it[i]] = it[i]}
<1>4. 0 \in T
  BY <1>1, <1>3
<1>5. \A i \in Nat : i \in T => i + 1 \in T
  <2> SUFFICES ASSUME NEW i \in Nat, i \in T, i + 1 <= n
               PROVE  it[i + 1] >= 3 * (i + 1) \/ F[it[i + 1]] = it[i + 1]
    OBVIOUS
  <2>1. i \in 0..n /\ i \in 0..(n - 1) /\ it[i] \in 0..N /\ it[i + 1] = F[it[i]]
    BY <1>1, <1>3
  <2>2. CASE F[it[i]] = it[i]
    BY <2>1, <2>2
  <2>3. CASE F[it[i]] # it[i]
    <3>1. it[i] >= 3 * i
      BY <2>1, <2>3
    <3>2. F[it[i]] >= it[i] + 3 /\ F[it[i]] \in 0..N
      BY <2>1, <2>3 DEF Advancing
    <3>3. PICK u : u = it[i]
      OBVIOUS
    <3>4. PICK v : v = F[it[i]]
      OBVIOUS
    <3>5. u \in Nat /\ v \in Nat /\ u >= 3 * i /\ v >= u + 3
      BY <2>1, <3>1, <3>2, <3>3, <3>4
    <3>6. v >= 3 * (i + 1)
      BY ONLY <3>5, i \in Nat
    <3> QED BY <2>1, <3>4, <3>6
  <2> QED BY <2>2, <2>3
<1>6. Nat \subseteq T
  <2> HIDE DEF T
  <2> QED BY ONLY <1>4, <1>5, SetInduction
<1>7. F[it[n]] = it[n]
  <2> SUFFICES ASSUME F[it[n]] # it[n] PROVE FALSE
    OBVIOUS
  <2>1. n \in T /\ n \in 0..n
    BY <1>1, <1>6
  <2>2. it[n] \in 0..N /\ it[n] >= 3 * n
    BY <1>1, <1>3, <2>1
  <2>3. F[it[n]] >= it[n] + 3 /\ F[it[n]] \in 0..N
    BY <2>2 DEF Advancing
  <2>4. PICK u : u = it[n]
    OBVIOUS
  <2>5. PICK v : v = F[it[n]]
    OBVIOUS
  <2>6. u \in Nat /\ v \in Nat /\ u >= 3 * n /\ v >= u + 3 /\ v <= N
    BY <2>2, <2>3, <2>4, <2>5
  <2> QED BY ONLY <1>1, <2>6, N \in Nat
<1>8. ASSUME NEW i \in 0..n PROVE \E j \in 0..n : it[j] = F[it[i]]
  <2>1. CASE i = n
    BY <1>7, <2>1
  <2>2. CASE i # n
    <3>1. i \in 0..(n - 1) /\ i + 1 \in 0..n
      BY <1>1, <2>2
    <3> QED BY <1>3, <3>1
  <2> QED BY <2>1, <2>2
<1>9. Rests(it, N, F, x, n)
  BY <1>1, <1>2, <1>7, <1>8 DEF Rests
<1> QED BY <1>n, <1>it, <1>9

\* What holds of the first offset and is kept by a round holds of all offsets.
LEMMA LoopInvariant ==
  ASSUME NEW P, NEW F, NEW x, NEW n \in Nat, NEW it, Loop(it, P, F, x, n),
         NEW T, x \in T, \A p \in P : p \in T => F[p] \in T
  PROVE  \A i \in 0..n : it[i] \in T
<1> DEFINE I == {i \in Nat : i <= n => it[i] \in T}
<1>1. 0 \in I
  BY DEF Loop
<1>2. \A i \in Nat : i \in I => i + 1 \in I
  <2> SUFFICES ASSUME NEW i \in Nat, i \in I, i + 1 <= n PROVE it[i + 1] \in T
    OBVIOUS
  <2>1. i \in 0..n /\ i \in 0..(n - 1) /\ i <= n
    OBVIOUS
  <2>2. it[i] \in T /\ it[i] \in P /\ it[i + 1] = F[it[i]]
    BY <2>1 DEF Loop
  <2> QED BY <2>2
<1>3. Nat \subseteq I
  <2> HIDE DEF I
  <2> QED BY ONLY <1>1, <1>2, SetInduction
<1> QED BY <1>3

\* A round of the record walk.
LEMMA RoundFacts ==
  ASSUME NEW file, NEW key, NEW w, NEW Q, Decoded(file, key, w, Q),
         NEW N, N = Len(file), NEW F, F = walk_round(file, key)
  PROVE  /\ N \in Nat /\ Advancing(F, N)
         /\ \A p \in 0..N : p >= w => F[p] = p
         /\ \A r \in Q : RecordEnd(r) <= w => F[r.offset] = RecordEnd(r)
         /\ \A r \in Q : RecordEnd(r) > w => F[r.offset] = r.offset \/ F[r.offset] >= w
<1>1. N \in Nat /\ w \in Nat /\ w <= N
  BY DEF Decoded
<1> DEFINE len(p) == word(file, p + 1, key)
           Go(p) == /\ p + 3 <= N /\ word(file, p, key) \in KnownMagics
                    /\ len(p) \in 1..(N - p - 2)
<1>2. F = [p \in 0..N |-> IF Go(p) THEN p + 2 + len(p) ELSE p]
  BY DEF walk_round, is_known_network_magic
<1>3. \A p \in 0..N : F[p] = IF Go(p) THEN p + 2 + len(p) ELSE p
  BY <1>2
<1>4. ASSUME NEW p \in 0..N, Go(p) PROVE p + 2 + len(p) \in 0..N /\ p + 2 + len(p) >= p + 3
  <2>1. PICK l : l = len(p)
    OBVIOUS
  <2>2. l \in 1..(N - p - 2)
    BY <1>4, <2>1
  <2>3. p + 2 + l \in 0..N /\ p + 2 + l >= p + 3
    BY ONLY <1>1, <2>2, p \in 0..N
  <2> QED BY <2>1, <2>3
<1>5. Advancing(F, N)
  <2> HIDE DEF Go, len
  <2>1. \A p \in 0..N : F[p] \in 0..N /\ (F[p] = p \/ F[p] >= p + 3)
    BY <1>3, <1>4
  <2>2. F \in [0..N -> 0..N]
    BY <1>2, <2>1
  <2> QED BY <2>1, <2>2 DEF Advancing
<1>6. ASSUME NEW p \in 0..N, p >= w PROVE F[p] = p
  <2>1. CASE Go(p)
    <3>1. p \in 0..(N - 1)
      BY <1>1, <2>1
    <3>2. word(file, p, key) \notin KnownMagics
      BY <1>6, <3>1 DEF Decoded
    <3> QED BY <2>1, <3>2
  <2> QED BY <1>3, <2>1
<1>7. ASSUME NEW r \in Q PROVE /\ RecordEnd(r) <= w => F[r.offset] = RecordEnd(r)
                               /\ RecordEnd(r) > w => F[r.offset] = r.offset \/ F[r.offset] >= w
  <2>1. PICK a : a = r.offset
    OBVIOUS
  <2>2. PICK L : L = Len(Body[r.block])
    OBVIOUS
  <2>3. PICK e : e = RecordEnd(r)
    OBVIOUS
  <2>4. /\ a \in Nat /\ L \in Nat /\ e = a + 3 + L /\ a <= w
        /\ a < w => word(file, a, key) = Magic
        /\ a + 1 < w => word(file, a + 1, key) = 1 + L
    BY <2>1, <2>2, <2>3, RecordWords
  <2>5. a \in 0..N
    BY ONLY <1>1, <2>4
  <2>6. CASE e <= w
    <3>1. a < w /\ a + 1 < w /\ a + 3 <= N /\ 1 + L \in 1..(N - a - 2) /\ a + 2 + (1 + L) = e
      BY ONLY <1>1, <2>4, <2>6
    <3>2. Go(a) /\ len(a) = 1 + L
      BY <2>4, <3>1, CellAssumption
    <3>3. F[a] = e
      BY ONLY <1>3, <2>5, <3>1, <3>2
    <3> QED BY ONLY <1>1, <2>1, <2>3, <2>4, <2>6, <3>3
  <2>7. CASE e > w
    <3>1. CASE Go(a)
      <4>1. PICK l : l = len(a)
        OBVIOUS
      <4>2. F[a] = a + 2 + l /\ l \in 1..(N - a - 2)
        BY <1>3, <2>5, <3>1, <4>1
      <4>3. a + 1 < w => l = 1 + L
        BY <2>4, <4>1
      <4>4. a + 2 + l >= w
        BY ONLY <1>1, <2>4, <2>7, <4>2, <4>3
      <4> QED BY ONLY <1>1, <2>1, <2>3, <2>4, <2>7, <4>2, <4>4
    <3>2. CASE ~Go(a)
      BY ONLY <1>1, <1>3, <2>1, <2>3, <2>4, <2>5, <2>7, <3>2
    <3> QED BY <3>1, <3>2
  <2>8. e <= w \/ e > w
    BY ONLY <1>1, <2>4
  <2> QED BY <2>6, <2>7, <2>8
<1> QED BY <1>1, <1>5, <1>6, <1>7

\* The end of the data: behind every whole record, at the start of one that is
\* not, or behind all that was written; just there, if all records are whole.
LEMMA WalkFacts ==
  ASSUME NEW file, NEW key, NEW w, NEW Q, Decoded(file, key, w, Q),
         NEW E, E = record_walk_end(file, key)
  PROVE  /\ E \in 0..Len(file)
         /\ E >= w \/ \E r \in Q : r.offset = E /\ RecordEnd(r) > w
         /\ \A r \in Q : RecordEnd(r) <= w => RecordEnd(r) <= E
         /\ (\A r \in Q : RecordEnd(r) <= w) => E = w
<1>1. PICK N : N = Len(file)
  OBVIOUS
<1>2. PICK F : F = walk_round(file, key)
  OBVIOUS
<1>3. /\ N \in Nat /\ Advancing(F, N)
      /\ \A p \in 0..N : p >= w => F[p] = p
      /\ \A r \in Q : RecordEnd(r) <= w => F[r.offset] = RecordEnd(r)
      /\ \A r \in Q : RecordEnd(r) > w => F[r.offset] = r.offset \/ F[r.offset] >= w
  BY ONLY Decoded(file, key, w, Q), <1>1, <1>2, RoundFacts
<1>4. /\ w \in Nat /\ w <= N /\ (\E r \in Q : r.offset = 0)
      /\ \A r \in Q : RecordEnd(r) >= w \/ \E q \in Q : q.offset = RecordEnd(r)
  BY <1>1 DEF Decoded
<1>5. \A r \in Q : /\ r.offset \in Nat /\ RecordEnd(r) \in Nat /\ r.offset <= w
                   /\ RecordEnd(r) >= r.offset + 3 /\ r.offset \in 0..N
  <2>1. \A r \in Q : r \in Record /\ r.offset <= w
    BY DEF Decoded
  <2>2. \A r \in Q : r.offset \in Nat /\ RecordEnd(r) \in Nat /\ RecordEnd(r) >= r.offset + 3
    BY <2>1, EndFacts
  <2>3. \A r \in Q : r.offset \in 0..N
    BY ONLY <1>3, <1>4, <2>1, <2>2
  <2> QED BY <2>1, <2>2, <2>3
<1>6. PICK n : n = N \div 3
  OBVIOUS
<1>7. PICK it : it = Iterate(F, 0, n)
  OBVIOUS
<1>8. n \in Nat /\ Loop(it, 0..N, F, 0, n) /\ F[it[n]] = it[n]
  <2>1. N \in Nat /\ Advancing(F, N) /\ 0 \in 0..N
    BY <1>3
  <2>2. Rests(it, N, F, 0, n)
    BY ONLY <1>6, <1>7, <2>1, LoopRest
  <2> QED BY <2>2 DEF Rests
<1>9. PICK e : e = it[n]
  OBVIOUS
<1>10. e = WalkEnd(file, key)
  BY <1>1, <1>2, <1>6, <1>7, <1>9 DEF WalkEnd, Rounds
<1>11. n \in 0..n /\ e \in 0..N /\ F[e] = e
  BY <1>8, <1>9 DEF Loop
<1>12. e >= w \/ \E r \in Q : r.offset = e /\ RecordEnd(r) > w
  <2> DEFINE T == {p \in 0..N : p >= w \/ \E r \in Q : r.offset = p}
  <2>1. 0 \in T
    BY <1>3, <1>4
  <2>2. ASSUME NEW p \in 0..N, p \in T PROVE F[p] \in T
    <3>0. F[p] \in 0..N
      BY <1>3 DEF Advancing
    <3>1. CASE p >= w
      BY <1>3, <2>2, <3>1
    <3>2. CASE ~(p >= w)
      <4>1. PICK r \in Q : r.offset = p
        BY <2>2, <3>2
      <4>2. CASE RecordEnd(r) <= w
        <5>1. F[p] = RecordEnd(r)
          BY <1>3, <4>1, <4>2
        <5> QED BY <1>4, <3>0, <5>1
      <4>3. CASE RecordEnd(r) > w
        BY <1>3, <3>0, <4>1, <4>3
      <4>4. RecordEnd(r) <= w \/ RecordEnd(r) > w
        BY <1>4, <1>5
      <4> QED BY <4>2, <4>3, <4>4
    <3> QED BY <3>1, <3>2
  <2>3. e \in T
    <3> HIDE DEF T
    <3>1. \A i \in 0..n : it[i] \in T
      BY ONLY <1>8, <2>1, <2>2, LoopInvariant
    <3> QED BY <1>9, <1>11, <3>1
  <2>4. CASE e >= w
    BY <2>4
  <2>5. CASE ~(e >= w)
    <3>1. PICK r \in Q : r.offset = e
      BY <2>3, <2>5
    <3>2. ~(RecordEnd(r) <= w)
      <4> SUFFICES ASSUME RecordEnd(r) <= w PROVE FALSE
        OBVIOUS
      <4>1. F[e] = RecordEnd(r)
        BY <1>3, <3>1
      <4>2. RecordEnd(r) >= e + 3 /\ RecordEnd(r) = e /\ e \in Nat
        BY <1>5, <1>11, <3>1, <4>1
      <4> QED BY ONLY <4>2
    <3>3. RecordEnd(r) \in Nat /\ w \in Nat
      BY <1>4, <1>5
    <3> QED BY <3>1, <3>2, <3>3
  <2> QED BY <2>4, <2>5
<1>13. (\A r \in Q : RecordEnd(r) <= w) => e = w
  <2> SUFFICES ASSUME \A r \in Q : RecordEnd(r) <= w PROVE e = w
    OBVIOUS
  <2> DEFINE T == {p \in 0..N : p = w \/ \E r \in Q : r.offset = p}
  <2>1. 0 \in T
    BY <1>3, <1>4
  <2>2. ASSUME NEW p \in 0..N, p \in T PROVE F[p] \in T
    <3>0. F[p] \in 0..N
      BY <1>3 DEF Advancing
    <3>1. CASE p = w
      BY <1>3, <1>4, <2>2, <3>1
    <3>2. CASE p # w
      <4>1. PICK r \in Q : r.offset = p
        BY <2>2, <3>2
      <4>2. F[p] = RecordEnd(r) /\ RecordEnd(r) <= w
        BY <1>3, <4>1
      <4>3. CASE RecordEnd(r) >= w
        <5>1. F[p] = w
          BY <1>4, <1>5, <4>2, <4>3
        <5> QED BY <3>0, <5>1
      <4>4. CASE \E q \in Q : q.offset = RecordEnd(r)
        BY <3>0, <4>2, <4>4
      <4> QED BY <1>4, <4>3, <4>4
    <3> QED BY <3>1, <3>2
  <2>3. e \in T
    <3> HIDE DEF T
    <3>1. \A i \in 0..n : it[i] \in T
      BY ONLY <1>8, <2>1, <2>2, LoopInvariant
    <3> QED BY <1>9, <1>11, <3>1
  <2>4. SUFFICES ASSUME e # w PROVE FALSE
    OBVIOUS
  <2>5. PICK r \in Q : r.offset = e
    BY <2>3, <2>4
  <2>6. F[e] = RecordEnd(r)
    BY <1>3, <2>5
  <2>7. RecordEnd(r) >= e + 3 /\ RecordEnd(r) = e /\ e \in Nat
    BY <1>5, <1>11, <2>5, <2>6
  <2> QED BY ONLY <2>7
<1>14. E = e \/ (E = N /\ e = 0)
  BY <1>1, <1>10 DEF record_walk_end
<1>15. E \in 0..N /\ (E >= w \/ \E r \in Q : r.offset = E /\ RecordEnd(r) > w)
  BY <1>3, <1>4, <1>11, <1>12, <1>14
<1>16. (\A r \in Q : RecordEnd(r) <= w) => E = w
  <2> SUFFICES ASSUME \A r \in Q : RecordEnd(r) <= w PROVE E = w
    OBVIOUS
  <2>1. PICK r \in Q : r.offset = 0
    BY <1>4
  <2>2. RecordEnd(r) >= 0 + 3 /\ RecordEnd(r) <= w /\ RecordEnd(r) \in Nat
    BY <1>5, <2>1
  <2>3. w # 0
    BY ONLY <1>4, <2>2
  <2> QED BY <1>13, <1>14, <2>3
<1>17. \A r \in Q : RecordEnd(r) <= w => RecordEnd(r) <= E
  <2> SUFFICES ASSUME NEW r \in Q, RecordEnd(r) <= w PROVE RecordEnd(r) <= E
    OBVIOUS
  <2>1. CASE E >= w
    <3>1. RecordEnd(r) \in Nat /\ E \in Nat /\ w \in Nat
      BY <1>4, <1>5, <1>15
    <3> QED BY ONLY <2>1, <3>1, RecordEnd(r) <= w
  <2>2. CASE \E q \in Q : q.offset = E /\ RecordEnd(q) > w
    BY <2>2 DEF Decoded
  <2> QED BY <1>15, <2>1, <2>2
<1> QED BY <1>1, <1>15, <1>16, <1>17

\* The walk passes the one record that is not whole, if its length is there and
\* the file is long enough for it.
LEMMA WalkPast ==
  ASSUME NEW file, NEW key, NEW w, NEW Q, Decoded(file, key, w, Q),
         NEW r \in Q, r.offset + 2 < w, RecordEnd(r) > w, RecordEnd(r) <= Len(file),
         \A q \in Q : RecordEnd(q) > w => q = r,
         NEW E, E = record_walk_end(file, key)
  PROVE  RecordEnd(r) <= E
<1>1. PICK N : N = Len(file)
  OBVIOUS
<1>2. PICK F : F = walk_round(file, key)
  OBVIOUS
<1>3. /\ N \in Nat /\ Advancing(F, N)
      /\ \A q \in Q : RecordEnd(q) <= w => F[q.offset] = RecordEnd(q)
  BY ONLY Decoded(file, key, w, Q), <1>1, <1>2, RoundFacts
<1>4. /\ w \in Nat /\ w <= N /\ (\E q \in Q : q.offset = 0)
      /\ \A q \in Q : RecordEnd(q) >= w \/ \E t \in Q : t.offset = RecordEnd(q)
      /\ \A q \in Q : RecordEnd(q) <= w => RecordEnd(q) <= r.offset
  BY <1>1 DEF Decoded
<1>5. \A q \in Q : /\ q.offset \in Nat /\ RecordEnd(q) \in Nat
                   /\ RecordEnd(q) >= q.offset + 3 /\ q.offset <= w /\ q.offset \in 0..N
  <2>1. \A q \in Q : q \in Record /\ q.offset <= w
    BY DEF Decoded
  <2>2. \A q \in Q : q.offset \in Nat /\ RecordEnd(q) \in Nat /\ RecordEnd(q) >= q.offset + 3
    BY <2>1, EndFacts
  <2>3. \A q \in Q : q.offset \in 0..N
    BY ONLY <1>3, <1>4, <2>1, <2>2
  <2> QED BY <2>1, <2>2, <2>3
<1>6. F[r.offset] = RecordEnd(r)
  <2>1. PICK a : a = r.offset
    OBVIOUS
  <2>2. PICK L : L = Len(Body[r.block])
    OBVIOUS
  <2>3. PICK e : e = RecordEnd(r)
    OBVIOUS
  <2>4. /\ a \in Nat /\ L \in Nat /\ e = a + 3 + L /\ a + 2 < w /\ e <= N
        /\ a < w => word(file, a, key) = Magic
        /\ a + 1 < w => word(file, a + 1, key) = 1 + L
    BY <1>1, <2>1, <2>2, <2>3, RecordWords
  <2>5. /\ a < w /\ a + 1 < w /\ a \in 0..N /\ a + 3 <= N /\ 1 + L \in 1..(N - a - 2)
        /\ a + 2 + (1 + L) = e
    BY ONLY <1>3, <1>4, <2>4
  <2>6. is_known_network_magic(Magic)
    BY CellAssumption DEF is_known_network_magic
  <2>7. F[a] = a + 2 + word(file, a + 1, key)
    BY ONLY <1>1, <1>2, <2>4, <2>5, <2>6 DEF walk_round
  <2> QED BY ONLY <2>1, <2>3, <2>4, <2>5, <2>7
<1>7. PICK n : n = N \div 3
  OBVIOUS
<1>8. PICK it : it = Iterate(F, 0, n)
  OBVIOUS
<1>9. n \in Nat /\ Loop(it, 0..N, F, 0, n) /\ F[it[n]] = it[n]
  <2>1. N \in Nat /\ Advancing(F, N) /\ 0 \in 0..N
    BY <1>3
  <2>2. Rests(it, N, F, 0, n)
    BY ONLY <1>7, <1>8, <2>1, LoopRest
  <2> QED BY <2>2 DEF Rests
<1>10. PICK e : e = it[n]
  OBVIOUS
<1>11. e = WalkEnd(file, key)
  BY <1>1, <1>2, <1>7, <1>8, <1>10 DEF WalkEnd, Rounds
<1>12. n \in 0..n /\ e \in 0..N /\ F[e] = e
  BY <1>9, <1>10 DEF Loop
<1>13. ASSUME NEW q \in Q
       PROVE  /\ RecordEnd(q) <= w => /\ F[q.offset] = RecordEnd(q)
                                      /\ \E t \in Q : t.offset = RecordEnd(q)
              /\ RecordEnd(q) > w => F[q.offset] = RecordEnd(r)
  <2>1. ASSUME RecordEnd(q) <= w
        PROVE  \E t \in Q : t.offset = RecordEnd(q)
    <3>1. RecordEnd(q) <= r.offset /\ RecordEnd(q) \in Nat /\ r.offset \in Nat
      BY <1>4, <1>5, <2>1
    <3>2. ~(RecordEnd(q) >= w)
      BY ONLY <1>4, <3>1, r.offset + 2 < w
    <3> QED BY <1>4, <3>2
  <2> QED BY <1>3, <1>6, <2>1
<1>14. e >= RecordEnd(r)
  <2> DEFINE T == {p \in 0..N : p >= RecordEnd(r) \/ \E q \in Q : q.offset = p}
  <2>1. 0 \in T
    BY <1>3, <1>4
  <2>2. ASSUME NEW p \in 0..N, p \in T PROVE F[p] \in T
    <3>0. F[p] \in 0..N /\ (F[p] = p \/ F[p] >= p + 3)
      BY <1>3 DEF Advancing
    <3>1. CASE p >= RecordEnd(r)
      <4>1. RecordEnd(r) \in Nat
        BY <1>5
      <4>2. F[p] >= RecordEnd(r)
        BY ONLY <3>0, <3>1, <4>1, p \in 0..N
      <4> QED BY <3>0, <4>2
    <3>2. CASE ~(p >= RecordEnd(r))
      <4>1. PICK q \in Q : q.offset = p
        BY <2>2, <3>2
      <4>2. CASE RecordEnd(q) <= w
        BY <1>13, <3>0, <4>1, <4>2
      <4>3. CASE RecordEnd(q) > w
        <5>1. F[p] = RecordEnd(r) /\ RecordEnd(r) \in Nat
          BY <1>5, <1>13, <4>1, <4>3
        <5> QED BY <3>0, <5>1
      <4>4. RecordEnd(q) <= w \/ RecordEnd(q) > w
        BY <1>4, <1>5
      <4> QED BY <4>2, <4>3, <4>4
    <3> QED BY <3>1, <3>2
  <2>3. e \in T
    <3> HIDE DEF T
    <3>1. \A i \in 0..n : it[i] \in T
      BY ONLY <1>9, <2>1, <2>2, LoopInvariant
    <3> QED BY <1>10, <1>12, <3>1
  <2>4. SUFFICES ASSUME ~(e >= RecordEnd(r)) PROVE FALSE
    OBVIOUS
  <2>5. PICK q \in Q : q.offset = e
    BY <2>3, <2>4
  <2>6. F[e] = RecordEnd(q) \/ F[e] = RecordEnd(r)
    <3>1. RecordEnd(q) <= w \/ RecordEnd(q) > w
      BY <1>4, <1>5
    <3> QED BY <1>13, <2>5, <3>1
  <2>7. RecordEnd(q) >= e + 3 /\ RecordEnd(q) \in Nat /\ RecordEnd(r) \in Nat /\ e \in Nat
    BY <1>5, <1>12, <2>5
  <2> QED BY ONLY <1>12, <2>4, <2>6, <2>7
<1>15. E = e \/ E = N
  BY <1>1, <1>11 DEF record_walk_end
<1> QED BY <1>1, <1>14, <1>15

\* skip_zeros stops at the end or at the first cell that is not zero.
LEMMA SkipFacts ==
  ASSUME NEW data, NEW N \in Nat, N = Len(data), NEW p \in 0..N
  PROVE  skip_zeros(data, p) \in p..N /\ (p = N \/ data[p + 1] # 0 => skip_zeros(data, p) = p)
<1> DEFINE S == {i \in p..N : i < N => data[i + 1] # 0}
<1>1. skip_zeros(data, p) = Min(S)
  BY DEF skip_zeros
<1>2. S \subseteq Nat /\ N \in S
  OBVIOUS
<1>3. Min(S) \in S /\ \A y \in S : Min(S) <= y
  <2> HIDE DEF S
  <2> QED BY <1>2, MinFacts
<1>4. p = N \/ data[p + 1] # 0 => p \in S
  OBVIOUS
<1>5. PICK z : z = Min(S)
  OBVIOUS
<1>6. z \in p..N /\ (p \in S => z <= p)
  BY <1>3, <1>5
<1> HIDE DEF S
<1> QED BY <1>1, <1>4, <1>5, <1>6

\* One round of the iterator stays within the data, and rests or advances by three.
LEMMA IterFacts ==
  ASSUME NEW data, NEW N \in Nat, N = Len(data), NEW G, G = iter_next(data)
  PROVE  /\ Advancing(G, N)
         /\ \A p \in 0..N : /\ ~RecordAt(data, p) => G[p] = p
                            /\ RecordAt(data, p) =>
                                 /\ p + 2 + data[p + 2] \in 0..N /\ data[p + 2] \in Nat
                                 /\ p + 2 + data[p + 2] >= p + 3 /\ G[p] >= p + 3
                                 /\ G[p] = skip_zeros(data, p + 2 + data[p + 2])
<1>1. \A p \in 0..N : G[p] = IF RecordAt(data, p) THEN skip_zeros(data, p + 2 + data[p + 2]) ELSE p
  BY DEF iter_next
<1>2. ASSUME NEW p \in 0..N, RecordAt(data, p)
      PROVE  /\ p + 2 + data[p + 2] \in 0..N /\ data[p + 2] \in Nat
             /\ p + 2 + data[p + 2] >= p + 3 /\ G[p] >= p + 3 /\ G[p] \in 0..N
             /\ G[p] = skip_zeros(data, p + 2 + data[p + 2])
  <2>1. PICK l : l = data[p + 2]
    OBVIOUS
  <2>2. l \in 1..(N - p - 2)
    BY <1>2, <2>1 DEF RecordAt
  <2>3. PICK t : t = p + 2 + l
    OBVIOUS
  <2>4. t \in 0..N /\ t >= p + 3 /\ l \in Nat
    BY ONLY <2>2, <2>3, p \in 0..N, N \in Nat
  <2>5. G[p] = skip_zeros(data, t) /\ skip_zeros(data, t) \in t..N
    BY <1>1, <1>2, <2>1, <2>3, <2>4, SkipFacts
  <2>6. PICK z : z = G[p]
    OBVIOUS
  <2>7. z \in t..N
    BY <2>5, <2>6
  <2>8. z >= p + 3 /\ z \in 0..N
    BY ONLY <2>4, <2>7, p \in 0..N, N \in Nat
  <2> QED BY <2>1, <2>3, <2>4, <2>5, <2>6, <2>8
<1>3. Advancing(G, N)
  <2>1. \A p \in 0..N : G[p] \in 0..N /\ (G[p] = p \/ G[p] >= p + 3)
    BY <1>1, <1>2
  <2>2. G = [p \in 0..N |-> G[p]]
    BY DEF iter_next
  <2>3. G \in [0..N -> 0..N]
    BY <2>1, <2>2
  <2> QED BY <2>1, <2>3 DEF Advancing
<1> QED BY <1>1, <1>2, <1>3

\* The decoded cells, one by one.
LEMMA DataFacts ==
  ASSUME NEW file, NEW key, NEW E \in Nat, NEW data, data = xor_decode(file, key, E)
  PROVE  Len(data) = E /\ \A o \in 0..(E - 1) : data[o + 1] = word(file, o, key)
<1>1. data = [i \in 1..E |-> word(file, i - 1, key)]
  BY DEF xor_decode
<1>2. Len(data) = E
  BY <1>1
<1>3. ASSUME NEW o \in 0..(E - 1) PROVE data[o + 1] = word(file, o, key)
  <2>1. o + 1 \in 1..E /\ (o + 1) - 1 = o
    OBVIOUS
  <2> QED BY <1>1, <2>1
<1> QED BY <1>2, <1>3

\* Where the iterator may be: at a record, or behind what was written.
Positions(E, w, Q) == {p \in 0..E : p >= w \/ \E r \in Q : r.offset = p}

\* At a position, magic and length are only seen at a record; the next
\* position is its end, unless its length was not written yet.
LEMMA PositionFacts ==
  ASSUME NEW file, NEW key, NEW w, NEW Q, Decoded(file, key, w, Q),
         NEW E \in 0..Len(file), NEW data, data = xor_decode(file, key, E),
         NEW p \in Positions(E, w, Q)
  PROVE  /\ skip_zeros(data, p) \in Positions(E, w, Q)
         /\ p < w => skip_zeros(data, p) = p
         /\ RecordAt(data, p) =>
              \E r \in Q : /\ r.offset = p /\ p < w
                           /\ p + 1 < w => data[p + 2] = 1 + Len(Body[r.block])
                           /\ p + 2 < w => data[p + 3] = r.block
                           /\ p + 2 >= w => data[p + 3] \in Nat \ Block
                           /\ p + 2 + data[p + 2] \in Positions(E, w, Q)
<1>0. PICK N : N = Len(file)
  OBVIOUS
<1>1. N \in Nat /\ w \in Nat /\ w <= N /\ E \in Nat /\ E <= N /\ p \in Nat /\ p <= E
  BY <1>0 DEF Decoded, Positions
<1>2. Len(data) = E /\ \A o \in 0..(E - 1) : data[o + 1] = word(file, o, key)
  BY <1>1, DataFacts
<1>3. \A o \in 0..(E - 1) : o >= w => data[o + 1] \in Nat \ (KnownMagics \cup Block)
  <2>1. \A o \in 0..(E - 1) : o \in 0..(N - 1)
    BY ONLY <1>1
  <2> QED BY <1>0, <1>2, <2>1 DEF Decoded
<1>4. p >= w \/ \E r \in Q : r.offset = p
  BY DEF Positions
<1>5. p < w => skip_zeros(data, p) = p
  <2> SUFFICES ASSUME p < w PROVE skip_zeros(data, p) = p
    OBVIOUS
  <2>1. PICK r \in Q : r.offset = p
    BY <1>1, <1>4
  <2>2. word(file, p, key) = Magic
    BY <2>1, RecordWords
  <2>3. CASE p = E
    BY <1>1, <1>2, <2>3, SkipFacts
  <2>4. CASE p # E
    <3>1. p \in 0..(E - 1)
      BY ONLY <1>1, <2>4
    <3>2. data[p + 1] # 0
      BY <1>2, <2>2, <3>1, CellAssumption
    <3>3. p \in 0..E
      BY <1>1
    <3> QED BY <1>1, <1>2, <3>2, <3>3, SkipFacts
  <2> QED BY <2>3, <2>4
<1>6. skip_zeros(data, p) \in Positions(E, w, Q)
  <2>1. CASE p < w
    BY <1>5, <2>1
  <2>2. CASE ~(p < w)
    <3>1. PICK z : z = skip_zeros(data, p)
      OBVIOUS
    <3>2. p \in 0..E
      BY <1>1
    <3>3. z \in p..E
      BY <1>1, <1>2, <3>1, <3>2, SkipFacts
    <3>4. z \in 0..E /\ z >= w
      BY ONLY <1>1, <2>2, <3>3
    <3> QED BY <3>1, <3>4 DEF Positions
  <2> QED BY <2>1, <2>2
<1>7. ASSUME RecordAt(data, p)
      PROVE  \E r \in Q : /\ r.offset = p /\ p < w
                          /\ p + 1 < w => data[p + 2] = 1 + Len(Body[r.block])
                          /\ p + 2 < w => data[p + 3] = r.block
                          /\ p + 2 >= w => data[p + 3] \in Nat \ Block
                          /\ p + 2 + data[p + 2] \in Positions(E, w, Q)
  <2>1. PICK l : l = data[p + 2]
    OBVIOUS
  <2>2. p + 2 <= E /\ data[p + 1] \in KnownMagics /\ l \in 1..(E - p - 2)
    BY <1>2, <1>7, <2>1 DEF RecordAt, is_known_network_magic
  <2>3. p \in 0..(E - 1) /\ p + 1 \in 0..(E - 1) /\ p + 2 \in 0..(E - 1) /\ l \in Nat /\ l >= 1
        /\ p + 2 + l \in 0..E
    BY ONLY <1>1, <2>2
  <2>4. p < w
    <3>1. ~(p >= w)
      BY <1>3, <2>2, <2>3
    <3> QED BY ONLY <1>1, <3>1
  <2>5. PICK r \in Q : r.offset = p
    BY <1>1, <1>4, <2>4
  <2>6. PICK L : L = Len(Body[r.block])
    OBVIOUS
  <2>7. /\ L \in Nat /\ RecordEnd(r) = p + 3 + L
        /\ p + 1 < w => word(file, p + 1, key) = 1 + L
        /\ p + 2 < w => word(file, p + 2, key) = r.block
    BY <2>5, <2>6, RecordWords
  <2>8. (p + 1) + 1 = p + 2 /\ (p + 2) + 1 = p + 3
    BY ONLY <1>1
  <2>9. data[p + 2] = word(file, p + 1, key) /\ data[p + 3] = word(file, p + 2, key)
    BY ONLY <1>2, <2>3, <2>8
  <2>10. p + 2 >= w => data[p + 3] \in Nat \ Block
    BY ONLY <1>3, <2>3, <2>8
  <2>11. p + 2 + l \in Positions(E, w, Q)
    <3>1. CASE p + 1 < w
      <4>1. l = 1 + L
        BY <2>1, <2>7, <2>9, <3>1
      <4>2. p + 2 + l = RecordEnd(r)
        <5>1. p + 2 + (1 + L) = p + 3 + L
          BY ONLY <1>1, <2>7
        <5> QED BY <2>7, <4>1, <5>1
      <4>3. RecordEnd(r) >= w \/ \E q \in Q : q.offset = RecordEnd(r)
        BY DEF Decoded
      <4> QED BY <2>3, <4>2, <4>3 DEF Positions
    <3>2. CASE ~(p + 1 < w)
      <4>1. p + 2 + l >= w
        BY ONLY <1>1, <2>3, <3>2
      <4> QED BY <2>3, <4>1 DEF Positions
    <3> QED BY <3>1, <3>2
  <2> QED BY <2>1, <2>4, <2>5, <2>6, <2>7, <2>9, <2>10, <2>11
<1> QED BY <1>5, <1>6, <1>7

\* The places where the iterator stops at a record.
Stops(data) ==
  LET at == Iterate(iter_next(data), skip_zeros(data, 0), Rounds(data))
  IN {p \in {at[i] : i \in 0..Rounds(data)} : RecordAt(data, p)}

\* The iterator stops only at records or behind what is written, and at every record
\* if all are whole.
LEMMA StopFacts ==
  ASSUME NEW file, NEW key, NEW w, NEW Q, Decoded(file, key, w, Q),
         NEW E \in 0..Len(file), NEW data, data = xor_decode(file, key, E)
  PROVE  /\ Stops(data) \subseteq Positions(E, w, Q) /\ \A p \in Stops(data) : RecordAt(data, p)
         /\ records_of(data).recs = {BlkRecord(p, data[p + 2], data[p + 3]) : p \in Stops(data)}
         /\ (E = w /\ \A r \in Q : RecordEnd(r) <= w) =>
              records_of(data).ok /\ \A r \in Q : r.offset \in Stops(data)
<1>1. E \in Nat /\ Len(data) = E /\ w \in Nat
  <2>1. Len(file) \in Nat /\ w \in Nat
    BY DEF Decoded
  <2>2. E \in Nat
    BY <2>1
  <2> QED BY <2>1, <2>2, DataFacts
<1>2. PICK G : G = iter_next(data)
  OBVIOUS
<1>3. PICK x : x = skip_zeros(data, 0)
  OBVIOUS
<1>4. PICK n : n = E \div 3
  OBVIOUS
<1>5. PICK at : at = Iterate(G, x, n)
  OBVIOUS
<1>6. /\ Advancing(G, E)
      /\ \A p \in 0..E : /\ ~RecordAt(data, p) => G[p] = p
                         /\ RecordAt(data, p) => /\ G[p] >= p + 3
                                                 /\ G[p] = skip_zeros(data, p + 2 + data[p + 2])
  BY <1>1, <1>2, IterFacts
<1>7. PICK T : T = Positions(E, w, Q)
  OBVIOUS
<1>8. 0 \in T /\ T \subseteq 0..E
  BY <1>1, <1>7 DEF Positions, Decoded
<1>9. \A p \in T : skip_zeros(data, p) \in T
  BY ONLY <1>7, PositionFacts, Decoded(file, key, w, Q), E \in 0..Len(file), data = xor_decode(file, key, E)
<1>10. x \in T /\ x \in 0..E
  BY <1>3, <1>8, <1>9
<1>11. Rests(at, E, G, x, n)
  BY ONLY <1>1, <1>4, <1>5, <1>6, <1>10, LoopRest
<1>12. /\ n \in Nat /\ Loop(at, 0..E, G, x, n) /\ G[at[n]] = at[n]
       /\ \A i \in 0..n : \E j \in 0..n : at[j] = G[at[i]]
  BY <1>11 DEF Rests
<1>13. ASSUME NEW p \in 0..E, p \in T PROVE G[p] \in T
  <2>1. CASE RecordAt(data, p)
    <3>1. p + 2 + data[p + 2] \in T
      BY <1>7, <1>13, <2>1, PositionFacts
    <3>2. G[p] = skip_zeros(data, p + 2 + data[p + 2])
      BY <1>6, <2>1
    <3> QED BY <1>9, <3>1, <3>2
  <2>2. CASE ~RecordAt(data, p)
    BY <1>6, <1>13, <2>2
  <2> QED BY <2>1, <2>2
<1>14. \A i \in 0..n : at[i] \in T
  BY ONLY <1>10, <1>12, <1>13, LoopInvariant
<1>15. Stops(data) = {p \in {at[i] : i \in 0..n} : RecordAt(data, p)}
  BY <1>1, <1>2, <1>3, <1>4, <1>5 DEF Stops, Rounds
<1>16. /\ records_of(data).recs = {BlkRecord(p, data[p + 2], data[p + 3]) : p \in Stops(data)}
       /\ records_of(data).ok <=> at[n] + 2 > E
  <2>1. records_of(data) = [ok |-> at[n] + 2 > E,
                            recs |-> {BlkRecord(p, data[p + 2], data[p + 3]) : p \in Stops(data)}]
    BY <1>1, <1>2, <1>3, <1>4, <1>5, <1>15 DEF records_of, Rounds
  <2>2. PICK found : found = records_of(data)
    OBVIOUS
  <2>3. PICK S : S = {BlkRecord(p, data[p + 2], data[p + 3]) : p \in Stops(data)}
    OBVIOUS
  <2>4. found = [ok |-> at[n] + 2 > E, recs |-> S]
    BY <2>1, <2>2, <2>3
  <2>5. found.recs = S
    BY <2>4
  <2>6. found.ok = (at[n] + 2 > E)
    BY ONLY <2>4, Zenon
  <2> QED BY <2>2, <2>3, <2>5, <2>6
<1>17. Stops(data) \subseteq T /\ \A p \in Stops(data) : RecordAt(data, p)
  BY <1>14, <1>15
<1>18. ASSUME E = w, \A r \in Q : RecordEnd(r) <= w
       PROVE  at[n] + 2 > E /\ \A r \in Q : r.offset \in Stops(data)
  <2>1. ASSUME NEW r \in Q
        PROVE  /\ r.offset \in T /\ r.offset \in Nat /\ r.offset < w /\ RecordAt(data, r.offset)
               /\ r.offset + 2 + data[r.offset + 2] = RecordEnd(r) /\ RecordEnd(r) \in T
               /\ RecordEnd(r) > r.offset
    <3>1. PICK p : p = r.offset
      OBVIOUS
    <3>2. PICK L : L = Len(Body[r.block])
      OBVIOUS
    <3>3. PICK e : e = RecordEnd(r)
      OBVIOUS
    <3>4. /\ p \in Nat /\ L \in Nat /\ e = p + 3 + L /\ e <= w
          /\ p < w => word(file, p, key) = Magic
          /\ p + 1 < w => word(file, p + 1, key) = 1 + L
      BY <1>18, <3>1, <3>2, <3>3, RecordWords
    <3>5. /\ p \in 0..(E - 1) /\ p + 1 \in 0..(E - 1) /\ (p + 1) + 1 = p + 2 /\ p < w /\ p + 1 < w
          /\ p + 2 <= E /\ 1 + L \in 1..(E - p - 2) /\ p + 2 + (1 + L) = e /\ e \in 0..E /\ p \in 0..E
      BY ONLY <1>1, <1>18, <3>4
    <3>6. \A o \in 0..(E - 1) : data[o + 1] = word(file, o, key)
      BY <1>1, DataFacts
    <3>7. data[p + 1] = Magic /\ data[p + 2] = 1 + L
      BY ONLY <3>4, <3>5, <3>6
    <3>8. RecordAt(data, p)
      BY <1>1, <3>5, <3>7, CellAssumption DEF RecordAt, is_known_network_magic
    <3>9. p \in T
      BY <1>7, <3>1, <3>5 DEF Positions
    <3>10. e \in T
      <4>1. e >= w \/ \E q \in Q : q.offset = e
        BY <3>3 DEF Decoded
      <4> QED BY <1>7, <3>5, <4>1 DEF Positions
    <3>11. e > p
      BY ONLY <3>4
    <3> QED BY <3>1, <3>3, <3>4, <3>5, <3>7, <3>8, <3>9, <3>10, <3>11
  <2>2. at[n] + 2 > E
    <3>1. n \in 0..n /\ at[n] \in T /\ at[n] \in 0..E
      <4>1. n \in 0..n
        BY ONLY <1>12
      <4> QED BY ONLY <1>8, <1>14, <4>1
    <3>2. CASE at[n] >= w
      BY <1>1, <1>18, <3>1, <3>2
    <3>3. CASE \E r \in Q : r.offset = at[n]
      <4>1. RecordAt(data, at[n])
        BY <2>1, <3>3
      <4>2. G[at[n]] >= at[n] + 3
        BY <1>6, <3>1, <4>1
      <4>3. PICK u : u = at[n]
        OBVIOUS
      <4>4. u \in Nat /\ u >= u + 3
        BY <1>12, <3>1, <4>2, <4>3
      <4> QED BY ONLY <4>4
    <3> QED BY <1>7, <3>1, <3>2, <3>3 DEF Positions
  <2>3. PICK P : P = {at[i] : i \in 0..n}
    OBVIOUS
  <2>4. 0 \in P
    <3>1. PICK r \in Q : r.offset = 0
      BY DEF Decoded
    <3>2. 0 < w
      BY <2>1, <3>1
    <3>3. x = 0
      BY <1>3, <1>7, <1>8, <3>2, PositionFacts
    <3>4. 0 \in 0..n /\ at[0] = x
      BY <1>12 DEF Loop
    <3> QED BY <2>3, <3>3, <3>4
  <2>5. \A p \in P : G[p] \in P
    BY <1>12, <2>3
  <2>6. ASSUME NEW r \in Q, r.offset \in P, RecordEnd(r) # w PROVE RecordEnd(r) \in P
    <3>1. PICK p : p = r.offset
      OBVIOUS
    <3>2. PICK e : e = RecordEnd(r)
      OBVIOUS
    <3>3. p \in 0..E /\ RecordAt(data, p) /\ p + 2 + data[p + 2] = e /\ e \in T
      BY <1>8, <2>1, <3>1, <3>2
    <3>4. G[p] = skip_zeros(data, e)
      BY <1>6, <3>3
    <3>5. e < w
      <4>1. e \in Nat /\ e <= w /\ e # w
        BY <1>8, <1>18, <2>6, <3>2, <3>3
      <4> QED BY ONLY <1>1, <4>1
    <3>6. skip_zeros(data, e) = e
      BY <1>7, <3>3, <3>5, PositionFacts
    <3> QED BY <2>5, <2>6, <3>1, <3>2, <3>4, <3>6
  <2>7. \A r \in Q : r.offset \in P
    <3> SUFFICES ASSUME NEW r \in Q, r.offset \notin P PROVE FALSE
      OBVIOUS
    <3>1. PICK S : S = {q.offset : q \in {q \in Q : q.offset \notin P}}
      OBVIOUS
    <3>2. S \subseteq Nat /\ S # {}
      BY <2>1, <3>1
    <3>3. PICK u \in S : \A y \in S : u <= y
      BY <3>2, LeastElement
    <3>4. PICK q \in Q : q.offset = u /\ q.offset \notin P
      BY <3>1, <3>3
    <3>5. PICK s \in Q : RecordEnd(s) = q.offset
      BY <2>4, <3>4 DEF Decoded
    <3>6. s.offset \in Nat /\ s.offset < u /\ u \in Nat /\ u < w
      BY <2>1, <3>4, <3>5
    <3>7. s.offset \in P
      <4> SUFFICES ASSUME s.offset \notin P PROVE FALSE
        OBVIOUS
      <4>1. u <= s.offset
        BY <3>1, <3>3, <3>5
      <4> QED BY ONLY <3>6, <4>1
    <3>8. RecordEnd(s) # w
      BY <1>1, <3>4, <3>5, <3>6
    <3> QED BY <2>6, <3>4, <3>5, <3>7, <3>8
  <2> QED BY <1>15, <2>1, <2>2, <2>3, <2>7
<1> QED BY <1>7, <1>16, <1>17, <1>18

\* The cells read of a block, of which the last n may be missing.
Agrees(cells, whole, n) ==
  Len(cells) = Len(whole) /\ \A i \in 1..(Len(whole) - n) : cells[i] = whole[i]

\* What is found in a file, and what is read at a place found in it.
Found(data, w, Q) ==
  /\ \A rec \in records_of(data).recs :
       /\ rec.header \in Nat
       /\ rec.header \in Block => \E r \in Q : /\ r.offset = rec.offset /\ r.block = rec.header
                                               /\ rec.len = Len(RecordCells(r.block))
                                               /\ r.offset + 2 < w /\ RecordEnd(r) <= Len(data)
  /\ (\A r \in Q : RecordEnd(r) <= w) =>
       /\ records_of(data).ok
       /\ {rec.header : rec \in records_of(data).recs} = {r.block : r \in Q}
  /\ \A r \in Q : RecordEnd(r) <= w => RecordEnd(r) <= Len(data)
  /\ \A r \in Q, n \in Nat : \A loc :
       /\ RecordEnd(r) <= Len(data) /\ RecordEnd(r) <= w + n
       /\ loc.offset = r.offset /\ loc.len = Len(RecordCells(r.block))
       => Agrees(block_bytes(data, loc), <<r.block>> \o Body[r.block], n)

\* What the walk and the iterator find in a file of which w cells are written.
LEMMA ScanFacts ==
  ASSUME NEW file, NEW key, NEW w, NEW Q, Decoded(file, key, w, Q),
         NEW data, data = xor_decode(file, key, record_walk_end(file, key))
  PROVE  Found(data, w, Q) /\ Len(data) = record_walk_end(file, key) /\ Len(data) \in 0..Len(file)
<1>1. PICK E : E = record_walk_end(file, key)
  OBVIOUS
<1>2. /\ E \in 0..Len(file) /\ (\A r \in Q : RecordEnd(r) <= w => RecordEnd(r) <= E)
      /\ (\A r \in Q : RecordEnd(r) <= w) => E = w
  BY <1>1, WalkFacts
<1>3. data = xor_decode(file, key, E)
  BY <1>1
<1>4. w \in Nat /\ E \in Nat /\ E <= Len(file) /\ Len(data) = E
      /\ \A o \in 0..(E - 1) : data[o + 1] = word(file, o, key)
  <2>1. Len(file) \in Nat /\ w \in Nat
    BY DEF Decoded
  <2>2. E \in Nat /\ E <= Len(file)
    BY ONLY <1>2, <2>1
  <2> QED BY <1>3, <2>1, <2>2, DataFacts
<1>5. PICK S : S = Stops(data)
  OBVIOUS
<1>6. /\ S \subseteq Positions(E, w, Q) /\ \A p \in S : RecordAt(data, p)
      /\ records_of(data).recs = {BlkRecord(p, data[p + 2], data[p + 3]) : p \in S}
      /\ (E = w /\ \A r \in Q : RecordEnd(r) <= w) =>
           records_of(data).ok /\ \A r \in Q : r.offset \in S
  BY <1>2, <1>3, <1>5, StopFacts
<1>7. ASSUME NEW p \in S
      PROVE  \E r \in Q : /\ r.offset = p /\ p \in Nat /\ p < w
                          /\ p + 1 < w => data[p + 2] = 1 + Len(Body[r.block])
                          /\ p + 2 < w => data[p + 3] = r.block
                          /\ p + 2 >= w => data[p + 3] \in Nat \ Block
  <2>1. p \in Positions(E, w, Q) /\ RecordAt(data, p) /\ p \in Nat
    BY <1>4, <1>6 DEF Positions
  <2> QED BY <1>2, <1>3, <2>1, PositionFacts
<1>8. ASSUME NEW rec \in records_of(data).recs
      PROVE  /\ rec.header \in Nat
             /\ rec.header \in Block => \E r \in Q : /\ r.offset = rec.offset /\ r.block = rec.header
                                                     /\ rec.len = Len(RecordCells(r.block))
                                                     /\ r.offset + 2 < w /\ RecordEnd(r) <= Len(data)
  <2>1. PICK p \in S : rec = BlkRecord(p, data[p + 2], data[p + 3])
    BY <1>6
  <2>2. rec.offset = p /\ rec.len = 2 + data[p + 2] /\ rec.header = data[p + 3]
    BY <2>1 DEF BlkRecord
  <2>3. PICK r \in Q : /\ r.offset = p /\ p \in Nat /\ p < w
                       /\ p + 1 < w => data[p + 2] = 1 + Len(Body[r.block])
                       /\ p + 2 < w => data[p + 3] = r.block
                       /\ p + 2 >= w => data[p + 3] \in Nat \ Block
    BY <1>7
  <2>4. r.block \in Block /\ r.block \in Nat /\ Len(Body[r.block]) \in Nat
        /\ Len(RecordCells(r.block)) = 3 + Len(Body[r.block])
    <3>1. r.block \in Block
      BY RecordWords
    <3> QED BY <3>1, RecordFacts, BlockFacts
  <2>5. CASE p + 2 < w
    <3>1. p + 1 < w
      BY ONLY <1>4, <2>3, <2>5
    <3>2. data[p + 2] = 1 + Len(Body[r.block]) /\ data[p + 3] = r.block
      BY <2>3, <2>5, <3>1
    <3>3. PICK L : L = Len(Body[r.block])
      OBVIOUS
    <3>4. 2 + (1 + L) = 3 + L
      BY <2>4, <3>3
    <3>5. rec.len = Len(RecordCells(r.block))
      BY ONLY <2>2, <2>4, <3>2, <3>3, <3>4
    <3>6. RecordEnd(r) <= Len(data)
      <4>1. data[p + 2] \in 1..(E - p - 2)
        BY <1>4, <1>6, <2>1 DEF RecordAt
      <4>2. RecordEnd(r) = p + (3 + L)
        BY <2>3, <2>4, <3>3 DEF RecordEnd
      <4> QED BY ONLY <1>4, <2>3, <2>4, <3>2, <3>3, <4>1, <4>2
    <3> QED BY <2>2, <2>3, <2>4, <2>5, <3>2, <3>5, <3>6
  <2>6. CASE ~(p + 2 < w)
    <3>1. p + 2 >= w
      BY ONLY <1>4, <2>3, <2>6
    <3> QED BY <2>2, <2>3, <3>1
  <2> QED BY <2>5, <2>6
<1>9. ASSUME \A r \in Q : RecordEnd(r) <= w
      PROVE  /\ records_of(data).ok
             /\ {rec.header : rec \in records_of(data).recs} = {r.block : r \in Q}
  <2>1. E = w /\ records_of(data).ok /\ \A r \in Q : r.offset \in S
    BY <1>2, <1>6, <1>9
  <2>2. ASSUME NEW r \in Q
        PROVE  r.offset + 2 < w /\ r.offset + 2 \in 0..(E - 1) /\ (r.offset + 2) + 1 = r.offset + 3
               /\ data[r.offset + 3] = r.block
    <3>1. PICK p : p = r.offset
      OBVIOUS
    <3>2. PICK e : e = RecordEnd(r)
      OBVIOUS
    <3>3. PICK L : L = Len(Body[r.block])
      OBVIOUS
    <3>4. /\ p \in Nat /\ L \in Nat /\ e = p + 3 + L /\ e <= w
          /\ p + 2 < w => word(file, p + 2, key) = r.block
      BY <1>9, <3>1, <3>2, <3>3, RecordWords
    <3>5. p + 2 < w /\ p + 2 \in 0..(E - 1) /\ (p + 2) + 1 = p + 3
      BY ONLY <1>4, <2>1, <3>4
    <3>6. data[p + 3] = r.block
      BY ONLY <1>4, <3>4, <3>5
    <3> QED BY <3>1, <3>5, <3>6
  <2>3. {rec.header : rec \in records_of(data).recs} = {data[p + 3] : p \in S}
    <3>1. \A p \in S : BlkRecord(p, data[p + 2], data[p + 3]).header = data[p + 3]
      BY DEF BlkRecord
    <3> QED BY <1>6, <3>1
  <2>4. {data[p + 3] : p \in S} = {r.block : r \in Q}
    <3>1. \A p \in S : \E r \in Q : r.offset = p
      BY <1>7
    <3>2. \A p \in S : \E r \in Q : data[p + 3] = r.block
      BY <2>2, <3>1
    <3>3. \A r \in Q : \E p \in S : data[p + 3] = r.block
      BY <2>1, <2>2
    <3> QED BY <3>2, <3>3
  <2> QED BY <2>1, <2>3, <2>4
<1>10. ASSUME NEW r \in Q, NEW n \in Nat, NEW loc, RecordEnd(r) <= Len(data), RecordEnd(r) <= w + n,
              loc.offset = r.offset, loc.len = Len(RecordCells(r.block))
       PROVE  Agrees(block_bytes(data, loc), <<r.block>> \o Body[r.block], n)
  <2>1. PICK p : p = r.offset
    OBVIOUS
  <2>2. PICK e : e = RecordEnd(r)
    OBVIOUS
  <2>3. PICK L : L = Len(Body[r.block])
    OBVIOUS
  <2>4. PICK b : b = r.block
    OBVIOUS
  <2>5. /\ p \in Nat /\ L \in Nat /\ e = p + 3 + L /\ e <= w + n /\ b \in Block
        /\ p + 2 < w => word(file, p + 2, key) = b
        /\ \A k \in 1..L : p + 2 + k < w => word(file, p + 2 + k, key) = Body[b][k]
    BY <1>10, <2>1, <2>2, <2>3, <2>4, RecordWords
  <2>6. e <= E
    BY <1>4, <1>10, <2>2
  <2>7. loc.len = 3 + L
    BY <1>10, <2>3, <2>4, <2>5, RecordFacts
  <2>8. p + (3 + L) = e /\ ~(e > E)
    BY ONLY <1>4, <2>5, <2>6
  <2>9. block_bytes(data, loc) = SubSeq(data, p + 3, e)
    BY ONLY <1>4, <1>10, <2>1, <2>7, <2>8 DEF block_bytes
  <2>10. PICK s : s = <<b>> \o Body[b]
    OBVIOUS
  <2>11. Body[b] \in Seq(Nat) /\ b \in Nat /\ Len(Body[b]) = L
    BY <2>3, <2>4, <2>5, BlockAssumption
  <2>12. s \in Seq(Nat) /\ Len(s) = 1 + L /\ s[1] = b /\ \A k \in 1..L : s[k + 1] = Body[b][k]
    BY ONLY <2>5, <2>10, <2>11
  <2>13. \A i \in 1..(1 + L - n) : data[p + 2 + i] = s[i]
    <3> TAKE i \in 1..(1 + L - n)
    <3>1. CASE i = 1
      <4>1. p + 2 \in 0..(E - 1) /\ p + 2 < w /\ (p + 2) + 1 = p + 2 + i
        BY ONLY <1>4, <2>5, <2>6, <3>1, n \in Nat, i \in 1..(1 + L - n)
      <4> QED BY ONLY <1>4, <2>5, <2>12, <3>1, <4>1
    <3>2. CASE i # 1
      <4>1. PICK k : k = i - 1
        OBVIOUS
      <4>2. /\ k \in 1..L /\ p + 2 + k \in 0..(E - 1) /\ p + 2 + k < w
            /\ (p + 2 + k) + 1 = p + 2 + i /\ k + 1 = i
        <5>1. /\ p \in Nat /\ L \in Nat /\ w \in Nat /\ E \in Nat /\ n \in Nat
              /\ p + 3 + L <= w + n /\ p + 3 + L <= E
          BY ONLY <1>4, <2>5, <2>6, n \in Nat
        <5>2. i \in Nat /\ i > 1 /\ i <= 1 + L - n
          BY ONLY <3>2, <5>1, i \in 1..(1 + L - n)
        <5> QED BY ONLY <4>1, <5>1, <5>2
      <4>3. data[(p + 2 + k) + 1] = Body[b][k]
        BY ONLY <1>4, <2>5, <4>2
      <4>4. s[k + 1] = Body[b][k]
        BY ONLY <2>12, <4>2
      <4> QED BY ONLY <4>2, <4>3, <4>4
    <3> QED BY <3>1, <3>2
  <2>14. PICK t : t = SubSeq(data, p + 3, e)
    OBVIOUS
  <2>15. t = [i \in 1..(1 + L) |-> data[p + 2 + i]]
    <3>1. PICK C : C = {data[i] : i \in 1..E}
      OBVIOUS
    <3>2. data = [i \in 1..E |-> data[i]]
      BY <1>3 DEF xor_decode
    <3>3. data \in Seq(C)
      <4>1. data \in [1..E -> C]
        BY ONLY <3>1, <3>2
      <4> QED BY ONLY <1>4, <4>1
    <3>4. PICK m : m = p + 3
      OBVIOUS
    <3>5. m \in 1..(Len(data) + 1) /\ e \in (m - 1)..Len(data) /\ e - m + 1 = 1 + L
      BY ONLY <1>4, <2>5, <2>6, <3>4
    <3>6. t \in Seq(C) /\ Len(t) = 1 + L /\ \A i \in 1..(1 + L) : t[i] = data[m + i - 1]
      BY ONLY <2>14, <3>3, <3>4, <3>5, SubSeqProperties
    <3>7. \A i \in 1..(1 + L) : m + i - 1 = p + 2 + i
      BY ONLY <2>5, <3>4
    <3>8. t = [i \in 1..(1 + L) |-> t[i]]
      BY ONLY <2>5, <3>6
    <3> QED BY ONLY <3>6, <3>7, <3>8
  <2>16. Len(t) = Len(s) /\ \A i \in 1..(Len(s) - n) : t[i] = s[i]
    <3>1. Len(t) = 1 + L
      BY ONLY <2>5, <2>15
    <3>2. \A i \in 1..(1 + L - n) : i \in 1..(1 + L)
      BY ONLY <2>5, n \in Nat
    <3>3. \A i \in 1..(1 + L) : t[i] = data[p + 2 + i]
      BY ONLY <2>15
    <3>4. Len(t) = Len(s) /\ Len(s) - n = 1 + L - n
      BY ONLY <2>5, <2>12, <3>1, n \in Nat
    <3>5. \A i \in 1..(1 + L - n) : t[i] = s[i]
      BY ONLY <2>13, <3>2, <3>3
    <3> QED BY ONLY <3>4, <3>5
  <2> QED BY ONLY <2>4, <2>9, <2>10, <2>14, <2>16 DEF Agrees
<1>11. \A r \in Q : RecordEnd(r) <= w => RecordEnd(r) <= Len(data)
  BY <1>2, <1>4
<1>12. Len(data) = record_walk_end(file, key) /\ Len(data) \in 0..Len(file)
  BY <1>1, <1>2, <1>4
<1>13. Found(data, w, Q)
  BY ONLY <1>8, <1>9, <1>10, <1>11 DEF Found
<1> QED BY ONLY <1>12, <1>13

-----------------------------------------------------------------------------
(* The pass over the files. *)

\* A record that can be read: it is whole, or it has its header in a
\* preallocated file that is long enough for it.
Legible(r) ==
  r \in Complete \/ /\ node.padded /\ Len(pending) <= Len(Body[r.block])
                    /\ RecordEnd(r) <= Len(raw[r.file])

Missing(r) == IF r \in Complete THEN 0 ELSE Len(pending)

\* A file that is not preallocated ends where the node has written to.
PlainInv ==
  ~node.padded /\ records # <<>> => Len(raw[Len(raw)]) = RecordEnd(Last(records)) - Len(pending)

\* What is found in file f, whose records are Q, and read from it.
OpenFound(f, Q) ==
  /\ \A rec \in records_of(open(raw[f])).recs :
       /\ rec.header \in Nat
       /\ rec.header \in Block => \E r \in Q : /\ r.offset = rec.offset /\ r.block = rec.header
                                               /\ rec.len = Len(RecordCells(r.block))
                                               /\ Legible(r)
  /\ pending = <<>> =>
       /\ records_of(open(raw[f])).ok
       /\ {rec.header : rec \in records_of(open(raw[f])).recs} = {r.block : r \in Q}
  /\ \A r \in Q : \A loc : /\ Legible(r)
                            /\ loc.offset = r.offset /\ loc.len = Len(RecordCells(r.block))
       => Agrees(block_bytes(open(raw[f]), loc), <<r.block>> \o Body[r.block], Missing(r))

\* The same for a file of the node as it is now.
LEMMA OpenFacts ==
  ASSUME NodeInv, PlainInv, NEW f \in 1..Len(raw), NEW Q, Q = {r \in ToSet(records) : r.file = f}
  PROVE  OpenFound(f, Q)
<1>1. PICK R : R = ToSet(records)
  OBVIOUS
<1>2. PICK cur : cur = Last(records)
  OBVIOUS
<1>3. PICK m : m = Len(pending)
  OBVIOUS
<1>4. PICK w : w = Written(raw, cur, m, f)
  OBVIOUS
<1>5. node \in Setups /\ Files(node, raw, R, Complete, cur, m) /\ (pending = <<>> => m = 0)
  BY <1>1, <1>2, <1>3 DEF NodeInv
<1>6. FileInv(node, raw[f], w, Q)
  BY <1>1, <1>4, <1>5 DEF Files
<1>7. \A r \in Q : r \in Complete => RecordEnd(r) <= w
  BY <1>1, <1>4, <1>5 DEF Files
<1>8. pending = <<>> => \A r \in Q : r \in Complete
  BY <1>1, <1>5 DEF Files
<1>9. PICK key : key = read_xor_key(node.xor)
  OBVIOUS
<1>10. Decoded(raw[f], key, w, Q)
  BY ONLY <1>5, <1>6, <1>9, DecodeFacts
<1>11. PICK data : data = open(raw[f])
  OBVIOUS
<1>12. data = xor_decode(raw[f], key, record_walk_end(raw[f], key))
  BY <1>9, <1>11 DEF open
<1>13. PICK file : file = raw[f]
  OBVIOUS
<1>14. /\ Found(data, w, Q) /\ Decoded(file, key, w, Q)
       /\ Len(data) = record_walk_end(file, key) /\ Len(data) \in 0..Len(file)
  <2>1. Decoded(file, key, w, Q) /\ data = xor_decode(file, key, record_walk_end(file, key))
    BY ONLY <1>10, <1>12, <1>13
  <2> QED BY ONLY <2>1, ScanFacts
<1>15. w \in Nat /\ Len(file) \in Nat /\ w <= Len(file) /\ m \in Nat /\ Len(raw) \in Nat
  BY <1>5, <1>14 DEF Decoded, Files
<1>16. ASSUME NEW r \in Q, r \notin Complete
       PROVE  /\ r = cur /\ f = Len(raw) /\ m > 0 /\ w = RecordEnd(r) - m /\ RecordEnd(r) > w
              /\ r.offset \in Nat /\ RecordEnd(r) = r.offset + 3 + Len(Body[r.block])
              /\ RecordEnd(r) \in Nat /\ Len(Body[r.block]) \in Nat
  <2>1. r = cur /\ m # 0 /\ r.file = Len(raw) /\ r \in ToSet(records)
    BY <1>1, <1>5, <1>16 DEF Files
  <2>2. f = Len(raw) /\ w = RecordEnd(r) - m
    BY <1>4, <2>1 DEF Written
  <2>3. r.offset \in Nat /\ RecordEnd(r) = r.offset + 3 + Len(Body[r.block])
        /\ RecordEnd(r) \in Nat /\ Len(Body[r.block]) \in Nat
    BY <1>14, RecordWords
  <2> QED BY ONLY <1>15, <2>1, <2>2, <2>3
<1>17. ASSUME NEW r \in Q, r.offset + 2 < w, RecordEnd(r) <= Len(data)
       PROVE  Legible(r)
  <2> SUFFICES ASSUME r \notin Complete
               PROVE  /\ node.padded /\ Len(pending) <= Len(Body[r.block])
                      /\ RecordEnd(r) <= Len(raw[r.file])
    BY DEF Legible
  <2>1. /\ r = cur /\ f = Len(raw) /\ m > 0 /\ w = RecordEnd(r) - m /\ RecordEnd(r) > w
        /\ r.offset \in Nat /\ RecordEnd(r) = r.offset + 3 + Len(Body[r.block])
        /\ RecordEnd(r) \in Nat /\ Len(Body[r.block]) \in Nat
    BY <1>16
  <2>2. RecordEnd(r) <= Len(file)
    BY ONLY <1>14, <1>15, <1>17, <2>1
  <2>3. m <= Len(Body[r.block])
    <3>1. PICK a : a = r.offset
      OBVIOUS
    <3>2. PICK L : L = Len(Body[r.block])
      OBVIOUS
    <3>3. a \in Nat /\ L \in Nat /\ w = (a + 3 + L) - m /\ a + 2 < w
      BY ONLY <1>17, <2>1, <3>1, <3>2
    <3>4. m <= L
      BY ONLY <1>15, <3>3
    <3> QED BY <3>2, <3>4
  <2>4. node.padded
    <3> SUFFICES ASSUME ~node.padded PROVE FALSE
      OBVIOUS
    <3>1. records # <<>>
      BY <2>1, <1>15, <1>3 DEF NodeInv
    <3>2. Len(file) = w
      BY <1>2, <1>3, <1>13, <2>1, <3>1 DEF PlainInv
    <3> QED BY ONLY <1>15, <2>1, <2>2, <3>2
  <2>5. r.file = f
    OBVIOUS
  <2> QED BY <1>3, <1>13, <2>2, <2>3, <2>4, <2>5
<1>18. ASSUME NEW r \in Q, Legible(r)
       PROVE  RecordEnd(r) <= Len(data) /\ Missing(r) \in Nat /\ RecordEnd(r) <= w + Missing(r)
  <2>1. CASE r \in Complete
    <3>1. RecordEnd(r) <= w /\ RecordEnd(r) <= Len(data) /\ Missing(r) = 0
      BY <1>7, <1>14, <2>1 DEF Found, Missing
    <3> QED BY ONLY <1>15, <3>1
  <2>2. CASE r \notin Complete
    <3>1. /\ r = cur /\ f = Len(raw) /\ m > 0 /\ w = RecordEnd(r) - m /\ RecordEnd(r) > w
          /\ r.offset \in Nat /\ RecordEnd(r) = r.offset + 3 + Len(Body[r.block])
          /\ RecordEnd(r) \in Nat /\ Len(Body[r.block]) \in Nat
      BY <1>16, <2>2
    <3>2. m <= Len(Body[r.block]) /\ RecordEnd(r) <= Len(file) /\ Missing(r) = m
      BY <1>3, <1>13, <1>18, <2>2 DEF Legible, Missing
    <3>3. r.offset + 2 < w
      <4>1. PICK a : a = r.offset
        OBVIOUS
      <4>2. PICK L : L = Len(Body[r.block])
        OBVIOUS
      <4>3. a \in Nat /\ L \in Nat /\ w = (a + 3 + L) - m /\ m <= L
        BY ONLY <3>1, <3>2, <4>1, <4>2
      <4>4. a + 2 < w
        BY ONLY <1>15, <4>3
      <4> QED BY <4>1, <4>4
    <3>4. \A q \in Q : RecordEnd(q) > w => q = r
      <4> SUFFICES ASSUME NEW q \in Q, q # r PROVE ~(RecordEnd(q) > w)
        OBVIOUS
      <4>1. q \in Complete
        BY <1>16, <3>1
      <4>2. RecordEnd(q) <= w /\ RecordEnd(q) \in Nat
        BY <1>7, <1>14, <4>1, RecordWords
      <4> QED BY ONLY <1>15, <4>2
    <3>5. RecordEnd(r) <= Len(data)
      BY ONLY <1>14, <3>1, <3>2, <3>3, <3>4, r \in Q, WalkPast
    <3> QED BY ONLY <1>15, <3>1, <3>2, <3>5
  <2> QED BY <2>1, <2>2
<1>19. \A rec \in records_of(data).recs :
         /\ rec.header \in Nat
         /\ rec.header \in Block => \E r \in Q : /\ r.offset = rec.offset /\ r.block = rec.header
                                                 /\ rec.len = Len(RecordCells(r.block))
                                                 /\ Legible(r)
  BY ONLY <1>14, <1>17 DEF Found
<1>20. pending = <<>> => /\ records_of(data).ok
                         /\ {rec.header : rec \in records_of(data).recs} = {r.block : r \in Q}
  BY ONLY <1>7, <1>8, <1>14 DEF Found
<1>21. \A r \in Q : \A loc : /\ Legible(r)
                             /\ loc.offset = r.offset /\ loc.len = Len(RecordCells(r.block))
         => Agrees(block_bytes(data, loc), <<r.block>> \o Body[r.block], Missing(r))
  BY ONLY <1>14, <1>18 DEF Found
<1> QED BY ONLY <1>11, <1>19, <1>20, <1>21 DEF OpenFound

\* The header map holds the place of a record of each block in it.
PlaceInv ==
  /\ DOMAIN headers \subseteq Nat
  /\ \A h \in DOMAIN headers : h \in Block =>
       \E r \in ToSet(records) : /\ r.block = h /\ r.file = headers[h].file
                                 /\ r.offset = headers[h].offset
                                 /\ headers[h].len = Len(RecordCells(h))
                                 /\ Legible(r)

\* The first of the records found with a header.
LEMMA FirstFacts ==
  ASSUME NEW map, NEW f, NEW recs, NEW h \in {r.header : r \in recs}, h \notin DOMAIN map,
         \A r \in recs : r.header = h => r.offset \in Nat
  PROVE  \E r \in recs : r.header = h /\ FirstSeen(map, f, recs)[h] = BlockLocation(f, r)
<1> DEFINE First(r) == r.header = h /\ \A q \in recs : q.header = h => r.offset <= q.offset
<1>1. PICK S : S = {r.offset : r \in {r \in recs : r.header = h}}
  OBVIOUS
<1>2. S \subseteq Nat /\ S # {}
  BY <1>1
<1>3. PICK u \in S : \A y \in S : u <= y
  BY <1>2, LeastElement
<1>4. PICK r \in recs : r.header = h /\ u = r.offset
  BY <1>1, <1>3
<1>5. First(r)
  BY <1>1, <1>3, <1>4
<1>6. PICK c : c = CHOOSE q \in recs : First(q)
  OBVIOUS
<1>7. c \in recs /\ First(c)
  BY <1>4, <1>5, <1>6
<1>8. FirstSeen(map, f, recs)[h] = BlockLocation(f, c)
  BY <1>6 DEF FirstSeen
<1> QED BY <1>7, <1>8

\* The places of one more file enter the header map.
LEMMA PlaceScan ==
  ASSUME NodeInv, PlainInv, PlaceInv, ScanFile, nfiles <= Len(raw), scanned \in Nat, nfiles \in Nat
  PROVE  PlaceInv'
<1>1. PICK f : f = scanned + 1
  OBVIOUS
<1>2. PICK recs : recs = records_of(open(raw[f])).recs
  OBVIOUS
<1>3. headers' = FirstSeen(headers, f, recs) /\ records' = records /\ scanned < nfiles
      /\ UNCHANGED <<node, raw, pending>>
  BY <1>1, <1>2 DEF ScanFile, nodeVars
<1>4. f \in 1..Len(raw)
  <2>1. Len(raw) \in Nat
    BY DEF NodeInv, Files
  <2> QED BY <1>1, <1>3, <2>1
<1>5. PICK Q : Q = {r \in ToSet(records) : r.file = f}
  OBVIOUS
<1>6. \A rec \in recs :
        /\ rec.header \in Nat
        /\ rec.header \in Block => \E r \in Q : /\ r.offset = rec.offset /\ r.block = rec.header
                                                /\ rec.len = Len(RecordCells(r.block))
                                                /\ Legible(r)
  <2>1. OpenFound(f, Q)
    BY ONLY NodeInv, PlainInv, <1>4, <1>5, OpenFacts
  <2> QED BY ONLY <1>2, <2>1 DEF OpenFound
<1>7. ToSet(records) \subseteq Record
  BY DEF NodeInv, Files
<1>8. DOMAIN headers' = DOMAIN headers \cup {r.header : r \in recs}
      /\ \A h \in DOMAIN headers : headers'[h] = headers[h]
  BY <1>3 DEF FirstSeen
<1>9. DOMAIN headers' \subseteq Nat
  BY <1>6, <1>8 DEF PlaceInv
<1>10. ASSUME NEW h \in DOMAIN headers', h \in Block
       PROVE  \E r \in ToSet(records) : /\ r.block = h /\ r.file = headers'[h].file
                                        /\ r.offset = headers'[h].offset
                                        /\ headers'[h].len = Len(RecordCells(h))
                                        /\ Legible(r)
  <2>1. CASE h \in DOMAIN headers
    BY <1>8, <1>10, <2>1 DEF PlaceInv
  <2>2. CASE h \notin DOMAIN headers
    <3>1. h \in {r.header : r \in recs}
      BY <1>8, <2>2
    <3>2. \A rec \in recs : rec.header = h => rec.offset \in Nat
      <4> SUFFICES ASSUME NEW rec \in recs, rec.header = h PROVE rec.offset \in Nat
        OBVIOUS
      <4>1. PICK r \in Q : r.offset = rec.offset
        BY <1>6, <1>10
      <4>2. r \in Record
        BY <1>5, <1>7
      <4> QED BY <4>1, <4>2, EndFacts
    <3>3. PICK rec \in recs : rec.header = h /\ headers'[h] = BlockLocation(f, rec)
      BY <1>3, <2>2, <3>1, <3>2, FirstFacts
    <3>4. PICK r \in Q : r.offset = rec.offset /\ r.block = h /\ rec.len = Len(RecordCells(h))
                        /\ Legible(r)
      BY <1>6, <1>10, <3>3
    <3>5. headers'[h].file = f /\ headers'[h].offset = rec.offset /\ headers'[h].len = rec.len
      BY <3>3 DEF BlockLocation
    <3> QED BY <1>5, <3>4, <3>5
  <2> QED BY <2>1, <2>2
<1>11. \A r : Legible(r)' <=> Legible(r)
  BY <1>3 DEF Legible, Complete, RecordEnd, RecordCells
<1> QED BY <1>3, <1>9, <1>10, <1>11 DEF PlaceInv

-----------------------------------------------------------------------------
(* The chain among the headers. *)

\* A header whose parent is among the headers is that of a block, as is the parent.
LEMMA ParentFacts ==
  ASSUME NEW D, D \subseteq Nat, NEW h \in D
  PROVE  /\ prev_hash(h) \in D => h \in Block /\ prev_hash(h) \in Block
         /\ h \in Block => prev_hash(h) = Parent[h]
         /\ NoHash \notin D
<1>1. NoHash \notin Nat /\ Unknown \notin Nat
  BY DEF NoHash, Unknown
<1> QED BY <1>1, BlockFacts DEF prev_hash

\* The headers of the map have a rank, those that are no block the lowest.
LEMMA HeaderRank ==
  ASSUME NEW D, D \subseteq Nat, NEW par, par = [h \in D |-> prev_hash(h)]
  PROVE  \E K, rank : /\ K \in Nat /\ \A h \in D : rank[h] \in 0..K /\ rank[h] \in Nat
                      /\ \A h \in D : par[h] \in D => rank[par[h]] < rank[h]
<1>1. PICK ht : Height(ht)
  BY HeightExists
<1>2. PICK K : K = Cardinality(Block)
  OBVIOUS
<1>3. PICK rank : rank = [h \in D |-> IF h \in Block THEN ht[h] ELSE 0]
  OBVIOUS
<1>4. K \in Nat /\ \A b \in Block : ht[b] \in 0..K /\ (Parent[b] \in Block => ht[Parent[b]] < ht[b])
  BY <1>1, <1>2, HeightExists DEF Height
<1>5. \A h \in D : rank[h] \in 0..K /\ rank[h] \in Nat
  BY <1>3, <1>4
<1>6. \A h \in D : par[h] \in D => rank[par[h]] < rank[h]
  <2> SUFFICES ASSUME NEW h \in D, par[h] \in D PROVE rank[par[h]] < rank[h]
    OBVIOUS
  <2>1. h \in Block /\ par[h] = Parent[h] /\ Parent[h] \in Block
    BY ParentFacts
  <2> QED BY <1>3, <1>4, <2>1
<1> QED BY <1>4, <1>5, <1>6

\* Induction over the headers of the map.
LEMMA HeaderInduction ==
  ASSUME NEW D, D \subseteq Nat, NEW T,
         \A h \in D : (prev_hash(h) \in D => prev_hash(h) \in T) => h \in T
  PROVE  D \subseteq T
<1>1. PICK par : par = [h \in D |-> prev_hash(h)]
  OBVIOUS
<1>2. PICK K, rank : /\ K \in Nat /\ \A h \in D : rank[h] \in 0..K /\ rank[h] \in Nat
                     /\ \A h \in D : par[h] \in D => rank[par[h]] < rank[h]
  BY <1>1, HeaderRank
<1>3. \A h \in D : rank[h] \in Nat
  BY <1>2
<1>4. \A h \in D : par[h] \in D => rank[par[h]] < rank[h]
  BY <1>2
<1>5. \A h \in D : (par[h] \in D => par[h] \in T) => h \in T
  BY <1>1
<1> QED BY ONLY <1>3, <1>4, <1>5, TreeInduction

HeaderFunction(g, D, A, G) ==
  /\ g = [h \in D |-> g[h]]
  /\ \A h \in D : g[h] = IF prev_hash(h) \in D THEN G[h][g[prev_hash(h)]] ELSE A[h]

\* The recursions over the headers have solutions.
LEMMA HeaderRecursion ==
  ASSUME NEW D, D \subseteq Nat, NEW A, NEW G
  PROVE  \E g : HeaderFunction(g, D, A, G)
<1>1. PICK par : par = [h \in D |-> prev_hash(h)]
  OBVIOUS
<1>2. PICK K, rank : /\ K \in Nat /\ \A h \in D : rank[h] \in 0..K /\ rank[h] \in Nat
                     /\ \A h \in D : par[h] \in D => rank[par[h]] < rank[h]
  BY <1>1, HeaderRank
<1>3. \A h \in D : rank[h] \in 0..K
  BY <1>2
<1>4. \A h \in D : par[h] \in D => rank[par[h]] < rank[h]
  BY <1>2
<1>5. K \in Nat
  BY <1>2
<1>6. PICK g : TreeFunction(g, D, par, A, G)
  BY ONLY <1>3, <1>4, <1>5, TreeRecursion
<1>7. HeaderFunction(g, D, A, G)
  BY <1>1, <1>6 DEF TreeFunction, HeaderFunction
<1> QED BY <1>7

\* walk_back satisfies its definition, and gives headers of the map.
LEMMA WalkBackRec ==
  ASSUME NEW D, D = DOMAIN headers, D \subseteq Nat
  PROVE  \A h \in D : /\ walk_back[h] \in Seq(D)
                      /\ walk_back[h] = IF prev_hash(h) \in D THEN Append(walk_back[prev_hash(h)], h)
                                        ELSE <<h>>
<1> DEFINE A == [h \in D |-> <<h>>]
           G == [h \in D |-> [v \in Seq(D) |-> Append(v, h)]]
           R(g) == [h \in D |-> IF prev_hash(h) \in D THEN Append(g[prev_hash(h)], h) ELSE <<h>>]
<1>0. PICK g : HeaderFunction(g, D, A, G)
  <2> HIDE DEF A, G
  <2> QED BY ONLY D \subseteq Nat, HeaderRecursion
<1>1. /\ g = [h \in D |-> g[h]]
      /\ \A h \in D : g[h] = IF prev_hash(h) \in D THEN G[h][g[prev_hash(h)]] ELSE <<h>>
  BY <1>0 DEF HeaderFunction
<1>2. D \subseteq {h \in D : g[h] \in Seq(D)}
  <2> DEFINE T == {h \in D : g[h] \in Seq(D)}
  <2>1. \A h \in D : (prev_hash(h) \in D => prev_hash(h) \in T) => h \in T
    <3> SUFFICES ASSUME NEW h \in D, prev_hash(h) \in D => prev_hash(h) \in T PROVE g[h] \in Seq(D)
      OBVIOUS
    <3>1. CASE prev_hash(h) \in D
      <4>1. PICK v : v = g[prev_hash(h)]
        OBVIOUS
      <4>2. v \in Seq(D) /\ g[h] = Append(v, h)
        BY <1>1, <3>1, <4>1
      <4> QED BY <4>2
    <3>2. CASE prev_hash(h) \notin D
      <4>1. g[h] = <<h>>
        BY <1>1, <3>2
      <4>2. <<h>> \in Seq(D)
        BY ONLY h \in D
      <4> QED BY <4>1, <4>2
    <3> QED BY <3>1, <3>2
  <2> HIDE DEF T
  <2>2. D \subseteq T
    BY ONLY <2>1, HeaderInduction, D \subseteq Nat
  <2> QED BY <2>2 DEF T
<1>3. g = R(g)
  <2>1. \A h \in D : g[h] = IF prev_hash(h) \in D THEN Append(g[prev_hash(h)], h) ELSE <<h>>
    BY <1>1, <1>2
  <2> QED BY <1>1, <2>1
<1> DEFINE it == CHOOSE h : h = R(h)
<1>4. it = R(it)
  <2> HIDE DEF R
  <2> QED BY <1>3
<1>5. walk_back = it
  BY DEF walk_back
<1> HIDE DEF it
<1>6. \A h \in D : walk_back[h] = IF prev_hash(h) \in D THEN Append(walk_back[prev_hash(h)], h) ELSE <<h>>
  BY <1>4, <1>5
<1>7. D \subseteq {h \in D : walk_back[h] \in Seq(D)}
  <2> DEFINE T == {h \in D : walk_back[h] \in Seq(D)}
  <2>1. \A h \in D : (prev_hash(h) \in D => prev_hash(h) \in T) => h \in T
    <3> SUFFICES ASSUME NEW h \in D, prev_hash(h) \in D => prev_hash(h) \in T
                 PROVE  walk_back[h] \in Seq(D)
      OBVIOUS
    <3>1. CASE prev_hash(h) \in D
      <4>1. PICK v : v = walk_back[prev_hash(h)]
        OBVIOUS
      <4>2. v \in Seq(D) /\ walk_back[h] = Append(v, h)
        BY <1>6, <3>1, <4>1
      <4> QED BY <4>2
    <3>2. CASE prev_hash(h) \notin D
      <4>1. walk_back[h] = <<h>>
        BY <1>6, <3>2
      <4>2. <<h>> \in Seq(D)
        BY ONLY h \in D
      <4> QED BY <4>1, <4>2
    <3> QED BY <3>1, <3>2
  <2> HIDE DEF T
  <2>2. D \subseteq T
    BY ONLY <2>1, HeaderInduction, D \subseteq Nat
  <2> QED BY <2>2 DEF T
<1> QED BY <1>6, <1>7

\* cum_work satisfies its definition.
LEMMA CumWorkRec ==
  ASSUME NEW D, D = DOMAIN headers, D \subseteq Nat
  PROVE  /\ DOMAIN cum_work = D
         /\ \A h \in D : cum_work[h] = IF prev_hash(h) = NoHash THEN work_from_bits(bits(h))
                                       ELSE IF prev_hash(h) \notin D \/ cum_work[prev_hash(h)] = -1 THEN -1
                                       ELSE cum_work[prev_hash(h)] + work_from_bits(bits(h))
<1> DEFINE w(h) == work_from_bits(bits(h))
           A == [h \in D |-> IF prev_hash(h) = NoHash THEN w(h) ELSE -1]
           V == Nat \cup {-1}
           G == [h \in D |-> [v \in V |-> IF v = -1 THEN -1 ELSE v + w(h)]]
           R(g) == [h \in D |-> IF prev_hash(h) = NoHash THEN w(h)
                                ELSE IF prev_hash(h) \notin D \/ g[prev_hash(h)] = -1 THEN -1
                                ELSE g[prev_hash(h)] + w(h)]
<1>w. \A h \in D : w(h) \in Nat
  <2> TAKE h \in D
  <2>1. CASE h \in Block
    BY <2>1, BlockAssumption DEF bits
  <2>2. CASE h \notin Block
    BY <2>2 DEF bits, work_from_bits
  <2> QED BY <2>1, <2>2
<1>n. NoHash \notin D
  BY DEF NoHash
<1>0. PICK g : HeaderFunction(g, D, A, G)
  <2> HIDE DEF A, G
  <2> QED BY ONLY D \subseteq Nat, HeaderRecursion
<1> HIDE DEF w
<1>a. \A h \in D : A[h] = IF prev_hash(h) = NoHash THEN w(h) ELSE -1
  OBVIOUS
<1>g. \A h \in D : \A v \in V : G[h][v] \in V /\ G[h][v] = IF v = -1 THEN -1 ELSE v + w(h)
  BY <1>w
<1> HIDE DEF A, G, V
<1>1. /\ g = [h \in D |-> g[h]]
      /\ \A h \in D : g[h] = IF prev_hash(h) \in D THEN G[h][g[prev_hash(h)]] ELSE A[h]
  BY <1>0 DEF HeaderFunction
<1>2. D \subseteq {h \in D : g[h] \in V}
  <2> DEFINE T == {h \in D : g[h] \in V}
  <2>0. \A h \in D : A[h] \in V
    BY <1>a, <1>w DEF V
  <2>1. \A h \in D : (prev_hash(h) \in D => prev_hash(h) \in T) => h \in T
    BY <1>1, <1>g, <2>0
  <2> HIDE DEF T
  <2>2. D \subseteq T
    BY ONLY <2>1, HeaderInduction, D \subseteq Nat
  <2> QED BY <2>2 DEF T
<1>3. g = R(g)
  <2>1. ASSUME NEW h \in D
        PROVE  g[h] = IF prev_hash(h) = NoHash THEN w(h)
                      ELSE IF prev_hash(h) \notin D \/ g[prev_hash(h)] = -1 THEN -1
                      ELSE g[prev_hash(h)] + w(h)
    <3>1. CASE prev_hash(h) \in D
      <4>1. g[prev_hash(h)] \in V /\ prev_hash(h) # NoHash
        BY <1>2, <1>n, <3>1
      <4> QED BY <1>1, <1>g, <3>1, <4>1
    <3>2. CASE prev_hash(h) \notin D
      BY <1>1, <1>a, <3>2
    <3> QED BY <3>1, <3>2
  <2> QED BY <1>1, <2>1
<1> DEFINE it == CHOOSE h : h = R(h)
<1>4. it = R(it)
  <2> HIDE DEF R
  <2> QED BY <1>3
<1>5. cum_work = it
  BY DEF cum_work, w
<1> HIDE DEF it
<1>6. DOMAIN it = D
  BY <1>4
<1>7. \A h \in D : it[h] = IF prev_hash(h) = NoHash THEN w(h)
                           ELSE IF prev_hash(h) \notin D \/ it[prev_hash(h)] = -1 THEN -1
                           ELSE it[prev_hash(h)] + w(h)
  BY <1>4
<1> QED BY <1>5, <1>6, <1>7 DEF w

\* What the node does leaves the reader alone, and removes nothing.
LEMMA NodeGrows ==
  ASSUME NodeInv, NodeInv', HPNode
  PROVE  /\ ToSet(records) \subseteq ToSet(records') /\ Len(raw) <= Len(raw') /\ Len(raw') \in Nat
         /\ UNCHANGED <<stage, nfiles, scanned, headers, chain, orphans, view>>
         /\ seen' = IF stage = "scan" THEN {} ELSE seen
<1>1. Len(raw) \in Nat /\ Len(raw') \in Nat /\ records \in Seq(Record) /\ records' \in Seq(Record)
  <2>1. raw \in Seq(Seq(Nat)) /\ records \in Seq(Record)
    BY ONLY NodeInv DEF NodeInv, Files
  <2>2. raw' \in Seq(Seq(Nat)) /\ records' \in Seq(Record)
    BY ONLY NodeInv' DEF NodeInv, Files
  <2> QED BY <2>1, <2>2
<1>2. ASSUME NEW b \in Block, BeginRecord(b)
      PROVE  ToSet(records) \subseteq ToSet(records') /\ Len(raw) <= Len(raw')
  <2>1. PICK r : records' = Append(records, r) /\ (r.file = Len(raw) \/ r.file = Len(raw) + 1)
    BY <1>2 DEF BeginRecord
  <2>2. r \in Record
    <3>1. Len(records) \in Nat
      BY <1>1
    <3>2. Len(records') = Len(records) + 1 /\ records'[Len(records) + 1] = r
      BY <1>1, <2>1
    <3> QED BY <1>1, <3>1, <3>2
  <2>3. ToSet(records') = ToSet(records) \cup {r} /\ Last(records') = r
    BY <1>1, <2>1, <2>2, SeqFacts
  <2>4. Last(records').file = Len(raw')
    BY <2>3 DEF NodeInv, Files
  <2> QED BY <1>1, <2>1, <2>3, <2>4
<1>3. ASSUME WriteCell
      PROVE  ToSet(records) \subseteq ToSet(records') /\ Len(raw) <= Len(raw')
  <2>1. records' = records /\ DOMAIN raw' = DOMAIN raw
    BY <1>3 DEF WriteCell
  <2>2. raw \in Seq(Seq(Nat)) /\ raw' \in Seq(Seq(Nat))
    BY DEF NodeInv, Files
  <2>3. Len(raw') = Len(raw)
    BY <1>1, <2>1, <2>2
  <2> QED BY <1>1, <2>1, <2>3
<1>4. /\ UNCHANGED <<stage, nfiles, scanned, headers, chain, orphans, view>>
      /\ seen' = IF stage = "scan" THEN {} ELSE seen
  BY DEF HPNode, BeginRecord, WriteCell
<1> QED BY <1>1, <1>2, <1>3, <1>4 DEF HPNode

\* A record that can be read stays so while the node writes, and files that are
\* not preallocated end where it has written to.
LEMMA LegibleKept ==
  ASSUME NodeInv, NodeInv', PlainInv, HPNode
  PROVE  PlainInv' /\ \A r \in ToSet(records) : Legible(r) => Legible(r)'
<1>1. /\ records \in Seq(Record) /\ pending \in Seq(Nat) /\ raw \in Seq(Seq(Nat)) /\ Len(raw) \in Nat
      /\ Len(pending) \in Nat /\ (records = <<>> => pending = <<>>)
  BY DEF NodeInv, Files
<1>2. /\ records' \in Seq(Record) /\ pending' \in Seq(Nat) /\ raw' \in Seq(Seq(Nat)) /\ Len(raw') \in Nat
  BY ONLY NodeInv' DEF NodeInv, Files
<1>3. records # <<>> => /\ Last(records) \in Record /\ Last(records) \in ToSet(records)
                        /\ Last(records).file = Len(raw) /\ RecordEnd(Last(records)) \in Nat
  <2> SUFFICES ASSUME records # <<>>
               PROVE  /\ Last(records) \in Record /\ Last(records) \in ToSet(records)
                      /\ Last(records).file = Len(raw) /\ RecordEnd(Last(records)) \in Nat
    OBVIOUS
  <2>1. PICK x : x \in Record
    <3>1. 1 \in 1..Len(records)
      BY <1>1
    <3> QED BY <1>1, <3>1
  <2>2. Last(records) \in ToSet(records) /\ ToSet(records) \subseteq Record
    BY <1>1, <2>1, SeqFacts
  <2>3. Last(records).file = Len(raw)
    BY <2>2 DEF NodeInv, Files
  <2> QED BY <2>2, <2>3, EndFacts
<1>4. ASSUME NEW b \in Block, BeginRecord(b)
      PROVE  PlainInv' /\ \A r \in ToSet(records) : Legible(r) => Legible(r)'
  <2> DEFINE f == Len(raw)
             end == RecordEnd(Last(records))
             fits == f > 0 /\ end + Len(RecordCells(b)) <= FileCap
             cut == [g \in DOMAIN raw |-> IF g = f THEN SubSeq(raw[g], 1, end) ELSE raw[g]]
             new == IF node.padded THEN Zeros(FileCap) ELSE <<>>
  <2>1. PICK q : q = [block |-> b, file |-> IF fits THEN f ELSE f + 1, offset |-> IF fits THEN end ELSE 0]
    OBVIOUS
  <2>2. /\ pending = <<>> /\ pending' = RecordCells(b) /\ node' = node
        /\ raw' = (IF fits THEN raw ELSE Append(cut, new)) /\ records' = Append(records, q)
    BY <1>4, <2>1 DEF BeginRecord
  <2>3. q \in Record
    <3>1. Len(records') = Len(records) + 1 /\ records'[Len(records) + 1] = q /\ Len(records) \in Nat
      BY <1>1, <2>2
    <3> QED BY <1>2, <3>1
  <2>4. Last(records') = q /\ Front(records') = records /\ records' # <<>>
    BY <1>1, <2>2, <2>3, SeqFacts
  <2>5. pending' # <<>> /\ Len(pending') = Len(RecordCells(b)) /\ Len(RecordCells(b)) \in Nat
    <3>1. Len(RecordCells(b)) = 3 + Len(Body[b]) /\ Len(Body[b]) \in Nat
      BY RecordFacts
    <3> QED BY <1>2, <2>2, <3>1
  <2>6. Complete' = ToSet(records)
    BY <2>4, <2>5 DEF Complete
  <2>7. ASSUME ~node.padded
        PROVE  Len(raw'[Len(raw')]) = RecordEnd(q) - Len(RecordCells(b))
    <3>0. RecordEnd(q) = q.offset + Len(RecordCells(b)) /\ q.offset \in Nat
      BY <2>1, <2>3, EndFacts
    <3>1. CASE fits
      <4>1. records # <<>>
        <5>1. f # 0
          BY <1>1, <3>1
        <5>2. ToSet(records) # {}
          BY <5>1 DEF NodeInv, Files
        <5> QED BY <1>1, <2>3, <5>2, SeqFacts
      <4>2. Len(raw[Len(raw)]) = end - Len(pending) /\ Len(pending) = 0 /\ end \in Nat
        BY <1>3, <2>2, <2>7, <4>1 DEF PlainInv
      <4>3. q.offset = end /\ raw' = raw
        BY <2>1, <2>2, <3>1
      <4> QED BY ONLY <2>5, <3>0, <4>2, <4>3
    <3>2. CASE ~fits
      <4>1. raw' = Append(cut, <<>>) /\ q.offset = 0
        BY <2>1, <2>2, <2>7, <3>2
      <4>2. Len(raw') = Len(cut) + 1 /\ raw'[Len(cut) + 1] = <<>>
        <5>1. \A g \in 1..f : cut[g] \in Seq(Nat)
          <6> TAKE g \in 1..f
          <6>1. raw[g] \in Seq(Nat) /\ cut[g] = IF g = f THEN SubSeq(raw[g], 1, end) ELSE raw[g]
            BY <1>1
          <6>2. CASE g = f
            <7>1. records # <<>>
              <8>1. ToSet(records) # {}
                BY <6>2 DEF NodeInv, Files
              <8> QED BY <1>1, <2>3, <8>1, SeqFacts
            <7>2. Len(raw[g]) = end /\ end \in Nat
              BY <1>3, <2>2, <2>7, <6>2, <7>1 DEF PlainInv
            <7> HIDE DEF end, cut
            <7> QED BY <6>1, <6>2, <7>2
          <6> QED BY <6>1, <6>2
        <5>2. cut \in [1..f -> Seq(Nat)]
          <6>1. DOMAIN raw = 1..f /\ f \in Nat
            BY <1>1
          <6>2. cut = [g \in 1..f |-> cut[g]]
            BY <6>1
          <6> HIDE DEF cut, f
          <6> QED BY <5>1, <6>2
        <5>3. cut \in Seq(Seq(Nat))
          <6>1. f \in Nat
            BY <1>1
          <6> HIDE DEF cut, f
          <6> QED BY <5>2, <6>1
        <5> HIDE DEF cut
        <5> QED BY <4>1, <5>3
      <4>3. Len(raw'[Len(raw')]) = 0
        BY <4>2
      <4> QED BY ONLY <2>5, <3>0, <4>1, <4>3
    <3> QED BY <3>1, <3>2
  <2>8. PlainInv'
    BY <2>2, <2>4, <2>5, <2>7 DEF PlainInv, RecordEnd, RecordCells
  <2> QED BY <2>6, <2>8 DEF Legible
<1>5. ASSUME WriteCell
      PROVE  PlainInv' /\ \A r \in ToSet(records) : Legible(r) => Legible(r)'
  <2> DEFINE cur == Last(records)
             off == RecordEnd(cur) - Len(pending)
             c == Obfuscate(Head(pending), off)
             file == raw[cur.file]
  <2>1. PICK g : g = IF off < Len(file) THEN [file EXCEPT ![off + 1] = c] ELSE Append(file, c)
    OBVIOUS
  <2>2. /\ pending # <<>> /\ pending' = Tail(pending) /\ node' = node /\ records' = records
        /\ raw' = [raw EXCEPT ![cur.file] = g]
    BY <1>5, <2>1 DEF WriteCell
  <2>3. records # <<>> /\ Len(pending) > 0 /\ Len(pending') = Len(pending) - 1
    BY <1>1, <2>2
  <2>4. /\ cur \in ToSet(records) /\ cur.file = Len(raw) /\ RecordEnd(cur) \in Nat
        /\ Len(raw) \in 1..Len(raw) /\ file \in Seq(Nat)
    <3>1. cur \in ToSet(records) /\ cur.file = Len(raw) /\ RecordEnd(cur) \in Nat /\ cur \in Record
      BY <1>3, <2>3
    <3>2. cur.file \in Nat /\ cur.file >= 1
      BY <3>1, EndFacts
    <3>3. Len(raw) \in 1..Len(raw)
      BY ONLY <3>1, <3>2
    <3> QED BY <1>1, <3>1, <3>3
  <2>5. Len(raw') = Len(raw) /\ raw'[Len(raw)] = g /\ \A h \in 1..Len(raw) : h # Len(raw) => raw'[h] = raw[h]
    BY <1>1, <1>2, <2>2, <2>4
  <2>6. Len(g) >= Len(file) /\ (~(off < Len(file)) => Len(g) = Len(file) + 1)
    <3>1. CASE off < Len(file)
      <4>1. g = [file EXCEPT ![off + 1] = c]
        BY <2>1, <3>1
      <4>2. DOMAIN g = DOMAIN file
        BY <4>1
      <4>3. g \in Seq(Nat)
        BY <1>2, <2>4, <2>5
      <4>4. Len(g) = Len(file)
        BY ONLY <2>4, <4>2, <4>3
      <4> QED BY <2>4, <3>1, <4>4
    <3>2. CASE ~(off < Len(file))
      <4>1. g = Append(file, c)
        BY <2>1, <3>2
      <4>2. Len(g) = Len(file) + 1
        BY <2>4, <4>1
      <4> QED BY <2>4, <4>2
    <3> QED BY <3>1, <3>2
  <2>7. PlainInv'
    <3> SUFFICES ASSUME ~node.padded PROVE Len(g) = RecordEnd(cur) - Len(pending')
      BY <2>2, <2>5 DEF PlainInv, RecordEnd, RecordCells
    <3>1. Len(file) = off
      BY <2>3, <2>4 DEF PlainInv
    <3>2. off \in Int
      BY <1>1, <2>4
    <3> HIDE DEF off
    <3>3. Len(g) = off + 1
      BY <2>6, <3>1, <3>2
    <3> QED BY <1>1, <2>3, <2>4, <3>3 DEF off
  <2>8. ASSUME NEW r \in ToSet(records), Legible(r)
        PROVE  Legible(r)'
    <3>1. Complete \subseteq Complete'
      <4>1. Complete \subseteq ToSet(records)
        BY DEF NodeInv, Files
      <4>2. Complete = ToSet(Front(records))
        BY <2>2 DEF Complete
      <4> QED BY <2>2, <4>1, <4>2 DEF Complete
    <3>2. CASE r \in Complete
      BY <3>1, <3>2 DEF Legible
    <3>3. CASE r \notin Complete
      <4>1. node.padded /\ Len(pending) <= Len(Body[r.block]) /\ RecordEnd(r) <= Len(raw[r.file])
        BY <2>8, <3>3 DEF Legible
      <4>2. r = cur
        BY <3>3 DEF NodeInv, Files
      <4>3. Len(raw[r.file]) <= Len(raw'[r.file]) /\ Len(raw[r.file]) \in Nat /\ Len(raw'[r.file]) \in Nat
        <5>1. raw'[r.file] = g /\ raw[r.file] = file /\ g \in Seq(Nat)
          BY <1>2, <2>4, <2>5, <4>2
        <5> QED BY <2>4, <2>6, <5>1
      <4>4. Len(Body[r.block]) \in Nat /\ RecordEnd(r) \in Nat
        BY <1>3, <2>3, <4>2, EndFacts, RecordFacts
      <4>5. Len(pending') <= Len(Body[r.block])
        BY ONLY <1>1, <2>3, <4>1, <4>4
      <4>6. RecordEnd(r) <= Len(raw'[r.file])
        BY ONLY <4>1, <4>3, <4>4
      <4> QED BY <2>2, <4>1, <4>5, <4>6 DEF Legible, RecordEnd, RecordCells
    <3> QED BY <3>2, <3>3
  <2> QED BY <2>7, <2>8
<1> QED BY <1>4, <1>5 DEF HPNode

\* The reader's state while the node runs: the files it found exist, and a
\* chain it built consists of headers of the map.
ReadInv ==
  /\ PlainInv
  /\ nfiles \in Nat /\ scanned \in Nat /\ nfiles <= Len(raw)
  /\ PlaceInv
  /\ Built => ToSet(chain) \subseteq DOMAIN headers

\* Before the pass.
LEMMA ReadInit ==
  ASSUME HPInit
  PROVE  ReadInv
<1>1. /\ nfiles = 0 /\ scanned = 0 /\ raw = <<>> /\ stage = "start" /\ DOMAIN headers = {}
      /\ records = <<>>
  BY DEF HPInit
<1>2. Len(raw) = 0
  BY <1>1
<1> QED BY <1>1, <1>2 DEF ReadInv, PlaceInv, PlainInv, Built

\* The chain built consists of headers of the map.
LEMMA BuildFacts ==
  ASSUME BuildChain, DOMAIN headers \subseteq Nat
  PROVE  \/ best_tips = {} /\ stage' = "failed"
         \/ \E tip \in best_tips : /\ tip \in DOMAIN headers /\ chain' = walk_back[tip]
                                   /\ ToSet(chain') \subseteq DOMAIN headers /\ stage' = "built"
<1>1. CASE best_tips = {} /\ stage' = "failed"
  BY <1>1
<1>2. ASSUME NEW tip \in best_tips, chain' = walk_back[tip], stage' = "built"
      PROVE  tip \in DOMAIN headers /\ ToSet(chain') \subseteq DOMAIN headers
  <2>1. PICK D : D = DOMAIN headers
    OBVIOUS
  <2>2. tip \in D
    <3>1. tip \in DOMAIN cum_work
      BY <1>2 DEF best_tips
    <3> QED BY <2>1, <3>1, CumWorkRec
  <2>3. walk_back[tip] \in Seq(D)
    BY <2>1, <2>2, WalkBackRec
  <2>4. ToSet(walk_back[tip]) \subseteq D
    BY <2>2, <2>3, SeqFacts
  <2> QED BY <1>2, <2>1, <2>2, <2>4
<1> QED BY <1>1, <1>2 DEF BuildChain

\* Every step keeps the header map and the chain in order.
LEMMA ReadStep ==
  ASSUME NodeInv, NodeInv', ReadInv, HPNext
  PROVE  ReadInv'
<1>0. ASSUME UNCHANGED nodeVars
      PROVE  PlainInv' /\ \A r : Legible(r)' <=> Legible(r)
  BY <1>0 DEF ReadInv, PlainInv, Legible, Complete, RecordEnd, RecordCells, nodeVars
<1>1. CASE HPNode
  <2>1. /\ ToSet(records) \subseteq ToSet(records') /\ Len(raw) <= Len(raw') /\ Len(raw') \in Nat
        /\ UNCHANGED <<stage, nfiles, scanned, headers, chain>>
    BY <1>1, NodeGrows
  <2>2. PlainInv' /\ \A r \in ToSet(records) : Legible(r) => Legible(r)'
    BY <1>1, LegibleKept DEF ReadInv
  <2>3. PlaceInv'
    BY ONLY ReadInv, <2>1, <2>2 DEF ReadInv, PlaceInv, RecordCells
  <2>4. Len(raw) \in Nat
    BY ONLY NodeInv DEF NodeInv, Files
  <2>5. nfiles' <= Len(raw')
    BY <2>1, <2>4 DEF ReadInv
  <2> QED BY <2>1, <2>2, <2>3, <2>5 DEF ReadInv, Built
<1>2. CASE Discover
  <2>1. /\ nfiles' = Len(raw) /\ raw' = raw /\ scanned' = scanned /\ headers' = headers
        /\ records' = records /\ stage' \in {"failed", "scan"} /\ UNCHANGED nodeVars
    BY <1>2 DEF Discover, nodeVars
  <2>2. Len(raw) \in Nat
    BY ONLY NodeInv DEF NodeInv, Files
  <2>3. PlaceInv' /\ PlainInv'
    BY <1>0, <2>1 DEF ReadInv, PlaceInv
  <2> QED BY <2>1, <2>2, <2>3 DEF ReadInv, Built
<1>3. CASE ScanFile
  <2>1. PlaceInv'
    BY <1>3, PlaceScan DEF ReadInv
  <2>2. nfiles' = nfiles /\ scanned' = scanned + 1 /\ raw' = raw /\ stage' \in {"scan", "failed"}
        /\ UNCHANGED nodeVars
    BY <1>3 DEF ScanFile, nodeVars
  <2> QED BY <1>0, <2>1, <2>2 DEF ReadInv, Built
<1>4. CASE BuildChain
  <2>1. nfiles' = nfiles /\ scanned' = scanned /\ raw' = raw /\ headers' = headers /\ records' = records
        /\ UNCHANGED nodeVars
    BY <1>4 DEF BuildChain, nodeVars
  <2>2. PlaceInv' /\ PlainInv' /\ DOMAIN headers \subseteq Nat
    BY <1>0, <2>1 DEF ReadInv, PlaceInv
  <2>3. stage' = "failed" \/ ToSet(chain') \subseteq DOMAIN headers
    BY <1>4, <2>2, BuildFacts
  <2> QED BY <2>1, <2>2, <2>3 DEF ReadInv, Built
<1>5. CASE FetchOrphans \/ FetchFails
  <2>1. /\ nfiles' = nfiles /\ scanned' = scanned /\ raw' = raw /\ headers' = headers
        /\ records' = records /\ chain' = chain /\ Built /\ UNCHANGED nodeVars
    BY <1>5 DEF FetchOrphans, FetchFails, nodeVars, Built
  <2>2. PlaceInv' /\ PlainInv'
    BY <1>0, <2>1 DEF ReadInv, PlaceInv
  <2> QED BY <2>1, <2>2 DEF ReadInv
<1> QED BY <1>1, <1>2, <1>3, <1>4, <1>5 DEF HPNext, HPReader

\* A location of the chain gives back its block, as far as it has been written.
LEMMA ReadableFacts ==
  ASSUME NodeInv, ReadInv
  PROVE  ChainReadable
<1> SUFFICES ASSUME Built, NEW h \in ToSet(chain) \cap Block
             PROVE  LET loc     == headers[h]
                        rec     == [block |-> h, file |-> loc.file, offset |-> loc.offset]
                        missing == IF rec \in Complete THEN 0 ELSE Len(pending)
                        cells   == block_bytes(open(raw[loc.file]), loc)
                        whole   == <<h>> \o Body[h]
                    IN /\ rec \in ToSet(records)
                       /\ missing > 0 => node.padded
                       /\ Len(cells) = Len(whole)
                       /\ \A i \in 1..(Len(whole) - missing) : cells[i] = whole[i]
  BY DEF ChainReadable
<1>1. PICK loc : loc = headers[h]
  OBVIOUS
<1>2. PICK r \in ToSet(records) : /\ r.block = h /\ r.file = loc.file /\ r.offset = loc.offset
                                  /\ loc.len = Len(RecordCells(h)) /\ Legible(r)
  BY <1>1 DEF ReadInv, PlaceInv
<1>3. ToSet(records) \subseteq Record /\ Len(raw) \in Nat /\ \A q \in ToSet(records) : q.file <= Len(raw)
  BY ONLY NodeInv DEF NodeInv, Files
<1>4. r = [block |-> h, file |-> loc.file, offset |-> loc.offset]
  <2>1. r \in Record
    BY <1>3
  <2> QED BY <1>2, <2>1 DEF Record
<1>5. PICK f : f = loc.file
  OBVIOUS
<1>6. f \in 1..Len(raw)
  BY <1>2, <1>3, <1>5, EndFacts
<1>7. PICK Q : Q = {q \in ToSet(records) : q.file = f}
  OBVIOUS
<1>8. Agrees(block_bytes(open(raw[f]), loc), <<r.block>> \o Body[r.block], Missing(r))
  <2>1. OpenFound(f, Q)
    BY ONLY NodeInv, ReadInv, <1>6, <1>7, OpenFacts DEF ReadInv
  <2>2. r \in Q /\ loc.offset = r.offset /\ loc.len = Len(RecordCells(r.block))
    BY <1>2, <1>5, <1>7
  <2> QED BY ONLY <1>2, <2>1, <2>2 DEF OpenFound
<1>9. Missing(r) > 0 => node.padded
  BY <1>2 DEF Missing, Legible
<1>10. PICK cells : cells = block_bytes(open(raw[f]), loc)
  OBVIOUS
<1>11. PICK whole : whole = <<h>> \o Body[h]
  OBVIOUS
<1>12. Agrees(cells, whole, Missing(r))
  BY ONLY <1>2, <1>8, <1>10, <1>11
<1>13. Len(cells) = Len(whole) /\ \A i \in 1..(Len(whole) - Missing(r)) : cells[i] = whole[i]
  BY ONLY <1>12 DEF Agrees
<1>14. PICK rec : rec = [block |-> h, file |-> loc.file, offset |-> loc.offset]
  OBVIOUS
<1>15. rec = r /\ rec \in ToSet(records) /\ Missing(r) = IF rec \in Complete THEN 0 ELSE Len(pending)
  BY <1>2, <1>4, <1>14 DEF Missing
<1> QED BY ONLY <1>1, <1>5, <1>9, <1>10, <1>11, <1>13, <1>14, <1>15

\* A step that does not end in "ready", or keeps what a chain is filtered with.
LEMMA RetainedKept ==
  ASSUME RetainedActive, stage' # "ready" \/ UNCHANGED <<stage, chain, orphans, view>>
  PROVE  RetainedActive'
  BY DEF RetainedActive, ActiveAncestors

\* The blocks of the chain are known to the node when it is asked for its tips.
LEMMA RetainedStep ==
  ASSUME NodeInv, ReadInv, RetainedActive, HPNext
  PROVE  RetainedActive'
<1>1. CASE HPNode
  <2>1. UNCHANGED <<stage, chain, orphans, view>>
    BY <1>1 DEF HPNode, BeginRecord, WriteCell
  <2> QED BY ONLY <2>1, RetainedActive, RetainedKept
<1>2. CASE Discover \/ ScanFile \/ BuildChain \/ FetchFails
  <2>1. stage' # "ready"
    BY <1>2 DEF Discover, ScanFile, BuildChain, FetchFails
  <2> QED BY ONLY <2>1, RetainedActive, RetainedKept
<1>3. CASE FetchOrphans
  <2>1. PICK known, marked :
          /\ known \in SUBSET Block
          /\ \A b \in known \cup {r.block : r \in ToSet(records)} : Ancestors[b] \subseteq known
          /\ orphans' = orphan_block_hashes(chain_tips(known, marked))
          /\ view' = [known |-> known, stored |-> Stored, active |-> active]
    BY <1>3 DEF FetchOrphans
  <2>2. chain' = chain /\ Built
    BY <1>3 DEF FetchOrphans, Built
  <2>3. active \in Block \cup {NoHash}
    BY ONLY NodeInv DEF NodeInv
  <2>4. ASSUME NEW b \in ToSet(chain) \cap Block
        PROVE  b \in known
    <3>1. PICK r \in ToSet(records) : r.block = b
      BY <2>2 DEF ReadInv, PlaceInv
    <3>2. Ancestors[b] \subseteq known /\ b \in Ancestors[b]
      BY <2>1, <3>1, AncestorFacts
    <3> QED BY <3>2
  <2>5. PICK stale : stale = orphan_block_hashes(chain_tips(known, marked))
    OBVIOUS
  <2>6. \A b \in ToSet(chain) \cap Block :
           /\ b \in ActiveAncestors(active) => b \notin stale
           /\ b \notin ActiveAncestors(active)
                => b \in stale \/ \E t \in known : b \in Ancestors[t] /\ ~(Ancestors[t] \subseteq Stored)
    BY ONLY <2>1, <2>3, <2>4, <2>5, OrphanFacts
  <2>7. view'.known = known /\ view'.stored = Stored /\ view'.active = active /\ orphans' = stale
    BY <2>1, <2>5
  <2>8. ActiveAncestors(view'.active) = ActiveAncestors(active)
    BY <2>7
  <2> QED BY ONLY <2>2, <2>6, <2>7, <2>8 DEF RetainedActive, ActiveAncestors
<1> QED BY <1>1, <1>2, <1>3 DEF HPNext, HPReader

\* The scan so far, as long as the node has written nothing since it began: the
\* header map holds the blocks of the files already scanned.
ScanInv ==
  /\ stage = "start" => seen = {} /\ scanned = 0 /\ DOMAIN headers = {}
  /\ seen # {} => stage # "failed"
  /\ stage = "scan" /\ seen # {} =>
       /\ pending = <<>> /\ seen = Stored /\ nfiles = Len(raw) /\ scanned <= nfiles
       /\ DOMAIN headers = {r.block : r \in {q \in ToSet(records) : q.file <= scanned}}

-----------------------------------------------------------------------------
(* The best chain. *)

\* The cumulative work of a header is that of its chain, if all of it is there.
LEMMA CumWorkFacts ==
  ASSUME NEW D, D = DOMAIN headers, D \subseteq Block
  PROVE  DOMAIN cum_work = D /\ \A h \in D : cum_work[h] = IF Ancestors[h] \subseteq D THEN TotalWork[h] ELSE -1
<1>1. D \subseteq Nat
  BY BlockFacts
<1>2. PICK cum : cum = cum_work
  OBVIOUS
<1>3. /\ DOMAIN cum = D
      /\ \A h \in D : cum[h] = IF prev_hash(h) = NoHash THEN work_from_bits(bits(h))
                               ELSE IF prev_hash(h) \notin D \/ cum[prev_hash(h)] = -1 THEN -1
                               ELSE cum[prev_hash(h)] + work_from_bits(bits(h))
  BY <1>1, <1>2, CumWorkRec
<1>4. \A h \in D : cum[h] = IF Parent[h] = NoHash THEN work_from_bits(Bits[h])
                            ELSE IF Parent[h] \notin D \/ cum[Parent[h]] = -1 THEN -1
                            ELSE cum[Parent[h]] + work_from_bits(Bits[h])
  <2>1. \A h \in D : prev_hash(h) = Parent[h] /\ bits(h) = Bits[h]
    BY DEF prev_hash, bits
  <2> QED BY ONLY <1>3, <2>1
<1> DEFINE T == {h \in D : cum[h] = IF Ancestors[h] \subseteq D THEN TotalWork[h] ELSE -1}
<1>5. ASSUME NEW h \in D, prev_hash(h) \in D => prev_hash(h) \in T
      PROVE  h \in T
  <2>1. PICK p : p = Parent[h]
    OBVIOUS
  <2>2. h \in Block /\ prev_hash(h) = p /\ work_from_bits(Bits[h]) \in Nat
    BY <2>1, BlockAssumption DEF prev_hash
  <2>3. CASE p = NoHash
    <3>1. Ancestors[h] = {h} /\ TotalWork[h] = work_from_bits(Bits[h]) + 0
      BY <2>1, <2>2, <2>3, AncestorsRec, TotalWorkRec
    <3>2. cum[h] = work_from_bits(Bits[h])
      BY <1>4, <2>1, <2>3
    <3> QED BY <2>2, <3>1, <3>2
  <2>4. CASE p # NoHash
    <3>1. /\ p \in Block /\ Ancestors[h] = {h} \cup Ancestors[p] /\ p \in Ancestors[p]
          /\ TotalWork[h] = work_from_bits(Bits[h]) + TotalWork[p] /\ TotalWork[p] \in Nat
      BY <2>1, <2>2, <2>4, AncestorsRec, TotalWorkRec, BlockFacts, AncestorFacts, TotalWorkType
    <3>2. cum[h] = IF p \notin D \/ cum[p] = -1 THEN -1 ELSE cum[p] + work_from_bits(Bits[h])
      BY <1>4, <2>1, <2>4
    <3>3. CASE p \notin D
      BY <3>1, <3>2, <3>3
    <3>4. CASE p \in D
      <4>1. cum[p] = IF Ancestors[p] \subseteq D THEN TotalWork[p] ELSE -1
        BY <1>5, <2>2, <3>4
      <4>2. Ancestors[h] \subseteq D <=> Ancestors[p] \subseteq D
        BY <3>1
      <4> QED BY <2>2, <3>1, <3>2, <3>4, <4>1, <4>2
    <3> QED BY <3>3, <3>4
  <2> QED BY <2>3, <2>4
<1>6. D \subseteq T
  <2> HIDE DEF T
  <2> QED BY ONLY <1>1, <1>5, HeaderInduction
<1> QED BY <1>2, <1>3, <1>6

\* s is the path from the root to h.
Path(s, h) ==
  /\ s \in Seq(Block) /\ ToSet(s) = Ancestors[h] /\ Len(s) = Cardinality(Ancestors[h])
  /\ Len(s) # 0 /\ s[Len(s)] = h
  /\ \A i \in 1..(Len(s) - 1) : Parent[s[i + 1]] = s[i]

\* The path to a root.
LEMMA PathRoot ==
  ASSUME NEW h \in Block, Parent[h] = NoHash
  PROVE  Path(<<h>>, h)
<1>1. Ancestors[h] = {h} /\ Cardinality({h}) = 1
  BY AncestorCount, FS_Singleton
<1>2. PICK s : s = <<h>>
  OBVIOUS
<1>3. s \in Seq(Block) /\ Len(s) = 1 /\ s[1] = h /\ DOMAIN s = 1..1
  BY <1>2
<1>4. ToSet(s) = {h}
  <2>1. \A y : y \in ToSet(s) <=> \E i \in 1..1 : s[i] = y
    BY <1>3 DEF ToSet
  <2> QED BY <1>3, <2>1
<1>5. 1..(Len(s) - 1) = {}
  BY <1>3
<1> QED BY <1>1, <1>2, <1>3, <1>4, <1>5 DEF Path

\* The path to a child.
LEMMA PathAppend ==
  ASSUME NEW h \in Block, Parent[h] # NoHash, NEW s, Path(s, Parent[h])
  PROVE  Path(Append(s, h), h)
<1>1. PICK p : p = Parent[h]
  OBVIOUS
<1>2. /\ p \in Block /\ IsFiniteSet(Ancestors[p]) /\ Ancestors[h] = Ancestors[p] \cup {h} /\ h \notin Ancestors[p]
  BY <1>1, AncestorCount
<1>3. Cardinality(Ancestors[h]) = Cardinality(Ancestors[p]) + 1
  BY <1>2, FS_AddElement
<1>4. /\ s \in Seq(Block) /\ ToSet(s) = Ancestors[p] /\ Len(s) = Cardinality(Ancestors[p])
      /\ Len(s) # 0 /\ s[Len(s)] = p /\ \A i \in 1..(Len(s) - 1) : Parent[s[i + 1]] = s[i]
  BY <1>1 DEF Path
<1>5. PICK t : t = Append(s, h)
  OBVIOUS
<1>6. PICK n : n = Len(s)
  OBVIOUS
<1>7. /\ n \in Nat /\ n # 0 /\ t \in Seq(Block) /\ Len(t) = n + 1 /\ t[n + 1] = h
      /\ \A i \in 1..n : t[i] = s[i]
  BY <1>4, <1>5, <1>6
<1>8. ToSet(t) = Ancestors[h]
  BY <1>2, <1>4, <1>5, SeqFacts
<1>9. ASSUME NEW i \in 1..n
      PROVE  Parent[t[i + 1]] = t[i]
  <2>1. CASE i = n
    BY <1>1, <1>4, <1>6, <1>7, <2>1
  <2>2. CASE i # n
    <3>1. i \in 1..(n - 1) /\ i + 1 \in 1..n
      BY <1>7, <2>2
    <3> QED BY <1>4, <1>6, <1>7, <3>1
  <2> QED BY <2>1, <2>2
<1>10. Len(t) - 1 = n /\ Len(t) # 0
  BY <1>7
<1> QED BY <1>3, <1>4, <1>5, <1>6, <1>7, <1>8, <1>9, <1>10 DEF Path

\* The walk back from a header all of whose ancestors are there is its path.
LEMMA WalkBackFacts ==
  ASSUME NEW D, D = DOMAIN headers, D \subseteq Block
  PROVE  \A h \in D : Ancestors[h] \subseteq D => Path(walk_back[h], h)
<1>1. D \subseteq Nat
  BY BlockFacts
<1>2. PICK back : back = walk_back
  OBVIOUS
<1>3. \A h \in D : back[h] = IF prev_hash(h) \in D THEN Append(back[prev_hash(h)], h) ELSE <<h>>
  BY <1>1, <1>2, WalkBackRec
<1> DEFINE T == {h \in D : Ancestors[h] \subseteq D => Path(back[h], h)}
<1>4. ASSUME NEW h \in D, prev_hash(h) \in D => prev_hash(h) \in T
      PROVE  h \in T
  <2> SUFFICES ASSUME Ancestors[h] \subseteq D PROVE Path(back[h], h)
    OBVIOUS
  <2>1. PICK p : p = Parent[h]
    OBVIOUS
  <2>2. h \in Block /\ prev_hash(h) = p /\ NoHash \notin D
    BY <2>1, BlockFacts DEF prev_hash
  <2>3. CASE p = NoHash
    <3>1. back[h] = <<h>>
      BY <1>3, <2>2, <2>3
    <3> QED BY <2>1, <2>2, <2>3, <3>1, PathRoot
  <2>4. CASE p # NoHash
    <3>1. p \in Block /\ Ancestors[h] = {h} \cup Ancestors[p] /\ p \in Ancestors[p]
      BY <2>1, <2>2, <2>4, AncestorsRec, BlockFacts, AncestorFacts
    <3>2. p \in D /\ Ancestors[p] \subseteq D
      BY <3>1
    <3>3. back[h] = Append(back[p], h) /\ Path(back[p], p)
      BY <1>3, <1>4, <2>2, <3>2
    <3> QED BY ONLY <2>1, <2>2, <2>4, <3>3, PathAppend
  <2> QED BY <2>3, <2>4
<1>5. D \subseteq T
  <2> HIDE DEF T
  <2> QED BY ONLY <1>1, <1>4, HeaderInduction
<1> QED BY <1>2, <1>5

\* The tips to choose from, if a root is among the headers.
LEMMA BestFacts ==
  ASSUME NEW D, D = DOMAIN headers, D \subseteq Block, NEW g \in D, Parent[g] = NoHash
  PROVE  /\ best_tips # {}
         /\ \A tip \in best_tips : /\ tip \in Connected(D)
                                   /\ \A b \in Connected(D) : TotalWork[b] <= TotalWork[tip]
<1>1. PICK cum : cum = cum_work
  OBVIOUS
<1>2. DOMAIN cum = D /\ \A h \in D : cum[h] = IF Ancestors[h] \subseteq D THEN TotalWork[h] ELSE -1
  BY <1>1, CumWorkFacts
<1>3. PICK S : S = Connected(D)
  OBVIOUS
<1>4. \A h : h \in S <=> h \in D /\ Ancestors[h] \subseteq D
  BY <1>3 DEF Connected
<1>5. \A h \in S : h \in D /\ cum[h] = TotalWork[h] /\ TotalWork[h] \in Nat
  BY <1>2, <1>4, TotalWorkType
<1>6. \A h \in D \ S : cum[h] = -1
  BY <1>2, <1>4
<1>7. PICK H : H = {h \in D : cum[h] >= 0}
  OBVIOUS
<1>8. H = S
  <2>1. \A h \in S : h \in H
    BY <1>5, <1>7
  <2>2. \A h \in H : h \in S
    BY <1>6, <1>7
  <2> QED BY <2>1, <2>2
<1>9. best_tips = {h \in S : \A o \in S : cum[o] <= cum[h]}
  BY <1>1, <1>2, <1>7, <1>8 DEF best_tips
<1>10. g \in S
  <2>1. Ancestors[g] = {g}
    BY AncestorCount
  <2> QED BY <1>4, <2>1
<1>11. \E x \in S : \A y \in S : TotalWork[y] <= TotalWork[x]
  <2>1. IsFiniteSet(S)
    BY <1>4, BlockFacts, FS_Subset
  <2>2. \A x \in S : TotalWork[x] \in Nat
    BY <1>5
  <2> QED BY ONLY <1>10, <2>1, <2>2, LargestElement
<1> QED BY ONLY <1>3, <1>5, <1>9, <1>11

\* Before the scan.
LEMMA ScanInit ==
  ASSUME HPInit
  PROVE  ScanInv
<1>1. seen = {} /\ scanned = 0 /\ headers = <<>> /\ stage = "start"
  BY DEF HPInit
<1>2. DOMAIN headers = {}
  BY <1>1
<1> QED BY <1>1, <1>2 DEF ScanInv

\* With no record half written, what is stored are the blocks of all records,
\* which lie in the files there are.
LEMMA StoredFacts ==
  ASSUME NodeInv, pending = <<>>
  PROVE  /\ Stored = {r.block : r \in ToSet(records)}
         /\ Len(raw) \in Nat /\ \A r \in ToSet(records) : r.file <= Len(raw) /\ r \in Record
         /\ raw = <<>> => Stored = {}
         /\ Stored # {} => \E r \in ToSet(records) : Parent[r.block] = NoHash
<1>1. Complete = ToSet(records)
  BY DEF Complete
<1>2. PICK R : R = ToSet(records)
  OBVIOUS
<1>3. /\ raw \in Seq(Seq(Nat)) /\ R \subseteq Record /\ (R = {} <=> Len(raw) = 0)
      /\ (R # {} => \E r \in R : Parent[r.block] = NoHash) /\ \A r \in R : r.file <= Len(raw)
  BY ONLY NodeInv, <1>2 DEF NodeInv, Files
<1>4. Stored = {r.block : r \in R}
  BY <1>1, <1>2 DEF Stored
<1>5. raw = <<>> => Len(raw) = 0
  OBVIOUS
<1> QED BY <1>2, <1>3, <1>4, <1>5

\* A scan that nothing disturbed ends with the headers of all stored blocks.
LEMMA BuildBest ==
  ASSUME NodeInv, ReadInv, ScanInv, BuildChain, seen # {}
  PROVE  /\ DOMAIN headers = seen /\ seen \subseteq Block
         /\ best_tips # {}
         /\ \A tip \in best_tips : /\ tip \in Connected(seen)
                                   /\ \A b \in Connected(seen) : TotalWork[b] <= TotalWork[tip]
<1>1. stage = "scan" /\ scanned = nfiles
  BY DEF BuildChain
<1>2. /\ pending = <<>> /\ seen = Stored /\ scanned = Len(raw)
      /\ DOMAIN headers = {r.block : r \in {q \in ToSet(records) : q.file <= scanned}}
  BY <1>1 DEF ScanInv
<1>3. /\ Stored = {r.block : r \in ToSet(records)}
      /\ \A r \in ToSet(records) : r.file <= Len(raw) /\ r \in Record
      /\ Stored # {} => \E r \in ToSet(records) : Parent[r.block] = NoHash
  BY <1>2, StoredFacts
<1>4. PICK D : D = DOMAIN headers
  OBVIOUS
<1>5. D = seen
  BY <1>2, <1>3, <1>4
<1>6. \A r \in ToSet(records) : r.block \in Block
  BY <1>3 DEF Record
<1>7. D \subseteq Block
  BY <1>2, <1>3, <1>5, <1>6
<1>8. PICK g \in D : Parent[g] = NoHash
  BY <1>2, <1>3, <1>5
<1>9. /\ best_tips # {}
      /\ \A tip \in best_tips : /\ tip \in Connected(D)
                                /\ \A b \in Connected(D) : TotalWork[b] <= TotalWork[tip]
  BY ONLY <1>4, <1>7, <1>8, BestFacts
<1> QED BY ONLY <1>4, <1>5, <1>7, <1>9

\* A scan that nothing disturbs finds every record of every file, and no error.
LEMMA ScanStep ==
  ASSUME NodeInv, ReadInv, ScanInv, HPNext
  PROVE  ScanInv'
<1>1. CASE HPNode
  <2>1. /\ UNCHANGED <<stage, nfiles, scanned, headers>>
        /\ seen' = IF stage = "scan" THEN {} ELSE seen
    BY <1>1 DEF HPNode, BeginRecord, WriteCell
  <2> QED BY <2>1 DEF ScanInv
<1>2. CASE Discover
  <2>1. /\ stage = "start" /\ nfiles' = Len(raw) /\ stage' = IF raw = <<>> THEN "failed" ELSE "scan"
        /\ seen' = (IF pending = <<>> THEN Stored ELSE {})
        /\ UNCHANGED <<node, raw, records, pending, active, scanned, headers>>
    BY <1>2 DEF Discover, nodeVars
  <2>2. scanned' = 0 /\ DOMAIN headers' = {}
    BY <2>1 DEF ScanInv
  <2>3. CASE seen' = {}
    BY <2>1, <2>3 DEF ScanInv
  <2>4. CASE seen' # {}
    <3>1. pending = <<>> /\ seen' = Stored
      BY <2>1, <2>4
    <3>2. /\ Len(raw) \in Nat /\ \A r \in ToSet(records) : r.file <= Len(raw) /\ r \in Record
          /\ (raw = <<>> => Stored = {})
      BY <3>1, StoredFacts
    <3>3. stage' = "scan"
      BY <2>1, <2>4, <3>1, <3>2
    <3>4. Stored' = Stored
      BY <2>1 DEF Stored, Complete
    <3>5. {q \in ToSet(records) : q.file <= 0} = {}
      BY <3>2 DEF Record
    <3>6. scanned' <= nfiles'
      BY <2>1, <2>2, <3>2
    <3> QED BY <2>1, <2>2, <3>1, <3>3, <3>4, <3>5, <3>6 DEF ScanInv
  <2> QED BY <2>3, <2>4
<1>3. CASE ScanFile
  <2>1. PICK f : f = scanned + 1
    OBVIOUS
  <2>2. PICK found : found = records_of(open(raw[f]))
    OBVIOUS
  <2>3. /\ stage = "scan" /\ scanned < nfiles /\ headers' = FirstSeen(headers, f, found.recs)
        /\ stage' = (IF found.ok THEN stage ELSE "failed") /\ scanned' = f
        /\ UNCHANGED <<node, raw, records, pending, active, nfiles, seen>>
    BY <1>3, <2>1, <2>2 DEF ScanFile, nodeVars
  <2>4. CASE seen = {}
    BY <2>3, <2>4 DEF ScanInv
  <2>5. CASE seen # {}
    <3>1. /\ pending = <<>> /\ seen = Stored /\ nfiles = Len(raw)
          /\ DOMAIN headers = {r.block : r \in {q \in ToSet(records) : q.file <= scanned}}
      BY <2>3, <2>5 DEF ScanInv
    <3>2. /\ Len(raw) \in Nat /\ \A r \in ToSet(records) : r \in Record
      BY <3>1, StoredFacts
    <3>3. scanned \in Nat /\ f \in 1..Len(raw)
      BY <2>1, <2>3, <3>1, <3>2 DEF ReadInv
    <3>4. PICK Q : Q = {r \in ToSet(records) : r.file = f}
      OBVIOUS
    <3>5. OpenFound(f, Q)
      BY ONLY NodeInv, ReadInv, <3>3, <3>4, OpenFacts DEF ReadInv
    <3>6. found.ok /\ {rec.header : rec \in found.recs} = {r.block : r \in Q}
      BY ONLY <2>2, <3>1, <3>5 DEF OpenFound
    <3>7. DOMAIN headers' = DOMAIN headers \cup {r.block : r \in Q}
      BY <2>3, <3>6 DEF FirstSeen
    <3>8. {q \in ToSet(records) : q.file <= f} = {q \in ToSet(records) : q.file <= scanned} \cup Q
      <4>1. \A q \in ToSet(records) : q.file <= f <=> q.file <= scanned \/ q.file = f
        BY <2>1, <3>2, <3>3 DEF Record
      <4> QED BY <3>4, <4>1
    <3>9. DOMAIN headers' = {r.block : r \in {q \in ToSet(records) : q.file <= f}}
      BY ONLY <3>1, <3>7, <3>8
    <3>10. Stored' = Stored
      BY <2>3 DEF Stored, Complete
    <3>11. f <= nfiles
      BY <3>1, <3>3, <3>2
    <3> QED BY <2>3, <3>1, <3>6, <3>9, <3>10, <3>11 DEF ScanInv
  <2> QED BY <2>4, <2>5
<1>4. CASE BuildChain
  <2>1. stage = "scan" /\ scanned = nfiles /\ seen' = seen /\ stage' \in {"failed", "built"}
    BY <1>4 DEF BuildChain
  <2>2. CASE seen = {}
    BY <2>1, <2>2 DEF ScanInv
  <2>3. CASE seen # {}
    <3>1. best_tips # {}
      BY <1>4, <2>1, <2>3, BuildBest
    <3> QED BY <1>4, <2>1, <3>1 DEF ScanInv, BuildChain
  <2> QED BY <2>2, <2>3
<1>5. CASE FetchOrphans \/ FetchFails
  BY <1>5 DEF ScanInv, FetchOrphans, FetchFails
<1> QED BY <1>1, <1>2, <1>3, <1>4, <1>5 DEF HPNext, HPReader

\* The chain is chosen among all stored blocks, and then kept.
LEMMA BestStep ==
  ASSUME NodeInv, ReadInv, ScanInv, ScanInv', ChainBest, HPNext
  PROVE  ChainBest'
<1>1. CASE ~Built'
  BY <1>1 DEF ScanInv, ChainBest
<1>2. CASE Built' /\ Built
  <2>1. chain' = chain /\ seen' = seen
    BY <1>2 DEF HPNext, HPNode, HPReader, BeginRecord, WriteCell, Discover, ScanFile, BuildChain,
                FetchOrphans, FetchFails, Built
  <2>2. Connected(seen') = Connected(seen)
    BY <2>1
  <2> QED BY ONLY <1>2, <2>1, <2>2, ChainBest, ScanInv' DEF ScanInv, ChainBest, Connected
<1>3. CASE Built' /\ ~Built
  <2>1. BuildChain
    BY <1>3 DEF HPNext, HPNode, HPReader, BeginRecord, WriteCell, Discover, ScanFile,
                FetchOrphans, FetchFails, Built
  <2>2. seen' = seen
    BY <2>1 DEF BuildChain
  <2>3. CASE seen = {}
    BY <2>2, <2>3 DEF ChainBest
  <2>4. CASE seen # {}
    <3>1. /\ DOMAIN headers = seen /\ seen \subseteq Block
          /\ \A tip \in best_tips : /\ tip \in Connected(seen)
                                    /\ \A b \in Connected(seen) : TotalWork[b] <= TotalWork[tip]
      BY <2>1, <2>4, BuildBest
    <3>2. PICK tip \in best_tips : chain' = walk_back[tip]
      BY <1>3, <2>1 DEF BuildChain, Built
    <3>3. tip \in seen /\ Ancestors[tip] \subseteq seen
      BY <3>1 DEF Connected
    <3>4. Path(chain', tip)
      BY <3>1, <3>2, <3>3, WalkBackFacts
    <3>5. PICK c : c = chain'
      OBVIOUS
    <3>6. PICK s : s = seen
      OBVIOUS
    <3>7. /\ tip \in Connected(s) /\ \A b \in Connected(s) : TotalWork[b] <= TotalWork[tip]
          /\ ToSet(c) = Ancestors[tip] /\ Len(c) = Cardinality(Ancestors[tip])
          /\ \A i \in 1..(Len(c) - 1) : Parent[c[i + 1]] = c[i]
      BY <3>1, <3>4, <3>5, <3>6 DEF Path
    <3>8. seen' = s /\ stage' # "failed"
      BY <1>3, <2>2, <3>6 DEF Built
    <3> QED BY ONLY <3>5, <3>7, <3>8 DEF ChainBest, Connected
  <2> QED BY <2>3, <2>4
<1> QED BY <1>1, <1>2, <1>3

-----------------------------------------------------------------------------
(* The inductive invariant of the pass, and what follows from it. *)

PassInv == NodeInv /\ ReadInv /\ ScanInv /\ ChainBest /\ RetainedActive

\* The invariant holds initially.
LEMMA PassInit ==
  ASSUME HPInit
  PROVE  PassInv
<1>1. seen = {} /\ stage = "start"
  BY DEF HPInit
<1>2. ChainBest /\ RetainedActive
  BY <1>1 DEF ChainBest, RetainedActive
<1> QED BY <1>2, NodeInit, ReadInit, ScanInit DEF PassInv

\* The node's invariant in a step of the reader, which leaves the node alone.
LEMMA NodeKept ==
  ASSUME NodeInv, UNCHANGED nodeVars
  PROVE  NodeInv'
<1>1. UNCHANGED <<node, raw, records, pending, active>>
  BY DEF nodeVars
<1>2. Complete' = Complete
  BY <1>1 DEF Complete
<1> QED BY ONLY NodeInv, <1>1, <1>2 DEF NodeInv

\* Every step of node or reader keeps the invariant.
LEMMA PassStep ==
  ASSUME PassInv, HPNext
  PROVE  PassInv'
<1>1. NodeInv /\ ReadInv /\ ScanInv /\ ChainBest /\ RetainedActive
  BY DEF PassInv
<1>2. NodeInv'
  <2>1. CASE HPNode
    BY ONLY <1>1, <2>1, BeginStep, WriteStep DEF HPNode
  <2>2. CASE HPReader
    <3>1. UNCHANGED nodeVars
      BY <2>2 DEF HPReader, Discover, ScanFile, BuildChain, FetchOrphans, FetchFails
    <3> QED BY ONLY <1>1, <3>1, NodeKept
  <2> QED BY <2>1, <2>2 DEF HPNext
<1>3. ReadInv'
  BY ONLY <1>1, <1>2, HPNext, ReadStep
<1>4. ScanInv'
  BY ONLY <1>1, HPNext, ScanStep
<1>5. ChainBest'
  BY ONLY <1>1, <1>4, HPNext, BestStep
<1>6. RetainedActive'
  BY ONLY <1>1, HPNext, RetainedStep
<1> QED BY ONLY <1>2, <1>3, <1>4, <1>5, <1>6 DEF PassInv

\* So does a step that changes nothing.
LEMMA PassKept ==
  ASSUME PassInv, UNCHANGED hpVars
  PROVE  PassInv'
<1>1. NodeInv /\ ReadInv /\ ScanInv /\ ChainBest /\ RetainedActive
  BY DEF PassInv
<1>2. /\ UNCHANGED nodeVars
      /\ UNCHANGED <<node, raw, records, pending, active>>
      /\ UNCHANGED <<stage, nfiles, scanned, headers, chain, orphans, seen, view>>
  BY DEF hpVars, nodeVars, readerVars
<1>3. NodeInv'
  BY ONLY <1>1, <1>2, NodeKept
<1>4. ReadInv'
  BY ONLY <1>1, <1>2 DEF ReadInv, PlaceInv, PlainInv, Legible, Complete, RecordEnd, RecordCells, Built
<1>5. ScanInv'
  <2>1. Stored' = Stored
    BY <1>2 DEF Stored, Complete
  <2> QED BY ONLY <1>1, <1>2, <2>1 DEF ScanInv
<1>6. ChainBest'
  BY ONLY <1>1, <1>2 DEF ChainBest, Connected, Built
<1>7. RetainedActive'
  BY ONLY <1>1, <1>2, RetainedKept
<1> QED BY ONLY <1>3, <1>4, <1>5, <1>6, <1>7 DEF PassInv

(* What is in the node's files at any moment, and in the reader's header map *)
(* and chain, while both run: the inductive invariant of the header pass.    *)
THEOREM PassInvHolds == HPSpec => []PassInv
<1>1. PassInv /\ [HPNext]_hpVars => PassInv'
  BY PassStep, PassKept
<1> QED BY <1>1, PassInit, PTL DEF HPSpec

(* build_chain_index finds the chain with the most work: if the node wrote   *)
(* nothing while the files were scanned, the pass succeeds and the chain is  *)
(* the whole path from the genesis block to a best tip, for every tree of    *)
(* blocks, order of records, key, file size and padding.                     *)
THEOREM ChainBestHolds == HPSpec => []ChainBest
<1>1. PassInv => ChainBest
  BY DEF PassInv
<1> QED BY <1>1, PassInvHolds, PTL

(* The BlockLocation stored for a height stays readable: it is that of a     *)
(* record of its block, and BlkFile::block_bytes gives exactly the block but *)
(* for cells the node has not written yet, of which there are none unless    *)
(* the node preallocates its files (blkfile.rs:165-167 says there are never  *)
(* any), for every tree of blocks, key and file size.                        *)
THEOREM ChainReadableHolds == HPSpec => []ChainReadable
<1>1. PassInv => ChainReadable
  BY ReadableFacts DEF PassInv
<1> QED BY <1>1, PassInvHolds, PTL

(* orphan_block_hashes removes from the chain exactly the blocks that are    *)
(* not active when the node answers, but for branches it lacks a block of.   *)
THEOREM RetainedActiveHolds == HPSpec => []RetainedActive
<1>1. PassInv => RetainedActive
  BY DEF PassInv
<1> QED BY <1>1, PassInvHolds, PTL

-----------------------------------------------------------------------------
(* Scripts and their addresses. *)

Byte == 0..255

\* A byte of a script in a cut of it.
LEMMA SubSeqAt ==
  ASSUME NEW s \in Seq(Byte), NEW lo \in Nat, NEW hi \in Nat, lo >= 1, hi <= Len(s), NEW i \in lo..hi
  PROVE  s[i] = SubSeq(s, lo, hi)[i - lo + 1]
<1>1. PICK k : k = i - lo + 1
  OBVIOUS
<1>2. k \in 1..(hi - lo + 1) /\ lo + k - 1 = i /\ lo \in Int /\ hi \in Int
  BY <1>1
<1>3. SubSeq(s, lo, hi)[k] = s[i]
  BY <1>2
<1> QED BY <1>1, <1>3

\* At most 32 bytes are stored as they are.
LEMMA PadFacts ==
  ASSUME NEW x, NEW n \in 0..32, Len(x) = n
  PROVE  \A k \in 1..n : pad_slice(x)[k] = x[k]
<1> TAKE k \in 1..n
<1>1. k \in 1..32 /\ k <= n
  OBVIOUS
<1>2. pad_slice(x)[k] = IF k <= Len(x) THEN x[k] ELSE 0
  BY ONLY <1>1 DEF pad_slice
<1> QED BY <1>1, <1>2

\* The address bytes of a type say all that is between lo and hi.
LEMMA PadEq ==
  ASSUME NEW a \in Seq(Byte), NEW b \in Seq(Byte), NEW lo \in Nat, NEW hi \in Nat, lo >= 1,
         hi <= Len(a), hi <= Len(b), NEW n \in 0..32, n = hi - lo + 1,
         pad_slice(SubSeq(a, lo, hi)) = pad_slice(SubSeq(b, lo, hi))
  PROVE  \A i \in lo..hi : a[i] = b[i]
<1>1. PICK x : x = SubSeq(a, lo, hi)
  OBVIOUS
<1>2. PICK y : y = SubSeq(b, lo, hi)
  OBVIOUS
<1>3. Len(x) = n /\ Len(y) = n
  BY <1>1, <1>2
<1>4. pad_slice(x) = pad_slice(y)
  BY ONLY <1>1, <1>2, pad_slice(SubSeq(a, lo, hi)) = pad_slice(SubSeq(b, lo, hi))
<1>5. (\A k \in 1..n : pad_slice(x)[k] = x[k]) /\ (\A k \in 1..n : pad_slice(y)[k] = y[k])
  BY ONLY <1>3, PadFacts, n \in 0..32
<1>6. \A k \in 1..n : x[k] = y[k]
  BY ONLY <1>4, <1>5
<1>7. ASSUME NEW i \in lo..hi
      PROVE  a[i] = b[i]
  <2>1. PICK k : k = i - lo + 1
    OBVIOUS
  <2>2. k \in 1..n
    BY <2>1
  <2>3. a[i] = x[k]
    BY ONLY <1>1, <2>1, SubSeqAt, a \in Seq(Byte), lo \in Nat, hi \in Nat, lo >= 1, hi <= Len(a), i \in lo..hi
  <2>4. b[i] = y[k]
    BY ONLY <1>2, <2>1, SubSeqAt, b \in Seq(Byte), lo \in Nat, hi \in Nat, lo >= 1, hi <= Len(b), i \in lo..hi
  <2> QED BY ONLY <1>6, <2>2, <2>3, <2>4
<1> QED BY ONLY <1>7

\* The same bytes are the same script.
LEMMA ScriptEq ==
  ASSUME NEW a \in Seq(Byte), NEW b \in Seq(Byte), NEW n \in Nat, Len(a) = n, Len(b) = n,
         \A i \in 1..n : a[i] = b[i]
  PROVE  a = b
  BY SeqEqual

\* The bytes the tests look at.
LEMMA P2PKHBytes ==
  ASSUME NEW s \in Seq(Byte), IsP2PKH(s)
  PROVE  Len(s) = 25 /\ s[1] = \h76 /\ s[2] = \ha9 /\ s[3] = 20 /\ s[24] = \h88 /\ s[25] = \hac
<1>1. Len(s) = 25 /\ SubSeq(s, 1, 3) = <<\h76, \ha9, 20>> /\ SubSeq(s, 24, 25) = <<\h88, \hac>>
  BY DEF IsP2PKH
<1>2. /\ SubSeq(s, 1, 3)[1] = s[1] /\ SubSeq(s, 1, 3)[2] = s[2] /\ SubSeq(s, 1, 3)[3] = s[3]
      /\ SubSeq(s, 24, 25)[1] = s[24] /\ SubSeq(s, 24, 25)[2] = s[25]
  <2>1. Len(s) = 25
    BY <1>1
  <2> QED BY ONLY <2>1, s \in Seq(Byte)
<1>3. PICK x, y : x = <<\h76, \ha9, 20>> /\ y = <<\h88, \hac>>
  OBVIOUS
<1>4. x[1] = \h76 /\ x[2] = \ha9 /\ x[3] = 20 /\ y[1] = \h88 /\ y[2] = \hac
  BY ONLY <1>3
<1>5. SubSeq(s, 1, 3) = x /\ SubSeq(s, 24, 25) = y
  BY ONLY <1>1, <1>3
<1>6. x[1] = s[1] /\ x[2] = s[2] /\ x[3] = s[3] /\ y[1] = s[24] /\ y[2] = s[25]
  BY ONLY <1>2, <1>5, Zenon
<1>7. Len(s) = 25
  BY <1>1
<1> QED BY ONLY <1>4, <1>6, <1>7

\* The same for a script hash.
LEMMA P2SHBytes ==
  ASSUME NEW s \in Seq(Byte), IsP2SH(s)
  PROVE  Len(s) = 23 /\ s[1] = \ha9 /\ s[2] = 20 /\ s[23] = \h87
<1>1. Len(s) = 23 /\ SubSeq(s, 1, 2) = <<\ha9, 20>> /\ s[23] = \h87
  BY DEF IsP2SH
<1>2. SubSeq(s, 1, 2)[1] = s[1] /\ SubSeq(s, 1, 2)[2] = s[2]
  <2>1. Len(s) = 23
    BY <1>1
  <2> QED BY ONLY <2>1, s \in Seq(Byte)
<1>3. PICK x : x = <<\ha9, 20>>
  OBVIOUS
<1>4. x[1] = \ha9 /\ x[2] = 20
  BY ONLY <1>3
<1>5. SubSeq(s, 1, 2) = x
  BY ONLY <1>1, <1>3
<1>6. x[1] = s[1] /\ x[2] = s[2]
  BY ONLY <1>2, <1>5, Zenon
<1>7. Len(s) = 23 /\ s[23] = \h87
  BY <1>1
<1> QED BY ONLY <1>4, <1>6, <1>7

\* Two key hashes with one address are one script.
LEMMA SameP2PKH ==
  ASSUME NEW a \in Seq(Byte), NEW b \in Seq(Byte), IsP2PKH(a), IsP2PKH(b),
         pad_slice(SubSeq(a, 4, 23)) = pad_slice(SubSeq(b, 4, 23))
  PROVE  a = b
<1>1. Len(a) = 25 /\ a[1] = \h76 /\ a[2] = \ha9 /\ a[3] = 20 /\ a[24] = \h88 /\ a[25] = \hac
  BY P2PKHBytes
<1>2. Len(b) = 25 /\ b[1] = \h76 /\ b[2] = \ha9 /\ b[3] = 20 /\ b[24] = \h88 /\ b[25] = \hac
  BY P2PKHBytes
<1>3. PICK n : n = 20
  OBVIOUS
<1>4. \A i \in 4..23 : a[i] = b[i]
  <2>1. 4 \in Nat /\ 4 >= 1 /\ 23 \in Nat /\ 23 <= Len(a) /\ 23 <= Len(b) /\ n \in 0..32 /\ n = 23 - 4 + 1
    BY <1>1, <1>2, <1>3
  <2> QED BY <2>1, PadEq
<1>5. \A i \in 1..25 : i \in 4..23 \/ i = 1 \/ i = 2 \/ i = 3 \/ i = 24 \/ i = 25
  OBVIOUS
<1>6. a[1] = b[1] /\ a[2] = b[2] /\ a[3] = b[3] /\ a[24] = b[24] /\ a[25] = b[25]
  BY ONLY <1>1, <1>2
<1>7. \A i \in 1..25 : a[i] = b[i]
  BY ONLY <1>4, <1>5, <1>6
<1>8. PICK m : m = 25
  OBVIOUS
<1>9. m \in Nat /\ Len(a) = m /\ Len(b) = m /\ \A i \in 1..m : a[i] = b[i]
  BY <1>1, <1>2, <1>7, <1>8
<1> QED BY ONLY <1>9, ScriptEq, a \in Seq(Byte), b \in Seq(Byte)

\* The same for script hashes.
LEMMA SameP2SH ==
  ASSUME NEW a \in Seq(Byte), NEW b \in Seq(Byte), IsP2SH(a), IsP2SH(b),
         pad_slice(SubSeq(a, 3, 22)) = pad_slice(SubSeq(b, 3, 22))
  PROVE  a = b
<1>1. Len(a) = 23 /\ a[1] = \ha9 /\ a[2] = 20 /\ a[23] = \h87
  BY P2SHBytes
<1>2. Len(b) = 23 /\ b[1] = \ha9 /\ b[2] = 20 /\ b[23] = \h87
  BY P2SHBytes
<1>3. PICK n : n = 20
  OBVIOUS
<1>4. \A i \in 3..22 : a[i] = b[i]
  <2>1. 3 \in Nat /\ 3 >= 1 /\ 22 \in Nat /\ 22 <= Len(a) /\ 22 <= Len(b) /\ n \in 0..32 /\ n = 22 - 3 + 1
    BY <1>1, <1>2, <1>3
  <2> QED BY <2>1, PadEq
<1>5. \A i \in 1..23 : i \in 3..22 \/ i = 1 \/ i = 2 \/ i = 23
  OBVIOUS
<1>6. \A i \in 1..23 : a[i] = b[i]
  BY ONLY <1>1, <1>2, <1>4, <1>5
<1>7. PICK m : m = 23
  OBVIOUS
<1>8. m \in Nat /\ Len(a) = m /\ Len(b) = m /\ \A i \in 1..m : a[i] = b[i]
  BY <1>1, <1>2, <1>6, <1>7
<1> QED BY ONLY <1>8, ScriptEq, a \in Seq(Byte), b \in Seq(Byte)

\* The same for witness programs, whose version and length the type fixes.
LEMMA SameWitness ==
  ASSUME NEW a \in Seq(Byte), NEW b \in Seq(Byte), IsWitness(a), IsWitness(b),
         a[1] = b[1], a[2] = b[2], a[2] \in {20, 32},
         pad_slice(SubSeq(a, 3, Len(a))) = pad_slice(SubSeq(b, 3, Len(b)))
  PROVE  a = b
<1>1. PICK n : n = Len(a)
  OBVIOUS
<1>2. n \in Nat /\ n \in {22, 34} /\ Len(a) = n /\ Len(b) = n
  <2>1. a[2] + 2 = Len(a) /\ b[2] + 2 = Len(b)
    BY DEF IsWitness
  <2>2. CASE a[2] = 20
    <3>1. Len(a) = 20 + 2 /\ Len(b) = 20 + 2
      BY <2>1, <2>2
    <3> QED BY ONLY <1>1, <3>1
  <2>3. CASE a[2] = 32
    <3>1. Len(a) = 32 + 2 /\ Len(b) = 32 + 2
      BY <2>1, <2>3
    <3> QED BY ONLY <1>1, <3>1
  <2> QED BY <2>2, <2>3
<1>3. PICK m : m = n - 2
  OBVIOUS
<1>4. \A i \in 3..n : a[i] = b[i]
  <2>1. 3 \in Nat /\ 3 >= 1 /\ n <= Len(a) /\ n <= Len(b) /\ m \in 0..32 /\ m = n - 3 + 1
    BY ONLY <1>2, <1>3
  <2>2. pad_slice(SubSeq(a, 3, n)) = pad_slice(SubSeq(b, 3, n))
    BY ONLY <1>2, pad_slice(SubSeq(a, 3, Len(a))) = pad_slice(SubSeq(b, 3, Len(b)))
  <2> QED BY <1>2, <2>1, <2>2, PadEq
<1>5. \A i \in 1..n : i \in 3..n \/ i = 1 \/ i = 2
  BY ONLY <1>2
<1>6. \A i \in 1..n : a[i] = b[i]
  BY ONLY <1>4, <1>5, a[1] = b[1], a[2] = b[2]
<1> QED BY ONLY <1>2, <1>6, ScriptEq, a \in Seq(Byte), b \in Seq(Byte)

\* The same for bare keys, whose length the push byte repeats.
LEMMA SameP2PK ==
  ASSUME NEW a \in Seq(Byte), NEW b \in Seq(Byte), IsP2PK(a), IsP2PK(b),
         SubSeq(a, 2, Len(a) - 1) = SubSeq(b, 2, Len(b) - 1)
  PROVE  a = b
<1>1. /\ Len(a) \in {35, 67} /\ a[1] = Len(a) - 2 /\ a[Len(a)] = \hac
      /\ Len(b) \in {35, 67} /\ b[1] = Len(b) - 2 /\ b[Len(b)] = \hac
  BY DEF IsP2PK
<1>2. ASSUME NEW s \in Seq(Byte), Len(s) \in {35, 67}
      PROVE  Len(SubSeq(s, 2, Len(s) - 1)) = Len(s) - 2
  <2>1. PICK m : m = Len(s) - 1
    OBVIOUS
  <2>2. m \in Nat /\ m <= Len(s) /\ 2 <= m /\ Len(s) - 2 = m - 2 + 1
    BY ONLY <1>2, <2>1
  <2>3. Len(SubSeq(s, 2, m)) = m - 2 + 1
    BY ONLY <2>2, s \in Seq(Byte)
  <2> QED BY ONLY <2>1, <2>2, <2>3
<1>3. Len(a) = Len(b)
  <2>1. Len(a) - 2 = Len(b) - 2
    BY <1>1, <1>2
  <2> QED BY ONLY <1>1, <2>1
<1>4. PICK n : n = Len(a)
  OBVIOUS
<1>5. n \in {35, 67} /\ Len(a) = n /\ Len(b) = n
  BY ONLY <1>1, <1>3, <1>4
<1>6. PICK m : m = n - 1
  OBVIOUS
<1>7. PICK l : l = n - 2
  OBVIOUS
<1>8. n \in Nat /\ m \in Nat /\ l \in Nat /\ l = m - 2 + 1 /\ m <= n
  BY ONLY <1>5, <1>6, <1>7
<1>9. \A i \in 2..m : a[i] = b[i]
  <2>1. SubSeq(a, 2, m) = SubSeq(b, 2, m)
    BY ONLY <1>5, <1>6, SubSeq(a, 2, Len(a) - 1) = SubSeq(b, 2, Len(b) - 1)
  <2>2. m <= Len(a) /\ m <= Len(b) /\ 2 \in Nat /\ 2 >= 1 /\ m \in Nat
    BY ONLY <1>5, <1>8
  <2> TAKE i \in 2..m
  <2>3. a[i] = SubSeq(a, 2, m)[i - 2 + 1]
    BY ONLY <2>2, SubSeqAt, a \in Seq(Byte), i \in 2..m
  <2>4. b[i] = SubSeq(b, 2, m)[i - 2 + 1]
    BY ONLY <2>2, SubSeqAt, b \in Seq(Byte), i \in 2..m
  <2> QED BY ONLY <2>1, <2>3, <2>4
<1>10. \A i \in 1..n : i \in 2..m \/ i = 1 \/ i = n
  BY ONLY <1>6, <1>8
<1>11. a[1] = b[1] /\ a[n] = b[n]
  BY ONLY <1>1, <1>5
<1>12. \A i \in 1..n : a[i] = b[i]
  BY ONLY <1>9, <1>10, <1>11
<1> QED BY ONLY <1>5, <1>8, <1>12, ScriptEq, a \in Seq(Byte), b \in Seq(Byte)

\* What the address of each type is taken from.
LEMMA Classified ==
  ASSUME NEW s, NEW t, NEW h, classify_script(s) = <<t, h>>
  PROVE  /\ t = "P2PKH" => IsP2PKH(s) /\ h = pad_slice(SubSeq(s, 4, 23))
         /\ t = "P2SH" => IsP2SH(s) /\ h = pad_slice(SubSeq(s, 3, 22))
         /\ t \in {"P2WPKH", "P2WSH", "P2TR"} =>
              IsWitness(s) /\ t = WitnessType(s) /\ h = pad_slice(SubSeq(s, 3, Len(s)))
         /\ t = "P2PK" => IsP2PK(s) /\ h = hash160(SubSeq(s, 2, Len(s) - 1))
         /\ t = "BareMultisig" => h = hash160(s)
<1>1. WitnessType(s) \in {"P2WPKH", "P2WSH", "P2TR", "WitnessUnknown"}
  BY DEF WitnessType
<1>2. CASE IsP2PKH(s)
  <2>1. <<t, h>> = <<"P2PKH", pad_slice(SubSeq(s, 4, 23))>>
    BY <1>2 DEF classify_script
  <2> QED BY <1>2, <2>1
<1>3. CASE ~IsP2PKH(s) /\ IsP2SH(s)
  <2>1. <<t, h>> = <<"P2SH", pad_slice(SubSeq(s, 3, 22))>>
    BY <1>3 DEF classify_script
  <2> QED BY <1>3, <2>1
<1>4. CASE ~IsP2PKH(s) /\ ~IsP2SH(s) /\ IsWitness(s)
  <2>1. <<t, h>> = <<WitnessType(s), pad_slice(SubSeq(s, 3, Len(s)))>>
    BY <1>4 DEF classify_script
  <2> QED BY <1>1, <1>4, <2>1
<1>5. CASE ~IsP2PKH(s) /\ ~IsP2SH(s) /\ ~IsWitness(s)
  <2>1. \/ <<t, h>> = <<"OpReturn", NoAddress>>
        \/ IsP2PK(s) /\ <<t, h>> = <<"P2PK", hash160(SubSeq(s, 2, Len(s) - 1))>>
        \/ <<t, h>> = <<"BareMultisig", hash160(s)>>
        \/ <<t, h>> = <<"Unknown", NoAddress>>
    BY <1>5 DEF classify_script
  <2> QED BY <2>1
<1> QED BY <1>2, <1>3, <1>4, <1>5

\* The version opcode and the push length of the programs with an address.
Version(t) == IF t = "P2TR" THEN \h51 ELSE 0
Push(t)    == IF t = "P2WPKH" THEN 20 ELSE 32

\* What the type of a program says of its first two bytes.
LEMMA WitnessBytes ==
  ASSUME NEW s, NEW t \in {"P2WPKH", "P2WSH", "P2TR"}, t = WitnessType(s)
  PROVE  s[1] = Version(t) /\ s[2] = Push(t)
  BY DEF WitnessType, Version, Push

(* classify_script gives no two scripts the same address: for a type that    *)
(* has addresses, type and stored bytes determine the whole script, whatever *)
(* its length, padding and the order of the tests.                           *)
THEOREM AddressNamesOneScript ==
  ASSUME NEW a \in Seq(Byte), NEW b \in Seq(Byte), NEW t \in AddressTypes, NEW h,
         classify_script(a) = <<t, h>>, classify_script(b) = <<t, h>>
  PROVE  a = b
<1>1. CASE t = "P2PKH"
  <2>1. IsP2PKH(a) /\ IsP2PKH(b) /\ pad_slice(SubSeq(a, 4, 23)) = pad_slice(SubSeq(b, 4, 23))
    BY <1>1, Classified
  <2> QED BY ONLY <2>1, SameP2PKH, a \in Seq(Byte), b \in Seq(Byte)
<1>2. CASE t = "P2SH"
  <2>1. IsP2SH(a) /\ IsP2SH(b) /\ pad_slice(SubSeq(a, 3, 22)) = pad_slice(SubSeq(b, 3, 22))
    BY <1>2, Classified
  <2> QED BY ONLY <2>1, SameP2SH, a \in Seq(Byte), b \in Seq(Byte)
<1>3. CASE t \in {"P2WPKH", "P2WSH", "P2TR"}
  <2>1. /\ IsWitness(a) /\ IsWitness(b) /\ t = WitnessType(a) /\ t = WitnessType(b)
        /\ pad_slice(SubSeq(a, 3, Len(a))) = pad_slice(SubSeq(b, 3, Len(b)))
    BY <1>3, Classified
  <2>2. a[1] = Version(t) /\ a[2] = Push(t) /\ b[1] = Version(t) /\ b[2] = Push(t)
    BY ONLY <1>3, <2>1, WitnessBytes
  <2>3. a[1] = b[1] /\ a[2] = b[2] /\ (a[2] = 20 \/ a[2] = 32)
    BY ONLY <2>2 DEF Push
  <2> QED BY ONLY <2>1, <2>3, SameWitness, a \in Seq(Byte), b \in Seq(Byte)
<1>4. CASE t = "P2PK"
  <2>1. /\ IsP2PK(a) /\ IsP2PK(b)
        /\ hash160(SubSeq(a, 2, Len(a) - 1)) = hash160(SubSeq(b, 2, Len(b) - 1))
    BY <1>4, Classified
  <2>2. SubSeq(a, 2, Len(a) - 1) = SubSeq(b, 2, Len(b) - 1)
    BY <2>1 DEF hash160
  <2> QED BY ONLY <2>1, <2>2, SameP2PK, a \in Seq(Byte), b \in Seq(Byte)
<1>5. CASE t = "BareMultisig"
  <2>1. hash160(a) = hash160(b)
    BY <1>5, Classified
  <2> QED BY <2>1 DEF hash160
<1> QED BY <1>1, <1>2, <1>3, <1>4, <1>5 DEF AddressTypes

=============================================================================
