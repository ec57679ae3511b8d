--------------------------- MODULE BlockLog_proofs ---------------------------
(***************************************************************************)
(* Proofs about BlockLog for any number and any sizes of blocks.           *)
(***************************************************************************)
EXTENDS BlockLog, SequenceTheorems, FiniteSetTheorems, NaturalsInduction, WellFoundedInduction, TLAPS

(***************************************************************************)
(* The layout of the files.                                                *)
(***************************************************************************)

LEMMA LeastOf ==
  ASSUME NEW T, T \subseteq Nat, T # {}
  PROVE  \E k \in T : \A j \in T : k <= j
<1>1. PICK k \in T : \A j \in T : ~(<<j, k>> \in OpToRel(<, Nat))
  BY NatLessThanWellFounded, WFMin
<1>2. \A j \in T : ~(j < k)
  BY <1>1 DEF OpToRel
<1> QED  BY <1>2

Step(f, n) == IF n = 1 THEN 0 ELSE f[n - 1] + Size[n - 1] + 1

\* The recursive definition of Start has a solution.
LEMMA StartExists == \E f : f = [n \in 1 .. MaxBlock + 1 |-> Step(f, n)]
<1> DEFINE P(k) == \E f : f = [n \in 1 .. k + 1 |-> Step(f, n)]
           T == {k \in 0 .. MaxBlock : ~P(k)}
<1>m. MaxBlock \in Nat
  BY BlockLogAssumption
<1>1. P(0)
  <2> DEFINE f == [n \in 1 .. 1 |-> 0]
  <2>1. f = [n \in 1 .. 0 + 1 |-> Step(f, n)]
    BY DEF Step
  <2> QED  BY <2>1
<1>2. ASSUME NEW k \in 1 .. MaxBlock, P(k - 1) PROVE P(k)
  <2>1. PICK f : f = [n \in 1 .. (k - 1) + 1 |-> Step(f, n)]
    BY <1>2
  <2>2. (k - 1) + 1 = k /\ 1 .. k + 1 = (1 .. k) \cup {k + 1} /\ k \in Nat /\ k >= 1
    BY <1>m
  <2>3. \A n \in 1 .. k : f[n] = Step(f, n)
    BY <2>1, <2>2
  <2> DEFINE g == [n \in 1 .. k + 1 |-> IF n = k + 1 THEN f[k] + Size[k] + 1 ELSE f[n]]
  <2>4. ASSUME NEW n \in 1 .. k + 1 PROVE g[n] = Step(g, n)
    <3>1. CASE n = k + 1
      BY <2>2, <3>1 DEF Step
    <3>2. CASE n # k + 1 /\ n = 1
      BY <2>2, <2>3, <3>2 DEF Step
    <3>3. CASE n # k + 1 /\ n # 1
      <4>1. n \in 1 .. k /\ n - 1 \in 1 .. k /\ n - 1 # k + 1 /\ n - 1 \in 1 .. k + 1
        BY <2>2, <3>3
      <4>2. g[n] = f[n] /\ g[n - 1] = f[n - 1]
        BY <3>3, <4>1
      <4> QED  BY <2>3, <3>3, <4>1, <4>2 DEF Step
    <3> QED  BY <3>1, <3>2, <3>3
  <2>5. g = [n \in 1 .. k + 1 |-> Step(g, n)]
    BY <2>4
  <2> QED  BY <2>5
<1> HIDE DEF P
<1>3. T = {}
  <2> SUFFICES ASSUME T # {} PROVE FALSE
    OBVIOUS
  <2>1. T \subseteq Nat
    BY <1>m
  <2>2. PICK k \in T : \A j \in T : k <= j
    BY <2>1, LeastOf
  <2>3. k # 0 /\ k \in 1 .. MaxBlock
    BY <1>1, <1>m, <2>2
  <2>4. k - 1 \in 0 .. MaxBlock /\ ~(k <= k - 1)
    BY <1>m, <2>3
  <2>5. P(k - 1)
    BY <2>2, <2>4
  <2> QED  BY <1>2, <2>2, <2>3, <2>5
<1>4. P(MaxBlock)
  BY <1>3, <1>m
<1> QED  BY <1>4 DEF P

LEMMA StartStep ==
  /\ DOMAIN Start = 1 .. MaxBlock + 1 /\ Start[1] = 0
  /\ \A n \in Nums : Start[n + 1] = Start[n] + Size[n] + 1
<1>m. MaxBlock \in Nat
  BY BlockLogAssumption
<1>1. Start = CHOOSE f : f = [n \in 1 .. MaxBlock + 1 |-> Step(f, n)]
  BY DEF Start, Step
<1>2. Start = [n \in 1 .. MaxBlock + 1 |-> Step(Start, n)]
  BY <1>1, StartExists
<1>3. Start[1] = 0
  BY <1>2, <1>m DEF Step
<1>4. ASSUME NEW n \in Nums PROVE Start[n + 1] = Start[n] + Size[n] + 1
  <2>1. n + 1 \in 1 .. MaxBlock + 1 /\ n + 1 # 1 /\ (n + 1) - 1 = n
    BY <1>m DEF Nums
  <2> QED  BY <1>2, <2>1 DEF Step
<1> QED  BY <1>2, <1>3, <1>4

\* Blocks start at natural numbers, each behind the one before.
LEMMA StartTypes == \A n \in 1 .. MaxBlock + 1 : Start[n] \in Nat
<1> DEFINE T == {n \in 1 .. MaxBlock + 1 : Start[n] \notin Nat}
<1>m. MaxBlock \in Nat /\ \A n \in Nums : Size[n] \in Nat \ {0}
  BY BlockLogAssumption
<1> SUFFICES ASSUME T # {} PROVE FALSE
  OBVIOUS
<1>0. T \subseteq Nat
  BY <1>m
<1>1. PICK k \in T : \A j \in T : k <= j
  BY <1>0, LeastOf
<1>2. k # 1
  BY StartStep
<1>3. k - 1 \in Nums /\ (k - 1) + 1 = k /\ k - 1 \in 1 .. MaxBlock + 1 /\ ~(k <= k - 1)
  BY <1>m, <1>1, <1>2 DEF Nums
<1>4. Start[k - 1] \in Nat
  BY <1>1, <1>3
<1> QED  BY <1>1, <1>3, <1>4, <1>m, StartStep

LEMMA StartGrows ==
  \A n \in 1 .. MaxBlock + 1 : \A m \in 1 .. MaxBlock + 1 : n < m => Start[n] + Size[n] + 1 <= Start[m]
<1>m. MaxBlock \in Nat /\ \A n \in Nums : Size[n] \in Nat \ {0}
  BY BlockLogAssumption
<1> TAKE n \in 1 .. MaxBlock + 1
<1> DEFINE T == {m \in 1 .. MaxBlock + 1 : n < m /\ ~(Start[n] + Size[n] + 1 <= Start[m])}
<1> SUFFICES ASSUME T # {} PROVE FALSE
  OBVIOUS
<1>0. T \subseteq Nat
  BY <1>m
<1>1. PICK k \in T : \A j \in T : k <= j
  BY <1>0, LeastOf
<1>2. k - 1 \in Nums /\ (k - 1) + 1 = k /\ k - 1 \in 1 .. MaxBlock + 1 /\ ~(k <= k - 1) /\ n \in Nums
  BY <1>m, <1>1 DEF Nums
<1>3. Start[k] = Start[k - 1] + Size[k - 1] + 1 /\ Size[k - 1] \in Nat /\ Size[n] \in Nat
  BY <1>2, <1>m, StartStep
<1>4. Start[k] \in Nat /\ Start[k - 1] \in Nat /\ Start[n] \in Nat
  BY <1>1, <1>2, StartTypes
<1>5. CASE n = k - 1
  BY <1>1, <1>3, <1>4, <1>5
<1>6. CASE n # k - 1
  <2>1. n < k - 1
    BY <1>1, <1>2, <1>6, <1>m
  <2>2. Start[n] + Size[n] + 1 <= Start[k - 1]
    BY <1>1, <1>2, <2>1
  <2> QED  BY <1>1, <1>3, <1>4, <2>2
<1> QED  BY <1>5, <1>6

\* Every cell of the layout belongs to one block.
LEMMA Covered ==
  ASSUME NEW i \in Nat, 0 < i, i <= Start[MaxBlock + 1]
  PROVE  \E n \in Nums : Start[n] < i /\ i <= Start[n + 1]
<1> DEFINE T == {n \in 1 .. MaxBlock + 1 : i <= Start[n]}
<1>m. MaxBlock \in Nat
  BY BlockLogAssumption
<1>1. PICK k \in T : \A j \in T : k <= j
  <2>1. MaxBlock + 1 \in T /\ T \subseteq Nat
    BY <1>m
  <2> QED  BY <2>1, LeastOf
<1>2. k # 1
  BY <1>1, StartStep
<1>3. k - 1 \in Nums /\ (k - 1) + 1 = k /\ k - 1 \in 1 .. MaxBlock + 1 /\ ~(k <= k - 1)
  BY <1>m, <1>1, <1>2 DEF Nums
<1>4. ~(i <= Start[k - 1]) /\ Start[k - 1] \in Nat
  BY <1>1, <1>3, StartTypes
<1> QED  BY <1>1, <1>3, <1>4

\* How many whole blocks a beginning of the layout of length l has.
LEMMA WholeBlocks ==
  ASSUME NEW l \in Nat, l <= Start[MaxBlock + 1]
  PROVE  \E k \in 0 .. MaxBlock : Start[k + 1] <= l /\ (k < MaxBlock => l < Start[k + 2])
<1>m. MaxBlock \in Nat /\ Start[1] = 0
  BY BlockLogAssumption, StartStep
<1>1. CASE l = Start[MaxBlock + 1]
  BY <1>1, <1>m
<1>2. CASE l < Start[MaxBlock + 1]
  <2> DEFINE T == {n \in 1 .. MaxBlock + 1 : l < Start[n]}
  <2>1. PICK k \in T : \A j \in T : k <= j
    <3>1. MaxBlock + 1 \in T /\ T \subseteq Nat
      BY <1>2, <1>m
    <3> QED  BY <3>1, LeastOf
  <2>2. k # 1
    BY <1>m, <2>1
  <2>3. k - 2 \in 0 .. MaxBlock /\ (k - 2) + 1 = k - 1 /\ (k - 2) + 2 = k /\ k - 1 \in 1 .. MaxBlock + 1 /\ ~(k <= k - 1)
    BY <1>m, <2>1, <2>2
  <2>4. ~(l < Start[k - 1]) /\ Start[k - 1] \in Nat
    BY <2>1, <2>3, StartTypes
  <2>5. Start[(k - 2) + 1] <= l /\ l < Start[(k - 2) + 2]
    BY <2>1, <2>3, <2>4
  <2> QED  BY <2>3, <2>5
<1>3. Start[MaxBlock + 1] \in Nat
  BY <1>m, StartTypes
<1> QED  BY <1>1, <1>2, <1>3

(***************************************************************************)
(* Files that are a beginning of the layout.                               *)
(***************************************************************************)

\* A beginning of a beginning is one.
LEMMA LaidPrefix ==
  ASSUME NEW f \in Seq(Cell), NEW g \in Seq(Cell), Laid(f \o g)
  PROVE  Laid(f) /\ Len(f) <= Len(f \o g)
<1>m. MaxBlock \in Nat /\ \A n \in Nums : Size[n] \in Nat \ {0} /\ n \in 1 .. MaxBlock + 1 /\ n + 1 \in 1 .. MaxBlock + 1
  BY BlockLogAssumption DEF Nums
<1>1. /\ Len(f) \in Nat /\ Len(g) \in Nat /\ Len(f \o g) = Len(f) + Len(g)
      /\ \A i \in 1 .. Len(f) : (f \o g)[i] = f[i]
  <2>1. Len(f) \in Nat /\ Len(g) \in Nat /\ Len(f \o g) = Len(f) + Len(g)
    BY LenProperties, ConcatProperties
  <2>2. ASSUME NEW i \in 1 .. Len(f) PROVE (f \o g)[i] = f[i]
    <3>1. i \in 1 .. Len(f) + Len(g) /\ i <= Len(f)
      BY <2>1
    <3> QED  BY <3>1, ConcatProperties
  <2> QED  BY <2>1, <2>2
<1>2. \A n \in 1 .. MaxBlock + 1 : Start[n] \in Nat
  BY StartTypes
<1>3. Len(f) <= Start[MaxBlock + 1]
  BY <1>1, <1>2, <1>m DEF Laid
<1>4. ASSUME NEW n \in Nums, NEW i \in 1 .. Size[n], Start[n] + i <= Len(f)
      PROVE  f[Start[n] + i] = <<"block", n, i>>
  <2>1. Start[n] \in Nat /\ Size[n] \in Nat /\ Start[n] + i \in 1 .. Len(f) /\ Start[n] + i <= Len(f \o g)
    BY <1>1, <1>2, <1>4, <1>m
  <2> QED  BY <1>1, <2>1 DEF Laid
<1>5. ASSUME NEW n \in Nums, Start[n + 1] <= Len(f)
      PROVE  f[Start[n + 1]] = <<"pos", Start[n], 1>>
  <2>1. Start[n + 1] = Start[n] + Size[n] + 1 /\ Start[n] \in Nat /\ Size[n] \in Nat
    BY <1>2, <1>m, StartStep
  <2>2. Start[n + 1] \in 1 .. Len(f) /\ Start[n + 1] <= Len(f \o g)
    BY <1>1, <1>5, <2>1
  <2> QED  BY <1>1, <2>2 DEF Laid
<1>6. Len(f) <= Len(f \o g)
  BY <1>1
<1>7. Laid(f)
  BY <1>3, <1>4, <1>5 DEF Laid
<1> QED  BY <1>6, <1>7

\* The positions among the cells are the ends of the blocks.
LEMMA EndsOf ==
  ASSUME NEW f \in Seq(Cell), Laid(f), NEW i \in 1 .. Len(f)
  PROVE  IsPos(f[i]) <=> \E n \in Nums : i = Start[n + 1]
<1>m. MaxBlock \in Nat /\ \A n \in Nums : Size[n] \in Nat \ {0} /\ n \in 1 .. MaxBlock + 1 /\ n + 1 \in 1 .. MaxBlock + 1
  BY BlockLogAssumption DEF Nums
<1>1. Len(f) \in Nat /\ Len(f) <= Start[MaxBlock + 1] /\ Start[MaxBlock + 1] \in Nat
  BY <1>m, LenProperties, StartTypes DEF Laid
<1>2. i \in Nat /\ 0 < i /\ i <= Start[MaxBlock + 1]
  BY <1>1
<1>3. PICK n \in Nums : Start[n] < i /\ i <= Start[n + 1]
  BY <1>2, Covered
<1>4. Start[n + 1] = Start[n] + Size[n] + 1 /\ Start[n] \in Nat /\ Size[n] \in Nat \ {0}
  BY <1>m, StartStep, StartTypes
<1>5. CASE i = Start[n + 1]
  <2>1. f[i] = <<"pos", Start[n], 1>>
    BY <1>1, <1>5 DEF Laid
  <2> QED  BY <1>5, <2>1 DEF IsPos
<1>6. CASE i # Start[n + 1]
  <2>1. i - Start[n] \in 1 .. Size[n] /\ Start[n] + (i - Start[n]) = i
    BY <1>2, <1>3, <1>4, <1>6
  <2>2. f[i] = <<"block", n, i - Start[n]>>
    BY <1>1, <2>1 DEF Laid
  <2>3. ~IsPos(f[i])
    BY <2>2 DEF IsPos
  <2>4. ASSUME NEW m \in Nums, i = Start[m + 1] PROVE FALSE
    <3>1. f[i] = <<"pos", Start[m], 1>>
      BY <1>1, <2>4 DEF Laid
    <3> QED  BY <2>3, <3>1 DEF IsPos
  <2> QED  BY <2>3, <2>4
<1> QED  BY <1>5, <1>6

\* The first k ends of blocks are k cells.
LEMMA CountEnds ==
  ASSUME NEW k \in 0 .. MaxBlock
  PROVE  LET E == {Start[n + 1] : n \in 1 .. k} IN IsFiniteSet(E) /\ Cardinality(E) = k
<1> DEFINE E == {Start[n + 1] : n \in 1 .. k}
           b == [n \in 1 .. k |-> Start[n + 1]]
<1>m. MaxBlock \in Nat /\ \A n \in Nums : Size[n] \in Nat \ {0}
  BY BlockLogAssumption
<1>1. ASSUME NEW n \in 1 .. k, NEW m \in 1 .. k, Start[n + 1] = Start[m + 1] PROVE n = m
  <2>1. n + 1 \in 1 .. MaxBlock + 1 /\ m + 1 \in 1 .. MaxBlock + 1
    BY <1>m
  <2>2. Start[n + 1] \in Nat /\ Start[m + 1] \in Nat
    BY <2>1, StartTypes
  <2>3. ASSUME NEW x \in Nums, NEW y \in Nums, x < y, Start[x + 1] = Start[y + 1] PROVE FALSE
    <3>1. x + 1 \in 1 .. MaxBlock + 1 /\ y + 1 \in 1 .. MaxBlock + 1 /\ x + 1 < y + 1 /\ x + 1 \in Nums
      BY <1>m, <2>3 DEF Nums
    <3>2. Start[x + 1] + Size[x + 1] + 1 <= Start[y + 1] /\ Size[x + 1] \in Nat
      BY <1>m, <3>1, StartGrows
    <3>3. Start[x + 1] \in Nat
      BY <3>1, StartTypes
    <3> QED  BY <2>3, <3>2, <3>3
  <2>4. n \in Nums /\ m \in Nums
    BY <1>m DEF Nums
  <2>5. ~(n < m) /\ ~(m < n)
    BY <1>1, <2>3, <2>4
  <2> QED  BY <2>4, <2>5 DEF Nums
<1>2. b \in [1 .. k -> E] /\ \A e \in E : \E n \in 1 .. k : b[n] = e
  OBVIOUS
<1>3. \A n, m \in 1 .. k : b[n] = b[m] => n = m
  BY <1>1
<1>4. b \in Bijection(1 .. k, E)
  BY <1>2, <1>3 DEF Bijection, Injection, Surjection, IsInjective
<1>5. IsFiniteSet(1 .. k) /\ Cardinality(1 .. k) = k
  BY <1>m, FS_Interval
<1> QED  BY <1>4, <1>5, FS_Bijection DEF ExistsBijection

\* The positions in a beginning of the layout with k whole blocks.
LEMMA TrailersOf ==
  ASSUME NEW f \in Seq(Cell), Laid(f), NEW k \in 0 .. MaxBlock,
         Start[k + 1] <= Len(f), k < MaxBlock => Len(f) < Start[k + 2]
  PROVE  Trailers(f) = [n \in 1 .. k |-> Start[n]]
<1> DEFINE ends == {i \in 1 .. Len(f) : IsPos(f[i])}
           E(j) == {Start[n + 1] : n \in 1 .. j}
           nth(j) == CHOOSE i \in ends : Cardinality({x \in ends : x <= i}) = j
<1>m. MaxBlock \in Nat /\ \A n \in Nums : Size[n] \in Nat \ {0} /\ n \in 1 .. MaxBlock + 1 /\ n + 1 \in 1 .. MaxBlock + 1
  BY BlockLogAssumption DEF Nums
<1>1. Len(f) \in Nat /\ \A n \in 1 .. MaxBlock + 1 : Start[n] \in Nat
  BY LenProperties, StartTypes
<1>o. ASSUME NEW x \in 1 .. MaxBlock + 1, NEW y \in 1 .. MaxBlock + 1, x < y PROVE Start[x] < Start[y]
  <2>1. x \in Nums
    BY <1>m, <1>o DEF Nums
  <2>2. Start[x] + Size[x] + 1 <= Start[y] /\ Size[x] \in Nat
    BY <1>m, <1>o, <2>1, StartGrows
  <2> QED  BY <1>1, <2>2
<1>2. ASSUME NEW n \in Nums PROVE Start[n + 1] \in 1 .. Len(f) <=> n <= k
  <2>1. Start[n + 1] = Start[n] + Size[n] + 1 /\ Start[n] \in Nat /\ Size[n] \in Nat
    BY <1>1, <1>m, StartStep
  <2>2. n \in Nat /\ k \in Nat /\ k + 1 \in 1 .. MaxBlock + 1 /\ n + 1 \in 1 .. MaxBlock + 1
    BY <1>m DEF Nums
  <2>3. CASE n = k
    BY <1>1, <2>1, <2>2, <2>3
  <2>4. CASE n < k
    <3>1. Start[n + 1] < Start[k + 1]
      BY <1>o, <2>2, <2>4
    <3> QED  BY <1>1, <2>1, <2>2, <2>4, <3>1
  <2>5. CASE n > k
    <3>1. k < MaxBlock /\ k + 2 \in 1 .. MaxBlock + 1
      BY <1>m, <2>2, <2>5 DEF Nums
    <3>2. Start[k + 2] <= Start[n + 1]
      <4>1. CASE n = k + 1
        <5>1. n + 1 = k + 2
          BY <2>2, <4>1
        <5> QED  BY <1>1, <2>2, <5>1
      <4>2. CASE n # k + 1
        <5>1. k + 2 < n + 1
          BY <2>2, <2>5, <4>2
        <5>2. Start[k + 2] < Start[n + 1]
          BY <1>o, <2>2, <3>1, <5>1
        <5> QED  BY <1>1, <2>2, <3>1, <5>2
      <4> QED  BY <4>1, <4>2
    <3>3. Len(f) < Start[k + 2] /\ Start[k + 2] \in Nat /\ Start[n + 1] \in Nat
      BY <1>1, <2>2, <3>1
    <3> QED  BY <1>1, <2>2, <2>5, <3>2, <3>3
  <2> QED  BY <2>2, <2>3, <2>4, <2>5
<1>3. ends = E(k)
  <2>1. ASSUME NEW i \in ends PROVE i \in E(k)
    <3>1. PICK n \in Nums : i = Start[n + 1]
      BY EndsOf
    <3>2. n <= k /\ n \in 1 .. k
      BY <1>2, <1>m, <3>1 DEF Nums
    <3> QED  BY <3>1, <3>2
  <2>2. ASSUME NEW i \in E(k) PROVE i \in ends
    <3>1. PICK n \in 1 .. k : i = Start[n + 1]
      OBVIOUS
    <3>2. n \in Nums /\ n <= k
      BY <1>m DEF Nums
    <3>3. i \in 1 .. Len(f)
      BY <1>2, <3>1, <3>2
    <3> QED  BY <3>1, <3>2, <3>3, EndsOf
  <2> QED  BY <2>1, <2>2
<1>4. ASSUME NEW n \in 1 .. k PROVE {x \in ends : x <= Start[n + 1]} = E(n)
  <2>0. n \in Nat /\ n <= k /\ k \in Nat /\ k <= MaxBlock
    BY <1>m
  <2>1. ASSUME NEW m \in 1 .. k PROVE Start[m + 1] <= Start[n + 1] <=> m <= n
    <3>1. m + 1 \in 1 .. MaxBlock + 1 /\ n + 1 \in 1 .. MaxBlock + 1 /\ m \in Nat
      BY <1>m
    <3>2. Start[m + 1] \in Nat /\ Start[n + 1] \in Nat
      BY <1>1, <3>1
    <3>3. CASE m = n
      BY <2>0, <3>2, <3>3
    <3>4. CASE m < n
      <4>1. Start[m + 1] < Start[n + 1]
        BY <1>o, <2>0, <3>1, <3>4
      <4> QED  BY <2>0, <3>1, <3>2, <3>4, <4>1
    <3>5. CASE m > n
      <4>1. Start[n + 1] < Start[m + 1]
        BY <1>o, <2>0, <3>1, <3>5
      <4> QED  BY <2>0, <3>1, <3>2, <3>5, <4>1
    <3> QED  BY <2>0, <3>1, <3>3, <3>4, <3>5
  <2>2. ASSUME NEW x \in ends, x <= Start[n + 1] PROVE x \in E(n)
    <3>1. PICK m \in 1 .. k : x = Start[m + 1]
      BY <1>3
    <3>2. m \in 1 .. n
      BY <2>0, <2>1, <2>2, <3>1
    <3> QED  BY <3>1, <3>2
  <2>3. ASSUME NEW x \in E(n) PROVE x \in ends /\ x <= Start[n + 1]
    <3>1. PICK m \in 1 .. n : x = Start[m + 1]
      OBVIOUS
    <3>2. m \in 1 .. k /\ m <= n
      BY <2>0
    <3> QED  BY <1>3, <2>1, <3>1, <3>2
  <2> QED  BY <2>2, <2>3
<1>5. ASSUME NEW n \in 1 .. k PROVE Cardinality({x \in ends : x <= Start[n + 1]}) = n
  <2>1. n \in 0 .. MaxBlock
    BY <1>m
  <2> QED  BY <1>4, <2>1, CountEnds
<1>6. Cardinality(ends) = k
  BY <1>3, CountEnds
<1> HIDE DEF ends
<1>7. ASSUME NEW n \in 1 .. k PROVE nth(n) = Start[n + 1]
  <2>1. Start[n + 1] \in ends
    BY <1>3
  <2>2. \E i \in ends : Cardinality({x \in ends : x <= i}) = n
    BY <1>5, <2>1
  <2>3. nth(n) \in ends /\ Cardinality({x \in ends : x <= nth(n)}) = n
    BY <2>2
  <2> HIDE DEF nth
  <2>4. PICK m \in 1 .. k : nth(n) = Start[m + 1]
    BY <1>3, <2>3
  <2>5. Cardinality({x \in ends : x <= nth(n)}) = m
    BY <1>5, <2>4
  <2> QED  BY <2>3, <2>4, <2>5
<1> HIDE DEF nth
<1>8. ASSUME NEW n \in 1 .. k PROVE f[nth(n)][2] = Start[n]
  <2>1. n \in Nums /\ Start[n + 1] <= Len(f)
    <3>1. n \in Nums /\ n <= k
      BY <1>m DEF Nums
    <3>2. Start[n + 1] \in 1 .. Len(f)
      BY <1>2, <3>1
    <3> QED  BY <1>1, <3>1, <3>2
  <2>2. f[Start[n + 1]] = <<"pos", Start[n], 1>>
    BY <2>1 DEF Laid
  <2> QED  BY <1>7, <2>2
<1>9. Trailers(f) = [j \in 1 .. k |-> f[nth(j)][2]]
  BY <1>6 DEF Trailers, ends, nth
<1> QED  BY <1>8, <1>9

\* A file that ends behind block k.
LEMMA EndsAt ==
  ASSUME NEW f \in Seq(Cell), Laid(f), NEW k \in Nums, Len(f) = Start[k + 1]
  PROVE  /\ f # <<>> /\ Last(f) = <<"pos", Start[k], 1>> /\ HeadOf(f) = k
         /\ Trailers(f) = [n \in 1 .. k |-> Start[n]]
         /\ \A n \in 1 .. k : BlockAt(f, Start[n]) = n
<1>m. MaxBlock \in Nat /\ \A n \in Nums : Size[n] \in Nat \ {0} /\ n \in 1 .. MaxBlock + 1 /\ n + 1 \in 1 .. MaxBlock + 1
  BY BlockLogAssumption DEF Nums
<1>k. k \in Nat /\ k >= 1 /\ k <= MaxBlock /\ k \in 0 .. MaxBlock /\ k \in 1 .. k
  BY <1>m DEF Nums
<1>1. \A n \in 1 .. MaxBlock + 1 : Start[n] \in Nat
  BY StartTypes
<1>2. ASSUME NEW n \in 1 .. k PROVE BlockAt(f, Start[n]) = n
  <2>1. n \in Nums /\ Size[n] \in Nat \ {0} /\ Start[n] \in Nat /\ Start[n + 1] \in Nat
        /\ Start[n + 1] = Start[n] + Size[n] + 1
    <3>1. n \in Nums
      BY <1>m, <1>k DEF Nums
    <3> QED  BY <1>1, <1>m, <3>1, StartStep
  <2>2. Start[n + 1] <= Len(f)
    <3>1. CASE n = k
      BY <2>1, <3>1
    <3>2. CASE n # k
      <4>1. n + 1 <= k /\ n + 1 \in 1 .. MaxBlock + 1 /\ k + 1 \in 1 .. MaxBlock + 1 /\ n + 1 < k + 1 /\ n + 1 \in Nums
        BY <1>m, <1>k, <3>2 DEF Nums
      <4>2. Start[n + 1] + Size[n + 1] + 1 <= Start[k + 1] /\ Size[n + 1] \in Nat /\ Start[k + 1] \in Nat
        BY <1>1, <1>m, <4>1, StartGrows
      <4> QED  BY <2>1, <4>2
    <3> QED  BY <3>1, <3>2
  <2>3. Len(f) \in Nat /\ 1 \in 1 .. Size[n] /\ Start[n] + 1 <= Len(f) /\ Start[n] \in 0 .. Len(f) - 1
        /\ Start[n] + Size[n] <= Len(f)
    BY <2>1, <2>2, LenProperties
  <2>4. f[Start[n] + 1] = <<"block", n, 1>>
    BY <2>1, <2>3 DEF Laid
  <2> QED  BY <2>3, <2>4 DEF BlockAt
<1>3. f[Len(f)] = <<"pos", Start[k], 1>>
  <2>1. Start[k + 1] \in Nat /\ Start[k + 1] <= Len(f)
    BY <1>1, <1>m
  <2> QED  BY <2>1 DEF Laid
<1>4. f # <<>>
  <2>1. Start[k + 1] = Start[k] + Size[k] + 1 /\ Start[k] \in Nat /\ Size[k] \in Nat
    BY <1>1, <1>m, StartStep
  <2>2. Len(f) # 0
    BY <2>1
  <2> QED  BY <2>2
<1>5. HeadOf(f) = k
  BY <1>2, <1>3, <1>4, <1>k DEF HeadOf, Last, IsPos
<1>6. Trailers(f) = [n \in 1 .. k |-> Start[n]]
  <2>1. Start[k + 1] <= Len(f)
    BY <1>1, <1>m
  <2>2. ASSUME k < MaxBlock PROVE Len(f) < Start[k + 2]
    <3>1. k + 1 \in Nums /\ k + 2 \in 1 .. MaxBlock + 1 /\ k + 1 \in 1 .. MaxBlock + 1 /\ (k + 1) + 1 = k + 2
      BY <1>m, <1>k, <2>2 DEF Nums
    <3>2. Start[k + 2] = Start[k + 1] + Size[k + 1] + 1 /\ Size[k + 1] \in Nat /\ Start[k + 1] \in Nat
      BY <1>1, <1>m, <3>1, StartStep
    <3> QED  BY <3>2
  <2> QED  BY <1>k, <2>1, <2>2, TrailersOf
<1> QED  BY <1>2, <1>3, <1>4, <1>5, <1>6 DEF Last

\* A file that read_head accepts ends behind a block.
LEMMA HeadFound ==
  ASSUME NEW f \in Seq(Cell), Laid(f), HeadOf(f) # 0
  PROVE  HeadOf(f) \in Nums /\ Len(f) = Start[HeadOf(f) + 1]
<1>1. f # <<>> /\ IsPos(f[Len(f)])
  BY DEF HeadOf, Last
<1>2. Len(f) \in 1 .. Len(f)
  BY <1>1, EmptySeq
<1>3. PICK n \in Nums : Len(f) = Start[n + 1]
  BY <1>1, <1>2, EndsOf
<1> QED  BY <1>3, EndsAt

\* A block is appended where the layout has it.
LEMMA LaidAppend ==
  ASSUME NEW f \in Seq(Cell), Laid(f), NEW h \in 0 .. MaxBlock - 1, Len(f) = Start[h + 1]
  PROVE  /\ Cells(h + 1, Len(f)) \in Seq(Cell)
         /\ Laid(f \o Cells(h + 1, Len(f))) /\ Len(f \o Cells(h + 1, Len(f))) = Start[h + 2]
<1> DEFINE k == h + 1
           c == Cells(k, Len(f))
           g == f \o c
<1>m. MaxBlock \in Nat /\ \A n \in Nums : Size[n] \in Nat \ {0} /\ n \in Nat /\ n \in 1 .. MaxBlock + 1 /\ n + 1 \in 1 .. MaxBlock + 1
  BY BlockLogAssumption DEF Nums
<1>k. k \in Nums /\ k \in Nat /\ k + 1 = h + 2 /\ k + 1 \in 1 .. MaxBlock + 1
  BY <1>m DEF Nums
<1> HIDE DEF k
<1>1. \A n \in 1 .. MaxBlock + 1 : Start[n] \in Nat
  BY StartTypes
<1>s. Size[k] \in Nat \ {0} /\ Start[k] \in Nat /\ Start[k + 1] = Start[k] + Size[k] + 1 /\ Len(f) = Start[k]
  BY <1>1, <1>k, <1>m, StartStep DEF k
<1>2. /\ c \in Seq(Cell) /\ Len(c) = Size[k] + 1
      /\ \A i \in 1 .. Size[k] : c[i] = <<"block", k, i>>
      /\ c[Size[k] + 1] = <<"pos", Start[k], 1>>
  <2> DEFINE b == [i \in 1 .. Size[k] |-> <<"block", k, i>>]
             e == << <<"pos", Len(f), 1>> >>
  <2>1. b \in Seq(Cell) /\ Len(b) = Size[k]
    <3>1. \A i \in 1 .. Size[k] : <<"block", k, i>> \in Cell
      BY <1>k, <1>s DEF Cell
    <3> QED  BY <1>s, <3>1
  <2>2. e \in Seq(Cell) /\ Len(e) = 1 /\ e[1] = <<"pos", Start[k], 1>>
    BY <1>s DEF Cell
  <2>3. c = b \o e
    BY DEF Cells
  <2>5. \A i \in 1 .. Size[k] : i \in 1 .. Size[k] + 1 /\ i <= Size[k] /\ b[i] = <<"block", k, i>>
    BY <1>s
  <2> HIDE DEF b, e, c
  <2>4. /\ c \in Seq(Cell) /\ Len(c) = Size[k] + 1
        /\ \A i \in 1 .. Size[k] + 1 : c[i] = IF i <= Size[k] THEN b[i] ELSE e[i - Size[k]]
    <3>1. /\ b \o e \in Seq(Cell) /\ Len(b \o e) = Len(b) + Len(e)
          /\ \A i \in 1 .. Len(b) + Len(e) : (b \o e)[i] = IF i <= Len(b) THEN b[i] ELSE e[i - Len(b)]
      BY <2>1, <2>2, ConcatProperties
    <3> QED  BY <2>1, <2>2, <2>3, <3>1
  <2>6. Size[k] + 1 \in 1 .. Size[k] + 1 /\ ~(Size[k] + 1 <= Size[k]) /\ (Size[k] + 1) - Size[k] = 1
    BY <1>s
  <2> QED  BY <2>2, <2>4, <2>5, <2>6
<1> HIDE DEF c
<1>3. /\ g \in Seq(Cell) /\ Len(g) = Start[k + 1]
      /\ \A i \in 1 .. Len(g) : g[i] = IF i <= Start[k] THEN f[i] ELSE c[i - Start[k]]
  <2>1. /\ g \in Seq(Cell) /\ Len(g) = Len(f) + Len(c)
        /\ \A i \in 1 .. Len(f) + Len(c) : g[i] = IF i <= Len(f) THEN f[i] ELSE c[i - Len(f)]
    BY <1>2, ConcatProperties
  <2> HIDE DEF g
  <2>2. Len(g) = Start[k + 1]
    BY <1>2, <1>s, <2>1
  <2> QED  BY <1>s, <2>1, <2>2
<1> HIDE DEF g
<1>4. \A n \in Nums : n # k => \/ n + 1 <= k
                               \/ k + 1 <= n
  BY <1>k, <1>m
<1>5. ASSUME NEW n \in Nums, NEW i \in 1 .. Size[n] + 1, Start[n] + i <= Len(g), n # k
      PROVE  Start[n] + i <= Len(f) /\ Start[n] + i \in 1 .. Len(g) /\ g[Start[n] + i] = f[Start[n] + i]
  <2>0. Size[n] \in Nat /\ Start[n] \in Nat /\ n \in Nat /\ n \in 1 .. MaxBlock + 1
    BY <1>1, <1>m
  <2>1. CASE n + 1 <= k
    <3>1. n < k /\ k \in 1 .. MaxBlock + 1
      BY <1>k, <1>m, <2>0, <2>1
    <3>2. Start[n] + Size[n] + 1 <= Start[k]
      BY <2>0, <3>1, StartGrows
    <3>3. Start[n] + i <= Start[k] /\ Start[n] + i \in 1 .. Len(g)
      <4>1. i \in Nat /\ i >= 1 /\ i <= Size[n] + 1 /\ Len(g) \in Nat /\ Len(g) = Start[k] + Size[k] + 1
        BY <1>3, <1>s, <2>0
      <4> QED  BY <1>5, <1>s, <2>0, <3>2, <4>1
    <3> QED  BY <1>3, <1>s, <3>3
  <2>2. CASE k + 1 <= n
    <3>1. Start[k + 1] <= Start[n]
      <4>1. CASE k + 1 = n
        BY <1>s, <2>0, <4>1
      <4>2. CASE k + 1 # n
        <5>1. k < n /\ k \in 1 .. MaxBlock + 1
          BY <1>k, <1>m, <2>0, <2>2
        <5>2. Start[k] + Size[k] + 1 <= Start[n]
          BY <2>0, <5>1, StartGrows
        <5> QED  BY <1>s, <5>2
      <4> QED  BY <4>1, <4>2
    <3> QED  BY <1>3, <1>5, <1>s, <2>0, <3>1
  <2> QED  BY <1>4, <1>5, <2>1, <2>2
<1>6. ASSUME NEW n \in Nums, NEW i \in 1 .. Size[n], Start[n] + i <= Len(g)
      PROVE  g[Start[n] + i] = <<"block", n, i>>
  <2>0. Size[n] \in Nat /\ Start[n] \in Nat
    BY <1>1, <1>m
  <2>1. CASE n = k
    <3>1. Start[k] + i \in 1 .. Len(g) /\ ~(Start[k] + i <= Start[k]) /\ (Start[k] + i) - Start[k] = i
      BY <1>3, <1>6, <1>s, <2>1
    <3> QED  BY <1>2, <1>3, <1>6, <2>1, <3>1
  <2>2. CASE n # k
    <3>1. i \in 1 .. Size[n] + 1
      BY <2>0
    <3>2. Start[n] + i <= Len(f) /\ g[Start[n] + i] = f[Start[n] + i]
      BY <1>5, <1>6, <2>2, <3>1
    <3> QED  BY <3>2 DEF Laid
  <2> QED  BY <2>1, <2>2
<1>7. ASSUME NEW n \in Nums, Start[n + 1] <= Len(g)
      PROVE  g[Start[n + 1]] = <<"pos", Start[n], 1>>
  <2>0. Size[n] \in Nat /\ Start[n] \in Nat /\ Start[n + 1] = Start[n] + Size[n] + 1
    BY <1>1, <1>m, StartStep
  <2>1. CASE n = k
    <3>1. Start[k + 1] \in 1 .. Len(g) /\ ~(Start[k + 1] <= Start[k]) /\ Start[k + 1] - Start[k] = Size[k] + 1
      BY <1>3, <1>s
    <3> QED  BY <1>2, <1>3, <2>1, <3>1
  <2>2. CASE n # k
    <3>1. Size[n] + 1 \in 1 .. Size[n] + 1 /\ Start[n] + (Size[n] + 1) = Start[n + 1]
      BY <2>0
    <3>2. Start[n + 1] <= Len(f) /\ g[Start[n + 1]] = f[Start[n + 1]]
      BY <1>5, <1>7, <2>2, <3>1
    <3> QED  BY <3>2 DEF Laid
  <2> QED  BY <2>1, <2>2
<1>8. Len(g) <= Start[MaxBlock + 1]
  <2>1. CASE k = MaxBlock
    BY <1>1, <1>3, <1>k, <2>1
  <2>2. CASE k # MaxBlock
    <3>1. k + 1 < MaxBlock + 1 /\ MaxBlock + 1 \in 1 .. MaxBlock + 1 /\ k + 1 \in Nums
      BY <1>k, <1>m, <2>2 DEF Nums
    <3>2. Start[k + 1] + Size[k + 1] + 1 <= Start[MaxBlock + 1] /\ Size[k + 1] \in Nat
      BY <1>k, <1>m, <3>1, StartGrows
    <3> QED  BY <1>1, <1>3, <1>k, <1>m, <3>1, <3>2
  <2> QED  BY <2>1, <2>2
<1>9. Laid(g)
  BY <1>6, <1>7, <1>8 DEF Laid
<1> QED  BY <1>2, <1>3, <1>9, <1>k DEF k, c, g

\* construct_index gives the positions of all blocks, unless there is only one.
LEMMA RebuiltIndex ==
  ASSUME NEW f \in Seq(Cell), Laid(f), NEW k \in Nums, Len(f) = Start[k + 1]
  PROVE  /\ Rebuilt(f) \in Seq(Nat) /\ Entries(Rebuilt(f))
         /\ k # 1 => Len(Rebuilt(f)) = k
<1>m. MaxBlock \in Nat /\ k \in Nat /\ k >= 1 /\ k <= MaxBlock
      /\ \A n \in Nums : Size[n] \in Nat \ {0} /\ n \in 1 .. MaxBlock + 1
  BY BlockLogAssumption DEF Nums
<1> DEFINE pos == Trailers(f)
           I == {i \in 1 .. Len(pos) : pos[i] >= Start[k]}
<1>1. pos = [n \in 1 .. k |-> Start[n]] /\ Last(f)[2] = Start[k]
  BY EndsAt
<1>2. \A n \in 1 .. k : Start[n] \in Nat
  BY <1>m, StartTypes
<1>3. pos \in Seq(Nat) /\ Len(pos) = k
  BY <1>1, <1>2, <1>m
<1> HIDE DEF pos
<1>4. Start[1] = 0 /\ (k # 1 => 0 < Start[k]) /\ \A n \in 1 .. k : n # k => Start[n] < Start[k]
  <2>1. ASSUME NEW n \in 1 .. k, n # k PROVE Start[n] < Start[k]
    <3>1. n \in Nums /\ n \in 1 .. MaxBlock + 1 /\ k \in 1 .. MaxBlock + 1 /\ n < k
      BY <1>m, <2>1 DEF Nums
    <3>2. Start[n] + Size[n] + 1 <= Start[k] /\ Size[n] \in Nat /\ Start[n] \in Nat /\ Start[k] \in Nat
      BY <1>m, <3>1, StartGrows, StartTypes
    <3> QED  BY <3>2
  <2>2. 1 \in 1 .. k
    BY <1>m
  <2> QED  BY <2>1, <2>2, StartStep
<1>5. I = {k}
  <2>1. k \in I
    BY <1>1, <1>2, <1>3, <1>m
  <2>2. ASSUME NEW i \in I PROVE i = k
    <3>1. i \in 1 .. k /\ Start[i] >= Start[k]
      BY <1>1, <1>3
    <3> QED  BY <1>2, <1>4, <1>m, <3>1
  <2> QED  BY <2>1, <2>2
<1>6. Min(I) = k
  BY <1>5, <1>m DEF Min
<1>7. Rebuilt(f) = SubSeq(pos, 1, IF 0 < Start[k] THEN k ELSE 0)
  BY <1>1, <1>5, <1>6 DEF Rebuilt, SelectInSeq, pos
<1>8. \A n \in 0 .. k : /\ SubSeq(pos, 1, n) \in Seq(Nat) /\ Len(SubSeq(pos, 1, n)) = n
                        /\ \A j \in 1 .. n : SubSeq(pos, 1, n)[j] = Start[j]
  <2> TAKE n \in 0 .. k
  <2>1. n \in Int /\ \A i \in 1 .. n : i \in 1 .. k /\ pos[i] \in Nat
    BY <1>1, <1>2, <1>m
  <2>2. /\ SubSeq(pos, 1, n) \in Seq(Nat) /\ Len(SubSeq(pos, 1, n)) = IF 1 <= n THEN n - 1 + 1 ELSE 0
        /\ \A j \in 1 .. n - 1 + 1 : SubSeq(pos, 1, n)[j] = pos[1 + j - 1]
    BY <2>1, SubSeqProperties
  <2>3. n - 1 + 1 = n /\ (IF 1 <= n THEN n - 1 + 1 ELSE 0) = n /\ \A j \in 1 .. n : 1 + j - 1 = j /\ j \in 1 .. k
    BY <1>m
  <2>4. \A j \in 1 .. n : pos[j] = Start[j]
    BY <1>1, <2>3
  <2> QED  BY <2>2, <2>3, <2>4
<1>9. Entries(Rebuilt(f))
  <2>1. PICK n \in 0 .. k : Rebuilt(f) = SubSeq(pos, 1, n)
    <3>1. (IF 0 < Start[k] THEN k ELSE 0) \in 0 .. k
      BY <1>m
    <3> QED  BY <1>7, <3>1
  <2>2. n \in Nat /\ n <= MaxBlock
    BY <1>m
  <2> QED  BY <1>8, <2>1, <2>2 DEF Entries
<1>10. k # 1 => Rebuilt(f) = SubSeq(pos, 1, k)
  BY <1>4, <1>7
<1>11. 0 \in 0 .. k /\ k \in 0 .. k
  BY <1>m
<1> QED  BY <1>7, <1>8, <1>9, <1>10, <1>11

(***************************************************************************)
(* The index.                                                              *)
(***************************************************************************)

LEMMA EntriesPrefix ==
  ASSUME NEW a \in Seq(Nat), NEW b \in Seq(Nat), Entries(a \o b)
  PROVE  Entries(a)
<1>m. MaxBlock \in Nat
  BY BlockLogAssumption
<1>1. /\ Len(a) \in Nat /\ Len(b) \in Nat /\ Len(a \o b) = Len(a) + Len(b)
      /\ \A i \in 1 .. Len(a) + Len(b) : (a \o b)[i] = IF i <= Len(a) THEN a[i] ELSE b[i - Len(a)]
  BY LenProperties, ConcatProperties
<1>2. Len(a) <= MaxBlock
  BY <1>1, <1>m DEF Entries
<1>3. ASSUME NEW n \in 1 .. Len(a) PROVE a[n] = Start[n]
  <2>1. n \in 1 .. Len(a) + Len(b) /\ n <= Len(a)
    BY <1>1
  <2> QED  BY <1>1, <2>1 DEF Entries
<1> QED  BY <1>2, <1>3 DEF Entries

LEMMA EntriesAppend ==
  ASSUME NEW a \in Seq(Nat), Entries(a), NEW h \in 0 .. MaxBlock - 1, Len(a) = h
  PROVE  Entries(a \o <<Start[h + 1]>>) /\ Len(a \o <<Start[h + 1]>>) = h + 1
<1>m. MaxBlock \in Nat /\ h \in Nat /\ h + 1 <= MaxBlock
  BY BlockLogAssumption
<1>1. <<Start[h + 1]>> \in Seq(Nat) /\ Len(<<Start[h + 1]>>) = 1 /\ <<Start[h + 1]>>[1] = Start[h + 1]
  <2>1. h + 1 \in 1 .. MaxBlock + 1
    BY <1>m
  <2>2. Start[h + 1] \in Nat
    BY <2>1, StartTypes
  <2> QED  BY <2>2
<1> DEFINE e == <<Start[h + 1]>>
           c == a \o e
<1> HIDE DEF e
<1>2. /\ Len(c) = Len(a) + Len(e)
      /\ \A i \in 1 .. Len(a) + Len(e) : c[i] = IF i <= Len(a) THEN a[i] ELSE e[i - Len(a)]
  BY <1>1, ConcatProperties DEF e
<1>3. Len(e) = 1 /\ e[1] = Start[h + 1]
  BY <1>1 DEF e
<1> HIDE DEF c
<1>4. ASSUME NEW n \in 1 .. h + 1 PROVE c[n] = Start[n]
  <2>1. CASE n = h + 1
    <3>1. n \in 1 .. Len(a) + Len(e) /\ ~(n <= Len(a)) /\ n - Len(a) = 1
      BY <1>3, <1>m, <2>1
    <3> QED  BY <1>2, <1>3, <2>1, <3>1
  <2>2. CASE n # h + 1
    <3>1. n \in 1 .. Len(a) + Len(e) /\ n <= Len(a) /\ n \in 1 .. Len(a)
      BY <1>3, <1>m, <2>2
    <3> QED  BY <1>2, <3>1 DEF Entries
  <2> QED  BY <2>1, <2>2
<1>5. Len(c) = h + 1
  BY <1>2, <1>3
<1> QED  BY <1>4, <1>5, <1>m DEF Entries, c, e

\* Two positions of the layout are those of the same block.
LEMMA StartInjective ==
  ASSUME NEW x \in Nums, NEW y \in Nums, Start[x] = Start[y]
  PROVE  x = y
<1>m. MaxBlock \in Nat /\ \A n \in Nums : Size[n] \in Nat \ {0} /\ n \in 1 .. MaxBlock + 1 /\ n \in Nat
  BY BlockLogAssumption DEF Nums
<1>1. Start[x] \in Nat /\ Start[y] \in Nat /\ Size[x] \in Nat /\ Size[y] \in Nat
  BY <1>m, StartTypes
<1>2. x < y => Start[x] + Size[x] + 1 <= Start[y]
  BY <1>m, StartGrows
<1>3. y < x => Start[y] + Size[y] + 1 <= Start[x]
  BY <1>m, StartGrows
<1>4. ~(x < y) /\ ~(y < x)
  BY <1>1, <1>2, <1>3
<1> QED  BY <1>4, <1>m

\* A part of the buffer moves to the file.
LEMMA Moved ==
  ASSUME NEW S, NEW f \in Seq(S), NEW b \in Seq(S), NEW k \in 1 .. Len(b)
  PROVE  /\ f \o SubSeq(b, 1, k) \in Seq(S) /\ SubSeq(b, k + 1, Len(b)) \in Seq(S)
         /\ (f \o SubSeq(b, 1, k)) \o SubSeq(b, k + 1, Len(b)) = f \o b
<1>1. Len(b) \in Nat /\ \A i \in 1 .. Len(b) : b[i] \in S
  BY LenProperties, ElementOfSeq
<1>2. 1 \in Int /\ k \in Int /\ k + 1 \in Int /\ Len(b) \in Int
      /\ (\A i \in 1 .. k : b[i] \in S) /\ (\A i \in k + 1 .. Len(b) : b[i] \in S)
  BY <1>1
<1>3. SubSeq(b, 1, k) \in Seq(S) /\ SubSeq(b, k + 1, Len(b)) \in Seq(S)
  BY <1>2, SubSeqProperties
<1>4. SubSeq(b, 1, k) \o SubSeq(b, k + 1, Len(b)) = b
  <2>1. 1 \in 1 .. Len(b) + 1 /\ k \in 1 - 1 .. Len(b) /\ Len(b) \in k .. Len(b)
    BY <1>1
  <2>2. SubSeq(b, 1, k) \o SubSeq(b, k + 1, Len(b)) = SubSeq(b, 1, Len(b))
    BY <2>1, ConcatAdjacentSubSeq
  <2> QED  BY <2>2, SubSeqFull
<1>5. PICK x \in Seq(S), y \in Seq(S) : x = SubSeq(b, 1, k) /\ y = SubSeq(b, k + 1, Len(b))
  BY <1>3, Zenon
<1>6. (f \o x) \o y = f \o (x \o y)
  BY ConcatAssociative
<1>7. f \o x \in Seq(S)
  BY ConcatProperties
<1>8. (f \o x) \o y = f \o b
  BY <1>4, <1>5, <1>6, Zenon
<1> QED  BY <1>5, <1>7, <1>8, Zenon

LEMMA Flushed ==
  ASSUME NEW S, NEW f \in Seq(S), NEW b \in Seq(S)
  PROVE  f \o b \in Seq(S) /\ <<>> \in Seq(S) /\ (f \o b) \o <<>> = f \o b /\ f \o <<>> = f
BY ConcatProperties, ConcatEmptySeq

(***************************************************************************)
(* The invariant.                                                          *)
(***************************************************************************)

LEMMA InvInit == Init => IInv
<1> SUFFICES ASSUME Init PROVE IInv
  OBVIOUS
<1>m. MaxBlock \in Nat /\ \A n \in 1 .. MaxBlock + 1 : Start[n] \in Nat
  BY BlockLogAssumption, StartTypes
<1>1. /\ data \in Seq(Cell) /\ dbuf \in Seq(Cell) /\ index \in Seq(Nat) /\ ibuf \in Seq(Nat)
  BY EmptySeq DEF Init
<1>2. data \o dbuf = <<>> /\ index \o ibuf = <<>> /\ Len(<<>>) = 0
  BY <1>1, Flushed DEF Init
<1>3. TypeOK
  <2>1. 0 \in 0 .. MaxBlock /\ 0 \in Nat
    BY <1>m
  <2> QED  BY <1>1, <2>1 DEF TypeOK, Init
<1>4. Laid(<<>>)
  <2>1. 0 <= Start[MaxBlock + 1]
    BY <1>m
  <2>2. \A n \in Nums : \A i \in 1 .. Size[n] : ~(Start[n] + i <= 0)
    <3> TAKE n \in Nums
    <3> TAKE i \in 1 .. Size[n]
    <3>1. Start[n] \in Nat /\ Size[n] \in Nat
      BY <1>m, BlockLogAssumption DEF Nums
    <3> QED  BY <3>1
  <2>3. \A n \in Nums : ~(Start[n + 1] <= 0)
    <3> TAKE n \in Nums
    <3>1. Start[n] \in Nat /\ Size[n] \in Nat /\ Start[n + 1] = Start[n] + Size[n] + 1
      BY <1>m, BlockLogAssumption, StartStep DEF Nums
    <3> QED  BY <3>1
  <2> QED  BY <1>2, <2>1, <2>2, <2>3 DEF Laid
<1>5. Entries(<<>>)
  BY <1>2, <1>m DEF Entries
<1> QED  BY <1>2, <1>3, <1>4, <1>5 DEF IInv, Init, Up

LEMMA InvStep == IInv /\ [Next]_vars => IInv'
<1> SUFFICES ASSUME IInv, [Next]_vars PROVE IInv'
  OBVIOUS
<1>m. MaxBlock \in Nat /\ \A n \in 1 .. MaxBlock + 1 : Start[n] \in Nat
  BY BlockLogAssumption, StartTypes
<1>t. /\ data \in Seq(Cell) /\ dbuf \in Seq(Cell) /\ index \in Seq(Nat) /\ ibuf \in Seq(Nat)
      /\ dwrite \in BOOLEAN /\ iwrite \in BOOLEAN /\ head \in 0 .. MaxBlock /\ flushed \in Nat
      /\ data \o dbuf \in Seq(Cell) /\ index \o ibuf \in Seq(Nat)
      /\ status \in {"closed", "open", "flushing", "finding", "failed"}
  BY ConcatProperties DEF IInv, TypeOK
<1>w. Laid(data \o dbuf) /\ Entries(index \o ibuf)
  BY DEF IInv
<1>1. CASE OpenLog
  <2>1. /\ status = "closed" /\ HeadOf(data) # 0 /\ head' = HeadOf(data) /\ status' = "open" /\ dwrite' = FALSE
        /\ data' = data /\ dbuf' = dbuf /\ flushed' = flushed
    BY <1>1 DEF OpenLog
  <2>2. dbuf = <<>> /\ ibuf = <<>> /\ data \o dbuf = data /\ index \o ibuf = index
    BY <1>t, <2>1, Flushed DEF IInv, Up
  <2>3. head' \in Nums /\ Len(data) = Start[head' + 1] /\ Laid(data)
    BY <1>t, <1>w, <2>1, <2>2, HeadFound
  <2>4. /\ iwrite' \in BOOLEAN /\ index' \in Seq(Nat) /\ ibuf' \in Seq(Nat) /\ Entries(index' \o ibuf')
        /\ (head' # 1 => Len(index' \o ibuf') = head')
    <3>1. CASE IndexAgrees /\ iwrite' = FALSE /\ UNCHANGED <<index, ibuf>>
      <4>1. index # <<>> /\ Last(index) = Start[head']
        <5>1. Last(data) = <<"pos", Start[head'], 1>>
          BY <1>t, <2>3, EndsAt
        <5> QED  BY <3>1, <5>1 DEF IndexAgrees
      <4>2. Len(index) \in Nums /\ index[Len(index)] = Start[Len(index)]
        <5>1. Len(index) \in Nat \ {0} /\ Len(index) <= MaxBlock
          BY <1>t, <1>w, <2>2, <4>1, EmptySeq DEF Entries
        <5>2. Len(index) \in 1 .. Len(index)
          BY <5>1
        <5> QED  BY <1>m, <1>w, <2>2, <5>1, <5>2 DEF Entries, Nums
      <4>3. Len(index) = head'
        BY <2>3, <4>1, <4>2, StartInjective DEF Last
      <4> QED  BY <1>t, <1>w, <2>2, <3>1, <4>3
    <3>2. CASE ~IndexAgrees /\ iwrite' = TRUE /\ index' = <<>> /\ ibuf' = Rebuilt(data)
      <4>1. ibuf' \in Seq(Nat) /\ Entries(ibuf') /\ (head' # 1 => Len(ibuf') = head')
        BY <1>t, <2>3, <3>2, RebuiltIndex
      <4>2. index' \o ibuf' = ibuf' /\ index' \in Seq(Nat)
        BY <3>2, <4>1, ConcatEmptySeq, EmptySeq
      <4> QED  BY <3>2, <4>1, <4>2
    <3> QED  BY <1>1, <3>1, <3>2 DEF OpenLog
  <2>5. head' \in 0 .. MaxBlock
    BY <1>m, <2>3 DEF Nums
  <2>6. TypeOK'
    BY <1>t, <2>1, <2>4, <2>5 DEF TypeOK
  <2> QED  BY <2>1, <2>2, <2>3, <2>4, <2>6 DEF IInv, Up
<1>2. CASE OpenEmpty
  <2>1. /\ status = "closed" /\ data = <<>> /\ index' = <<>> /\ dwrite' = TRUE /\ iwrite' = TRUE
        /\ status' = "open" /\ head' = 0 /\ data' = data /\ dbuf' = dbuf /\ ibuf' = ibuf /\ flushed' = flushed
    BY <1>2 DEF OpenEmpty
  <2>2. dbuf = <<>> /\ ibuf = <<>> /\ <<>> \in Seq(Nat) /\ <<>> \in Seq(Cell)
    BY <2>1, EmptySeq DEF IInv, Up
  <2>3. data' \o dbuf' = data \o dbuf /\ data \o dbuf = <<>> /\ Len(<<>>) = 0 /\ index' \o ibuf' = <<>>
    BY <2>1, <2>2, Flushed
  <2>4. Start[0 + 1] = 0 /\ Entries(<<>>)
    BY <1>m, <2>3, StartStep DEF Entries
  <2>5. TypeOK'
    <3>1. 0 \in 0 .. MaxBlock
      BY <1>m
    <3> QED  BY <1>t, <2>1, <2>2, <3>1 DEF TypeOK
  <2> QED  BY <1>w, <2>1, <2>2, <2>3, <2>4, <2>5 DEF IInv, Up
<1>3. CASE OpenThrows
  BY <1>3, <1>t DEF OpenThrows, IInv, TypeOK, Up
<1>4. CASE AppendBlock
  <2> DEFINE pos == Len(data \o dbuf)
             c == Cells(head + 1, pos)
  <2>1. /\ status = "open" /\ head < MaxBlock /\ Len(index \o ibuf) = (head + 1) - 1
        /\ dbuf' = dbuf \o c /\ ibuf' = ibuf \o <<pos>>
        /\ dwrite' = TRUE /\ iwrite' = TRUE /\ head' = head + 1
        /\ data' = data /\ index' = index /\ status' = status /\ flushed' = flushed
    BY <1>4 DEF AppendBlock, IndexFits
  <2>2. pos = Start[head + 1] /\ head \in 0 .. MaxBlock - 1 /\ Len(index \o ibuf) = head
    BY <1>m, <1>t, <2>1 DEF IInv, Up
  <2> HIDE DEF pos
  <2>3. c \in Seq(Cell) /\ Laid((data \o dbuf) \o c) /\ Len((data \o dbuf) \o c) = Start[head + 2]
    BY <1>t, <1>w, <2>2, LaidAppend DEF pos
  <2> HIDE DEF c
  <2>4. data' \o dbuf' = (data \o dbuf) \o c /\ dbuf' \in Seq(Cell)
    <3>1. (data \o dbuf) \o c = data \o (dbuf \o c)
      BY <1>t, <2>3, ConcatAssociative
    <3>2. dbuf \o c \in Seq(Cell)
      BY <1>t, <2>3, ConcatProperties
    <3> QED  BY <2>1, <3>1, <3>2, Zenon
  <2>5. Entries((index \o ibuf) \o <<pos>>) /\ Len((index \o ibuf) \o <<pos>>) = head + 1
    BY <1>t, <1>w, <2>2, EntriesAppend
  <2>6. <<pos>> \in Seq(Nat)
    <3>1. pos \in Nat
      BY <1>t, LenProperties DEF pos
    <3> QED  BY <3>1
  <2>7. index' \o ibuf' = (index \o ibuf) \o <<pos>> /\ ibuf' \in Seq(Nat)
    BY <1>t, <2>1, <2>6, ConcatAssociative, ConcatProperties
  <2>8. head' \in 0 .. MaxBlock /\ head' + 1 = head + 2
    BY <1>m, <1>t, <2>1
  <2>9. TypeOK'
    BY <1>t, <2>1, <2>4, <2>7, <2>8 DEF TypeOK
  <2> QED  BY <2>1, <2>3, <2>4, <2>5, <2>7, <2>8, <2>9 DEF IInv, Up
<1>5. CASE SpillData
  <2>1. PICK k \in 1 .. Len(dbuf) : data' = data \o SubSeq(dbuf, 1, k) /\ dbuf' = SubSeq(dbuf, k + 1, Len(dbuf))
    BY <1>5 DEF SpillData
  <2>2. data' \in Seq(Cell) /\ dbuf' \in Seq(Cell) /\ data' \o dbuf' = data \o dbuf
    <3>0. data \in Seq(Cell) /\ dbuf \in Seq(Cell)
      BY <1>t
    <3>1. /\ data \o SubSeq(dbuf, 1, k) \in Seq(Cell) /\ SubSeq(dbuf, k + 1, Len(dbuf)) \in Seq(Cell)
          /\ (data \o SubSeq(dbuf, 1, k)) \o SubSeq(dbuf, k + 1, Len(dbuf)) = data \o dbuf
      BY <3>0, Moved, Zenon
    <3> QED  BY <2>1, <3>1, Zenon
  <2> QED  BY <1>5, <1>t, <2>2 DEF SpillData, IInv, TypeOK, Up
<1>6. CASE SpillIndex
  <2>1. PICK k \in 1 .. Len(ibuf) : index' = index \o SubSeq(ibuf, 1, k) /\ ibuf' = SubSeq(ibuf, k + 1, Len(ibuf))
    BY <1>6 DEF SpillIndex
  <2>2. index' \in Seq(Nat) /\ ibuf' \in Seq(Nat) /\ index' \o ibuf' = index \o ibuf
    <3>0. index \in Seq(Nat) /\ ibuf \in Seq(Nat)
      BY <1>t
    <3>1. /\ index \o SubSeq(ibuf, 1, k) \in Seq(Nat) /\ SubSeq(ibuf, k + 1, Len(ibuf)) \in Seq(Nat)
          /\ (index \o SubSeq(ibuf, 1, k)) \o SubSeq(ibuf, k + 1, Len(ibuf)) = index \o ibuf
      BY <3>0, Moved, Zenon
    <3> QED  BY <2>1, <3>1, Zenon
  <2> QED  BY <1>6, <1>t, <2>2 DEF SpillIndex, IInv, TypeOK, Up
<1>7. CASE FlushData
  <2>1. data' \in Seq(Cell) /\ dbuf' \in Seq(Cell) /\ data' \o dbuf' = data \o dbuf /\ dbuf' = <<>>
    BY <1>7, <1>t, Flushed DEF FlushData
  <2> QED  BY <1>7, <1>t, <2>1 DEF FlushData, IInv, TypeOK, Up
<1>8. CASE FlushIndex
  <2>1. index' \in Seq(Nat) /\ ibuf' \in Seq(Nat) /\ index' \o ibuf' = index \o ibuf
    BY <1>8, <1>t, Flushed DEF FlushIndex
  <2>2. head \in Nat
    BY <1>m, <1>t
  <2> QED  BY <1>8, <1>t, <2>1, <2>2 DEF FlushIndex, IInv, TypeOK, Up
<1>9. CASE FindBlock
  <2>1. index' \in Seq(Nat) /\ ibuf' \in Seq(Nat) /\ index' \o ibuf' = index \o ibuf
    BY <1>9, <1>t, Flushed DEF FindBlock
  <2> QED  BY <1>9, <1>t, <2>1 DEF FindBlock, IInv, TypeOK, Up
<1>10. CASE ReadBlock
  <2>1. data' \in Seq(Cell) /\ dbuf' \in Seq(Cell) /\ data' \o dbuf' = data \o dbuf
    BY <1>10, <1>t, Flushed DEF ReadBlock
  <2> QED  BY <1>10, <1>t, <2>1 DEF ReadBlock, IInv, TypeOK, Up
<1>11. CASE Close
  <2>1. data' \in Seq(Cell) /\ dbuf' \in Seq(Cell) /\ data' \o dbuf' = data \o dbuf
        /\ index' \in Seq(Nat) /\ ibuf' \in Seq(Nat) /\ index' \o ibuf' = index \o ibuf
    BY <1>11, <1>t, Flushed DEF Close
  <2>2. head \in Nat /\ 0 \in 0 .. MaxBlock
    BY <1>m, <1>t
  <2>3. TypeOK'
    BY <1>11, <1>t, <2>1, <2>2 DEF Close, TypeOK
  <2> QED  BY <1>11, <1>w, <2>1, <2>3 DEF Close, IInv, Up
<1>12. CASE Crash
  <2>1. data' \o dbuf' = data /\ index' \o ibuf' = index /\ dbuf' \in Seq(Cell) /\ ibuf' \in Seq(Nat)
    BY <1>12, <1>t, Flushed DEF Crash
  <2>2. Laid(data) /\ Entries(index)
    BY <1>t, <1>w, LaidPrefix, EntriesPrefix
  <2>3. 0 \in 0 .. MaxBlock
    BY <1>m
  <2>4. TypeOK'
    BY <1>12, <1>t, <2>1, <2>3 DEF Crash, TypeOK
  <2> QED  BY <1>12, <2>1, <2>2, <2>4 DEF Crash, IInv, Up
<1>13. CASE RemoveIndex
  <2>1. ibuf' = <<>> /\ index' = <<>> /\ status = "closed" /\ ibuf = <<>>
    BY <1>13 DEF RemoveIndex, IInv, Up
  <2>2. index' \o ibuf' = <<>> /\ <<>> \in Seq(Nat) /\ Len(<<>>) = 0
    BY <2>1, Flushed, EmptySeq
  <2>3. Entries(<<>>)
    BY <1>m, <2>2 DEF Entries
  <2>4. TypeOK'
    BY <1>13, <1>t, <2>1, <2>2 DEF RemoveIndex, TypeOK
  <2> QED  BY <1>13, <1>w, <2>1, <2>2, <2>3, <2>4 DEF RemoveIndex, IInv, Up
<1>14. CASE UNCHANGED vars
  BY <1>14 DEF vars, IInv, TypeOK, Up
<1> QED
  BY <1>1, <1>2, <1>3, <1>4, <1>5, <1>6, <1>7, <1>8, <1>9, <1>10, <1>11, <1>12, <1>13, <1>14 DEF Next

(***************************************************************************)
(* Refinement.                                                             *)
(***************************************************************************)

\* The whole blocks of a beginning of the layout.
LEMMA BlocksOf ==
  ASSUME NEW f \in Seq(Cell), Laid(f)
  PROVE  /\ Blocks(f) \in 0 .. MaxBlock /\ Start[Blocks(f) + 1] <= Len(f)
         /\ Blocks(f) < MaxBlock => Len(f) < Start[Blocks(f) + 2]
<1>1. Len(f) \in Nat /\ Len(f) <= Start[MaxBlock + 1]
  BY LenProperties DEF Laid
<1>2. PICK k \in 0 .. MaxBlock : Start[k + 1] <= Len(f) /\ (k < MaxBlock => Len(f) < Start[k + 2])
  BY <1>1, WholeBlocks
<1>3. Trailers(f) = [n \in 1 .. k |-> Start[n]]
  BY <1>2, TrailersOf
<1>4. Blocks(f) = k
  <2>1. k \in Nat
    BY BlockLogAssumption
  <2> QED  BY <1>3, <2>1 DEF Blocks
<1> QED  BY <1>2, <1>4

\* A longer beginning has more blocks, and those of a whole stream are known.
LEMMA BlocksGrow ==
  ASSUME NEW f \in Seq(Cell), NEW g \in Seq(Cell), Laid(f), Laid(g), Len(f) <= Len(g)
  PROVE  Blocks(f) <= Blocks(g)
<1>m. MaxBlock \in Nat /\ \A n \in 1 .. MaxBlock + 1 : Start[n] \in Nat
  BY BlockLogAssumption, StartTypes
<1> DEFINE x == Blocks(f)
           y == Blocks(g)
<1>1. /\ x \in 0 .. MaxBlock /\ Start[x + 1] <= Len(f) /\ y \in 0 .. MaxBlock
      /\ (y < MaxBlock => Len(g) < Start[y + 2]) /\ Len(f) \in Nat /\ Len(g) \in Nat
  BY BlocksOf, LenProperties
<1> HIDE DEF x, y
<1> SUFFICES ASSUME y < x PROVE FALSE
  BY <1>1, <1>m DEF x, y
<1>2. y < MaxBlock /\ y + 2 <= x + 1 /\ y + 2 \in 1 .. MaxBlock + 1 /\ x + 1 \in 1 .. MaxBlock + 1
  BY <1>1, <1>m
<1>3. Start[y + 2] <= Start[x + 1]
  <2>1. CASE y + 2 = x + 1
    BY <1>2, <1>m, <2>1
  <2>2. CASE y + 2 < x + 1
    <3>1. y + 2 \in Nums
      BY <1>1, <1>2, <1>m, <2>2 DEF Nums
    <3>2. Size[y + 2] \in Nat
      BY <3>1, BlockLogAssumption
    <3>3. Start[y + 2] + Size[y + 2] + 1 <= Start[x + 1]
      BY <1>2, <2>2, StartGrows
    <3> QED  BY <1>2, <1>m, <3>2, <3>3
  <2> QED  BY <1>1, <1>2, <1>m, <2>1, <2>2
<1>4. Start[y + 2] \in Nat /\ Start[x + 1] \in Nat
  BY <1>2, <1>m
<1> QED  BY <1>1, <1>2, <1>3, <1>4

LEMMA BlocksWhole ==
  ASSUME NEW f \in Seq(Cell), Laid(f), NEW h \in 0 .. MaxBlock, Len(f) = Start[h + 1]
  PROVE  Blocks(f) = h
<1>m. MaxBlock \in Nat /\ h \in Nat /\ h + 1 \in 1 .. MaxBlock + 1 /\ Start[h + 1] \in Nat
  <2>1. MaxBlock \in Nat /\ h + 1 \in 1 .. MaxBlock + 1
    BY BlockLogAssumption
  <2> QED  BY <2>1, StartTypes
<1>1. Start[h + 1] <= Len(f)
  BY <1>m
<1>2. ASSUME h < MaxBlock PROVE Len(f) < Start[h + 2]
  <2>1. h + 1 \in Nums /\ (h + 1) + 1 = h + 2
    BY <1>2, <1>m DEF Nums
  <2>2. Start[h + 2] = Start[h + 1] + Size[h + 1] + 1 /\ Size[h + 1] \in Nat
    BY <2>1, StartStep, BlockLogAssumption
  <2> QED  BY <1>m, <2>2
<1>3. Trailers(f) = [n \in 1 .. h |-> Start[n]]
  BY <1>1, <1>2, TrailersOf
<1> QED  BY <1>3, <1>m DEF Blocks

AbsLen == IF Up THEN head ELSE Blocks(data)

\* What the abstract log looks like in a state of the invariant.
Mapping ==
  /\ data \in Seq(Cell) /\ Laid(data) /\ Blocks(data) \in 0 .. MaxBlock /\ AbsLen \in 0 .. MaxBlock
  /\ Blocks(data) <= AbsLen
  /\ Up /\ dbuf = <<>> => Blocks(data) = head

LEMMA Mapped == IInv => Mapping
<1> SUFFICES ASSUME IInv PROVE Mapping
  OBVIOUS
<1>m. MaxBlock \in Nat
  BY BlockLogAssumption
<1>1. /\ data \in Seq(Cell) /\ dbuf \in Seq(Cell) /\ data \o dbuf \in Seq(Cell) /\ Laid(data \o dbuf) /\ head \in 0 .. MaxBlock
  BY ConcatProperties DEF IInv, TypeOK
<1>2. Laid(data) /\ Len(data) <= Len(data \o dbuf)
  BY <1>1, LaidPrefix
<1>3. Blocks(data) \in 0 .. MaxBlock
  BY <1>1, <1>2, BlocksOf
<1>4. CASE Up
  <2>1. Blocks(data \o dbuf) = head
    BY <1>1, <1>4, BlocksWhole DEF IInv
  <2>2. Blocks(data) <= head
    BY <1>1, <1>2, <2>1, BlocksGrow
  <2>3. dbuf = <<>> => data \o dbuf = data
    BY <1>1, ConcatEmptySeq
  <2> QED  BY <1>1, <1>2, <1>3, <1>4, <2>1, <2>2, <2>3 DEF AbsLen, Mapping
<1>5. CASE ~Up
  BY <1>1, <1>2, <1>3, <1>5, <1>m DEF AbsLen, Mapping
<1> QED  BY <1>4, <1>5

LEMMA RefinesInit == Init => A!Init
<1> SUFFICES ASSUME Init PROVE A!Init
  OBVIOUS
<1>1. IInv
  BY InvInit
<1>2. ~Up /\ data = <<>> /\ flushed = 0
  BY DEF Init, Up
<1>3. Blocks(data) = 0
  <2>1. data \in Seq(Cell) /\ Laid(data) /\ Len(data) = 0 /\ Start[0 + 1] = 0
    BY <1>1, <1>2, Mapped, StartStep DEF Mapping
  <2>2. 0 \in 0 .. MaxBlock
    BY BlockLogAssumption
  <2> QED  BY <2>1, <2>2, BlocksWhole
<1> QED  BY <1>2, <1>3 DEF A!Init

absVars == <<AbsLen, Blocks(data), flushed, Up>>

LEMMA RefinesStep ==
  ASSUME IInv, IInv', [Next]_vars
  PROVE  A!Next \/ UNCHANGED absVars
<1>m. MaxBlock \in Nat
  BY BlockLogAssumption
<1> DEFINE B == Blocks(data)
<1>p. Mapping /\ Mapping'
  BY Mapped, PTL
<1>b. B \in 0 .. MaxBlock /\ AbsLen \in 0 .. MaxBlock /\ B <= AbsLen /\ (Up /\ dbuf = <<>> => B = head)
  BY <1>p DEF Mapping
<1>c. B' \in 0 .. MaxBlock /\ AbsLen' \in 0 .. MaxBlock /\ B' <= AbsLen' /\ (Up' /\ dbuf' = <<>> => B' = head')
  BY <1>p DEF Mapping
<1>g. ASSUME Up, Up', head' = head, Len(data) <= Len(data') PROVE B <= B' /\ B' \in B .. head
  <2>1. data \in Seq(Cell) /\ Laid(data) /\ data' \in Seq(Cell) /\ Laid(data')
    BY <1>p DEF Mapping
  <2>2. B <= B'
    BY <1>g, <2>1, BlocksGrow
  <2> QED  BY <1>b, <1>c, <1>g, <1>m, <2>2 DEF AbsLen
<1>l. ASSUME NEW x \in Seq(Cell), data' = data \o x PROVE Len(data) <= Len(data')
  <2>1. data \in Seq(Cell)
    BY <1>p DEF Mapping
  <2>2. Len(data') = Len(data) + Len(x) /\ Len(data) \in Nat /\ Len(x) \in Nat
    BY <1>l, <2>1, ConcatProperties, LenProperties
  <2> QED  BY <2>2
<1>t. dbuf \in Seq(Cell)
  BY DEF IInv, TypeOK
<1> HIDE DEF B
<1>1. CASE OpenLog
  <2>1. ~Up /\ Up' /\ data' = data /\ head' = HeadOf(data) /\ flushed' = flushed /\ dbuf' = dbuf /\ dbuf = <<>>
    BY <1>1 DEF OpenLog, Up, IInv
  <2>2. B' = B
    BY <2>1 DEF B
  <2>3. head' = B
    BY <1>c, <2>1, <2>2
  <2> QED  BY <2>1, <2>2, <2>3 DEF A!Next, A!Open, B
<1>2. CASE OpenEmpty
  <2>1. ~Up /\ Up' /\ data' = data /\ flushed' = flushed /\ dbuf' = dbuf /\ dbuf = <<>>
    BY <1>2 DEF OpenEmpty, Up, IInv
  <2>2. B' = B
    BY <2>1 DEF B
  <2>3. head' = B
    BY <1>c, <2>1, <2>2
  <2> QED  BY <2>1, <2>2, <2>3 DEF A!Next, A!Open, B
<1>3. CASE OpenThrows \/ RemoveIndex
  BY <1>3 DEF OpenThrows, RemoveIndex, Up, absVars, AbsLen
<1>4. CASE AppendBlock
  <2>1. Up /\ Up' /\ data' = data /\ head' = head + 1 /\ flushed' = flushed
    BY <1>4 DEF AppendBlock, Up
  <2> QED  BY <2>1 DEF A!Next, A!Append
<1>5. CASE SpillData
  <2>1. PICK k \in 1 .. Len(dbuf) : data' = data \o SubSeq(dbuf, 1, k)
    BY <1>5 DEF SpillData
  <2>2. SubSeq(dbuf, 1, k) \in Seq(Cell)
    <3>1. \A i \in 1 .. k : i \in 1 .. Len(dbuf)
      BY <1>t, LenProperties
    <3>2. \A i \in 1 .. k : dbuf[i] \in Cell
      BY <1>t, <3>1, ElementOfSeq
    <3> QED  BY <3>2, SubSeqProperties
  <2>3. Up /\ Up' /\ head' = head /\ flushed' = flushed
    BY <1>5 DEF SpillData, Up
  <2>4. B' \in B .. head
    BY <1>g, <1>l, <2>1, <2>2, <2>3
  <2> QED  BY <2>3, <2>4 DEF A!Next, A!Persist, B
<1>6. CASE SpillIndex \/ FindBlock
  BY <1>6 DEF SpillIndex, FindBlock, Up, absVars, AbsLen
<1>7. CASE FlushData
  <2>1. Up /\ Up' /\ head' = head /\ flushed' = flushed /\ data' = data \o dbuf
    BY <1>7 DEF FlushData, Up
  <2>2. B' \in B .. head
    BY <1>g, <1>l, <1>t, <2>1
  <2> QED  BY <2>1, <2>2 DEF A!Next, A!Persist, B
<1>8. CASE FlushIndex
  <2>1. Up /\ Up' /\ head' = head /\ flushed' = head /\ data' = data /\ dbuf = <<>>
    BY <1>8 DEF FlushIndex, Up, IInv
  <2>2. B = head
    BY <1>b, <2>1
  <2> QED  BY <2>1, <2>2 DEF A!Next, A!Flush, B
<1>9. CASE ReadBlock
  <2>1. Up /\ Up' /\ head' = head /\ flushed' = flushed /\ (data' = data \o dbuf \/ data' = data)
    BY <1>9 DEF ReadBlock, Up
  <2>2. CASE data' = data
    BY <2>1, <2>2 DEF absVars, AbsLen
  <2>3. CASE data' = data \o dbuf
    <3>1. B' \in B .. head
      BY <1>g, <1>l, <1>t, <2>1, <2>3
    <3> QED  BY <2>1, <3>1 DEF A!Next, A!Persist, B
  <2> QED  BY <2>1, <2>2, <2>3
<1>10. CASE Close
  <2>1. Up /\ ~Up' /\ data' = data \o dbuf /\ flushed' = head
    BY <1>10 DEF Close, Up
  <2>2. B' = head
    <3>1. data' \in Seq(Cell) /\ Laid(data') /\ Len(data') = Start[head + 1] /\ head \in 0 .. MaxBlock
      BY <1>p, <2>1 DEF Mapping, IInv, TypeOK
    <3> QED  BY <3>1, BlocksWhole DEF B
  <2> QED  BY <2>1, <2>2 DEF A!Next, A!Close, B
<1>11. CASE Crash
  <2>1. Up /\ ~Up' /\ data' = data /\ flushed' = flushed
    BY <1>11 DEF Crash, Up
  <2> QED  BY <2>1 DEF A!Next, A!Crash
<1>12. CASE UNCHANGED vars
  BY <1>12 DEF vars, Up, absVars, AbsLen
<1> QED
  BY <1>1, <1>2, <1>3, <1>4, <1>5, <1>6, <1>7, <1>8, <1>9, <1>10, <1>11, <1>12 DEF Next

(***************************************************************************)
(* Theorems                                                                *)
(***************************************************************************)

\* The inductive invariant holds for any number and sizes of blocks, whatever
\* is spilled, flushed, lost in crashes or removed.
THEOREM Invariance == Spec => []IInv
<1> QED  BY InvInit, InvStep, PTL DEF Spec

\* The files, buffers and the head always have their types.
THEOREM TypeCorrect == Spec => []TypeOK
<1>1. IInv => TypeOK
  BY DEF IInv
<1> QED  BY <1>1, Invariance, PTL

\* While the log is open, every block up to the head is found under its number
\* and the index ends where append() expects it, but for a log of one block.
THEOREM IndexExactAlways == Spec => []IndexExact
<1>1. ASSUME IInv PROVE IndexExact
  <2> SUFFICES ASSUME Up, head # 1 PROVE IndexMatches
    BY DEF IndexExact
  <2> DEFINE file == data \o dbuf
             ix == index \o ibuf
  <2>1. /\ file \in Seq(Cell) /\ Laid(file) /\ Len(file) = Start[head + 1] /\ head \in 0 .. MaxBlock
        /\ Entries(ix) /\ Len(ix) = head /\ MaxBlock \in Nat
    BY <1>1, ConcatProperties, BlockLogAssumption DEF IInv, TypeOK
  <2> HIDE DEF file, ix
  <2>2. ASSUME NEW n \in 1 .. head PROVE Lookup(ix, file, n) = n
    <3>1. head \in Nums /\ ix[n] = Start[n]
      BY <2>1 DEF Entries, Nums
    <3> QED  BY <2>1, <3>1, EndsAt DEF Lookup
  <2>3. IndexFits(head + 1)
    BY <2>1 DEF IndexFits, ix
  <2> QED  BY <2>2, <2>3 DEF IndexMatches, ix, file
<1> QED  BY <1>1, Invariance, PTL

\* The two files with their buffers implement the append only log: crashes take
\* back blocks that were not flushed and no others, a flush returns when all
\* blocks are durable, and an orderly close keeps everything.
THEOREM Refinement == Spec => ImplementsLog
<1>1. Init => A!Init
  BY RefinesInit
<1>2. IInv /\ IInv' /\ [Next]_vars => A!Next \/ UNCHANGED absVars
  BY RefinesStep
<1>3. IInv /\ IInv' /\ [Next]_vars => [A!Next]_<<IF Up THEN head ELSE Blocks(data), Blocks(data), flushed, Up>>
  BY <1>2 DEF absVars, AbsLen
<1> QED  BY <1>1, <1>3, Invariance, PTL DEF Spec, ImplementsLog, A!Spec
=============================================================================
