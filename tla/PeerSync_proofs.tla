---------------------------- MODULE PeerSync_proofs ----------------------------
(***************************************************************************)
(* Proofs about PeerSync for any number of honest peers, any tree of       *)
(* blocks, and any limits: every request is owed by a connection, whatever *)
(* is requested arrives while it is expected, and blocks reach the chain   *)
(* after their parents, so that no peer is accused over a block.           *)
(***************************************************************************)
EXTENDS PeerSync, SequenceTheorems, FiniteSetTheorems, WellFoundedInduction, NaturalsInduction, TLAPS

(***************************************************************************)
(* Numbers, sets of numbers and sequences.                                 *)
(***************************************************************************)

LEMMA LeastOf ==
  ASSUME NEW T, T \subseteq Nat, T # {}
  PROVE  \E k \in T : \A j \in T : k <= j
<1>1. PICK k \in T : \A j \in T : ~(<<j, k>> \in OpToRel(<, Nat))
  BY NatLessThanWellFounded, WFMin
<1>2. \A j \in T : ~(j < k)
  BY <1>1 DEF OpToRel
<1> QED  BY <1>2

\* A set of numbers that holds 0 and with each number the next holds all.
LEMMA Numbers ==
  ASSUME NEW G, 0 \in G, \A k \in Nat : k \in G => k + 1 \in G
  PROVE  Nat \subseteq G
<1> DEFINE T == {k \in Nat : k \notin G}
<1> SUFFICES ASSUME T # {} PROVE FALSE
  OBVIOUS
<1>1. PICK k \in T : \A j \in T : k <= j
  BY LeastOf
<1>2. k # 0 /\ k - 1 \in Nat /\ ~(k <= k - 1) /\ (k - 1) + 1 = k
  BY <1>1
<1>3. k - 1 \in G
  BY <1>1, <1>2
<1> QED  BY <1>1, <1>2, <1>3

\* The same up to a bound.
LEMMA NumbersTo ==
  ASSUME NEW n \in Nat, NEW G, 0 \in G, \A k \in 0 .. n - 1 : k \in G => k + 1 \in G
  PROVE  0 .. n \subseteq G
<1> DEFINE H == {k \in Nat : k <= n => k \in G}
<1>1. 0 \in H
  OBVIOUS
<1>2. \A k \in Nat : k \in H => k + 1 \in H
  OBVIOUS
<1>3. Nat \subseteq H
  BY ONLY <1>1, <1>2, Numbers
<1> QED  BY <1>3

LEMMA MinIn ==
  ASSUME NEW T, T \subseteq Nat, T # {}
  PROVE  Min(T) \in T /\ \A j \in T : Min(T) <= j
<1>1. \E k \in T : \A j \in T : k <= j
  BY LeastOf
<1> QED  BY <1>1 DEF Min

LEMMA MaxIn ==
  ASSUME NEW n \in Nat, NEW T, T \subseteq 0 .. n, T # {}
  PROVE  Max(T) \in T /\ \A j \in T : Max(T) >= j
<1> DEFINE U == {n - k : k \in T}
<1>1. U \subseteq Nat /\ U # {}
  OBVIOUS
<1>2. PICK u \in U : \A j \in U : u <= j
  BY <1>1, LeastOf
<1>3. PICK k \in T : u = n - k
  BY <1>2
<1>4. ASSUME NEW j \in T PROVE k >= j
  <2>1. u <= n - j
    BY <1>2
  <2> QED  BY <2>1, <1>3
<1>5. \E x \in T : \A y \in T : x >= y
  BY <1>4
<1> QED  BY <1>5 DEF Max

LEMMA MinPair == ASSUME NEW x \in Int, NEW y \in Int PROVE Min({x, y}) \in {x, y} /\ Min({x, y}) <= x /\ Min({x, y}) <= y
<1>1. \E z \in {x, y} : \A w \in {x, y} : z <= w
  <2>1. CASE x <= y
    BY <2>1
  <2>2. CASE ~(x <= y)
    BY <2>2
  <2> QED  BY <2>1, <2>2
<1> QED  BY <1>1 DEF Min

LEMMA MaxPair == ASSUME NEW x \in Int, NEW y \in Int PROVE Max({x, y}) \in {x, y} /\ Max({x, y}) >= x /\ Max({x, y}) >= y
<1>1. \E z \in {x, y} : \A w \in {x, y} : z >= w
  <2>1. CASE x >= y
    BY <2>1
  <2>2. CASE ~(x >= y)
    BY <2>2
  <2> QED  BY <2>1, <2>2
<1> QED  BY <1>1 DEF Max

LEMMA Elements ==
  ASSUME NEW S, NEW s \in Seq(S)
  PROVE  /\ Len(s) \in Nat /\ (\A i \in 1 .. Len(s) : s[i] \in S) /\ DOMAIN s = 1 .. Len(s)
         /\ Range(s) = {s[i] : i \in 1 .. Len(s)} /\ Range(s) \subseteq S
         /\ (s = <<>> <=> Len(s) = 0) /\ s = [i \in 1 .. Len(s) |-> s[i]]
<1>1. Len(s) \in Nat /\ (\A i \in 1 .. Len(s) : s[i] \in S) /\ DOMAIN s = 1 .. Len(s) /\ s = [i \in 1 .. Len(s) |-> s[i]]
  BY ElementOfSeq, LenProperties
<1>2. Range(s) = {s[i] : i \in 1 .. Len(s)}
  BY <1>1 DEF Range
<1>3. s = <<>> <=> Len(s) = 0
  BY EmptySeq
<1> QED  BY <1>1, <1>2, <1>3

LEMMA Tails ==
  ASSUME NEW S, NEW s \in Seq(S), s # <<>>
  PROVE  /\ Head(s) = s[1] /\ Head(s) \in S /\ Len(s) > 0 /\ Len(s) \in Nat
         /\ Tail(s) \in Seq(S) /\ Len(Tail(s)) = Len(s) - 1
         /\ \A i \in 1 .. Len(s) - 1 : Tail(s)[i] = s[i + 1]
BY HeadTailProperties, Elements

LEMMA Appends ==
  ASSUME NEW S, NEW s \in Seq(S), NEW x \in S
  PROVE  /\ Append(s, x) \in Seq(S) /\ Len(Append(s, x)) = Len(s) + 1 /\ Append(s, x)[Len(s) + 1] = x
         /\ \A i \in 1 .. Len(s) : Append(s, x)[i] = s[i]
BY AppendProperties

LEMMA Concats ==
  ASSUME NEW S, NEW s \in Seq(S), NEW t \in Seq(S)
  PROVE  /\ s \o t \in Seq(S) /\ Len(s \o t) = Len(s) + Len(t)
         /\ \A i \in 1 .. Len(s) : (s \o t)[i] = s[i]
         /\ \A i \in 1 .. Len(t) : (s \o t)[Len(s) + i] = t[i]
<1>1. Len(s) \in Nat /\ Len(t) \in Nat
  BY Elements
<1>2. s \o t \in Seq(S) /\ Len(s \o t) = Len(s) + Len(t)
      /\ \A i \in 1 .. Len(s) + Len(t) : (s \o t)[i] = IF i <= Len(s) THEN s[i] ELSE t[i - Len(s)]
  BY ConcatProperties
<1>3. ASSUME NEW i \in 1 .. Len(t) PROVE (s \o t)[Len(s) + i] = t[i]
  <2>1. Len(s) + i \in 1 .. Len(s) + Len(t) /\ ~(Len(s) + i <= Len(s)) /\ Len(s) + i - Len(s) = i
    BY <1>1
  <2> QED  BY <1>2, <2>1
<1> QED  BY <1>1, <1>2, <1>3

LEMMA Slices ==
  ASSUME NEW S, NEW s \in Seq(S), NEW m \in 1 .. Len(s) + 1, NEW n \in m - 1 .. Len(s)
  PROVE  /\ SubSeq(s, m, n) \in Seq(S) /\ Len(SubSeq(s, m, n)) = n - m + 1
         /\ \A i \in 1 .. n - m + 1 : SubSeq(s, m, n)[i] = s[m + i - 1]
<1>1. Len(s) \in Nat /\ \A i \in m .. n : s[i] \in S
  BY ElementOfSeq, LenProperties
<1> QED  BY <1>1, SubSeqProperties

(***************************************************************************)
(* Chains of blocks.                                                       *)
(***************************************************************************)

LEMMA BlocksAre ==
  /\ Len(Parent) \in Nat /\ Blocks = 1 .. Len(Parent) /\ {0} \cup Blocks = 0 .. Len(Parent)
  /\ \A b \in Blocks : Parent[b] \in Nat /\ Parent[b] < b /\ Parent[b] \in {0} \cup Blocks
<1>1. Len(Parent) \in Nat /\ Blocks = 1 .. Len(Parent) /\ \A b \in Blocks : Parent[b] \in Nat /\ Parent[b] < b
  BY PeerSyncAssumption, Elements DEF Blocks
<1> QED  BY <1>1

Heads == {0} \cup Blocks

LEMMA HeadsAre ==
  /\ Heads \subseteq Nat /\ Blocks \subseteq Nat /\ Blocks \subseteq Heads /\ 0 \in Heads /\ 0 \notin Blocks
  /\ \A b \in Heads : b # 0 => b \in Blocks
  /\ \A b \in Blocks : Parent[b] \in Heads /\ Parent[b] \in Nat /\ Parent[b] < b
BY BlocksAre DEF Heads

Grown(f, b) == IF b = 0 THEN <<>> ELSE Append(f[Parent[b]], b)

\* The recursive definition of chains has a solution.
LEMMA ChainGrows == Chain = [b \in Heads |-> Grown(Chain, b)]
<1> DEFINE N == Len(Parent)
           P(n) == \E f : f = [b \in 0 .. n |-> Grown(f, b)]
           G == {n \in Nat : P(n)}
<1>0. N \in Nat /\ Heads = 0 .. N /\ \A b \in 1 .. N : Parent[b] \in Nat /\ Parent[b] < b
  BY BlocksAre DEF Heads
<1> HIDE DEF N
<1>1. P(0)
  <2> DEFINE f == [b \in 0 .. 0 |-> <<>>]
  <2>1. f = [b \in 0 .. 0 |-> Grown(f, b)]
    BY DEF Grown
  <2> QED  BY <2>1
<1>2. ASSUME NEW n \in 0 .. N - 1, P(n) PROVE P(n + 1)
  <2>1. PICK f : f = [b \in 0 .. n |-> Grown(f, b)]
    BY <1>2
  <2> DEFINE g == [b \in 0 .. n + 1 |-> IF b = n + 1 THEN Grown(f, b) ELSE f[b]]
  <2>2. ASSUME NEW b \in 0 .. n + 1 PROVE g[b] = Grown(g, b)
    <3>1. CASE b = 0
      BY <2>1, <3>1, <1>0 DEF Grown
    <3>2. CASE b # 0
      <4>1. b \in 1 .. N /\ Parent[b] \in 0 .. n
        BY <1>0, <3>2
      <4>2. g[Parent[b]] = f[Parent[b]]
        BY <4>1, <1>0
      <4>3. g[b] = Grown(f, b)
        BY <2>1
      <4> QED  BY <3>2, <4>2, <4>3 DEF Grown
    <3> QED  BY <3>1, <3>2
  <2>3. g = [b \in 0 .. n + 1 |-> Grown(g, b)]
    BY <2>2
  <2> QED  BY <2>3
<1> HIDE DEF P
<1>3. 0 .. N \subseteq G
  <2>1. 0 \in G /\ \A n \in 0 .. N - 1 : n \in G => n + 1 \in G
    BY <1>0, <1>1, <1>2
  <2> QED  BY ONLY <2>1, <1>0, NumbersTo
<1>4. P(N)
  BY <1>0, <1>3
<1>5. \E f : f = [b \in Heads |-> Grown(f, b)]
  BY <1>0, <1>4 DEF P
<1>6. Chain = CHOOSE f : f = [b \in Heads |-> Grown(f, b)]
  BY DEF Chain, Grown, Heads
<1> QED  BY <1>5, <1>6

\* A chain ends in its block, goes over from parent to child, and counts.
ChainWell(b) ==
  /\ Chain[b] \in Seq(Blocks)
  /\ b # 0 => Len(Chain[b]) > 0 /\ Chain[b][Len(Chain[b])] = b
  /\ \A i \in 1 .. Len(Chain[b]) : Len(Chain[Chain[b][i]]) = i
  /\ \A i \in 1 .. Len(Chain[b]) - 1 : Parent[Chain[b][i + 1]] = Chain[b][i]
  /\ Len(Chain[b]) > 0 => Parent[Chain[b][1]] = 0

LEMMA ChainFacts == ASSUME NEW b \in Heads PROVE ChainWell(b)
<1> DEFINE T == {c \in Heads : ~ChainWell(c)}
<1>0. Heads \subseteq Nat /\ Chain = [c \in Heads |-> Grown(Chain, c)]
      /\ \A c \in Blocks : c # 0 /\ c \in Heads /\ Parent[c] \in Heads /\ Parent[c] < c
  BY BlocksAre, ChainGrows DEF Heads
<1>h. Heads \subseteq Nat /\ Blocks \subseteq Nat
  BY BlocksAre DEF Heads
<1>1. ASSUME T # {} PROVE FALSE
  <2>1. T \subseteq Nat
    BY <1>0
  <2>2. PICK c \in T : \A d \in T : c <= d
    BY <1>1, <2>1, LeastOf
  <2>3. CASE c = 0
    <3>1. Chain[c] = <<>> /\ c \in Heads
      BY <1>0, <2>3 DEF Grown
    <3>2. <<>> \in Seq(Blocks) /\ Len(<<>>) = 0
      BY EmptySeq
    <3>3. ChainWell(c)
      BY <2>3, <3>1, <3>2 DEF ChainWell
    <3> QED  BY <3>3, <2>2
  <2>4. CASE c # 0
    <3>1. c \in Blocks /\ Parent[c] \in Heads /\ Parent[c] < c
      BY <2>4, <1>0 DEF Heads
    <3> DEFINE p == Parent[c]
               s == Chain[p]
    <3>2. ChainWell(p)
      <4>0. p \in Nat /\ c \in Nat /\ p < c
        BY <3>1, <1>h
      <4> HIDE DEF p
      <4>1. ~(c <= p)
        BY ONLY <4>0
      <4>2. p \notin T
        BY <4>1, <2>2
      <4> QED  BY <4>2, <3>1 DEF p
    <3>3. Chain[c] = Append(s, c)
      BY <1>0, <2>4, <3>1 DEF Grown
    <3>4. s \in Seq(Blocks) /\ Len(s) \in Nat
      BY <3>2, Elements DEF ChainWell
    <3>5. /\ Chain[c] \in Seq(Blocks) /\ Len(Chain[c]) = Len(s) + 1 /\ Chain[c][Len(s) + 1] = c
          /\ \A i \in 1 .. Len(s) : Chain[c][i] = s[i]
      BY <3>1, <3>3, <3>4, Appends
    <3>6. p = 0 => s = <<>> /\ Len(s) = 0
      BY <1>0, <3>1, EmptySeq DEF Grown
    <3>7. ASSUME NEW i \in 1 .. Len(Chain[c]) PROVE Len(Chain[Chain[c][i]]) = i
      BY <3>2, <3>4, <3>5 DEF ChainWell
    <3>8. ASSUME NEW i \in 1 .. Len(Chain[c]) - 1 PROVE Parent[Chain[c][i + 1]] = Chain[c][i]
      <4>1. CASE i = Len(s)
        <5>1. p # 0
          BY <3>4, <3>5, <3>6, <4>1
        <5> QED  BY <3>2, <3>4, <3>5, <4>1, <5>1 DEF ChainWell
      <4>2. CASE i # Len(s)
        <5>1. i \in 1 .. Len(s) - 1 /\ i + 1 \in 1 .. Len(s) /\ i \in 1 .. Len(s)
          BY <3>4, <3>5, <4>2
        <5> QED  BY <3>2, <3>5, <5>1 DEF ChainWell
      <4> QED  BY <4>1, <4>2
    <3>9. Parent[Chain[c][1]] = 0
      <4>1. CASE p = 0
        BY <3>5, <3>6, <4>1
      <4>2. CASE p # 0
        <5>1. 1 \in 1 .. Len(s)
          BY <3>2, <3>4, <4>2 DEF ChainWell
        <5> QED  BY <3>2, <3>4, <3>5, <4>2, <5>1 DEF ChainWell
      <4> QED  BY <4>1, <4>2
    <3>10. ChainWell(c)
      BY <3>4, <3>5, <3>7, <3>8, <3>9 DEF ChainWell
    <3> QED  BY <3>10, <2>2
  <2> QED  BY <2>3, <2>4
<1> QED  BY <1>1

\* What the rest needs of chains.
LEMMA ChainOf ==
  ASSUME NEW b \in Heads
  PROVE  /\ Chain[b] \in Seq(Blocks) /\ Num(b) \in Nat /\ Len(Chain[b]) = Num(b) /\ Of(b) \subseteq Blocks
         /\ Of(b) = {Chain[b][i] : i \in 1 .. Num(b)}
         /\ (b # 0 => Num(b) > 0 /\ Chain[b][Num(b)] = b /\ b \in Of(b)) /\ (b = 0 => Of(b) = {} /\ Num(b) = 0)
         /\ \A i \in 1 .. Num(b) : Chain[b][i] \in Blocks /\ Num(Chain[b][i]) = i
         /\ \A i \in 1 .. Num(b) - 1 : Parent[Chain[b][i + 1]] = Chain[b][i]
<1>1. ChainWell(b)
  BY ChainFacts
<1>2. Chain[b] \in Seq(Blocks) /\ Num(b) \in Nat /\ Len(Chain[b]) = Num(b) /\ Of(b) \subseteq Blocks
      /\ Of(b) = {Chain[b][i] : i \in 1 .. Num(b)} /\ \A i \in 1 .. Num(b) : Chain[b][i] \in Blocks
  BY <1>1, Elements DEF ChainWell, Num, Of
<1>3. \A i \in 1 .. Num(b) : Num(Chain[b][i]) = i
  BY <1>1 DEF ChainWell, Num
<1>4. \A i \in 1 .. Num(b) - 1 : Parent[Chain[b][i + 1]] = Chain[b][i]
  BY <1>1 DEF ChainWell, Num
<1>5. b # 0 => Num(b) > 0 /\ Chain[b][Num(b)] = b
  BY <1>1 DEF ChainWell, Num
<1>6. b # 0 => b \in Of(b)
  BY <1>2, <1>5
<1>7. b = 0 => Num(b) = 0 /\ Of(b) = {}
  <2>1. b = 0 => Chain[b] = <<>>
    BY ChainGrows DEF Grown
  <2>2. b = 0 => Num(b) = 0
    BY <2>1, EmptySeq DEF Num
  <2> QED  BY <1>2, <2>2
<1> QED  BY <1>2, <1>3, <1>4, <1>5, <1>6, <1>7

\* The parent of a block of a chain.
LEMMA Before1 ==
  ASSUME NEW b \in Blocks
  PROVE  /\ Chain[b] = Append(Chain[Parent[b]], b) /\ Num(b) = Num(Parent[b]) + 1
         /\ Of(b) = Of(Parent[b]) \cup {b} /\ Num(Parent[b]) \in Nat /\ (Num(b) = 1 => Parent[b] = 0)
<1>1. b \in Heads /\ b # 0 /\ Parent[b] \in Heads
  BY BlocksAre DEF Heads
<1>2. Chain[b] = Append(Chain[Parent[b]], b)
  BY <1>1, ChainGrows DEF Grown
<1>3. Chain[Parent[b]] \in Seq(Blocks) /\ Len(Chain[Parent[b]]) \in Nat
  BY <1>1, ChainOf
<1> DEFINE s == Chain[Parent[b]]
<1>4. /\ Append(s, b) \in Seq(Blocks) /\ Len(Append(s, b)) = Len(s) + 1 /\ Append(s, b)[Len(s) + 1] = b
      /\ \A i \in 1 .. Len(s) : Append(s, b)[i] = s[i]
  BY <1>3, Appends
<1>5. Num(b) = Num(Parent[b]) + 1 /\ Num(Parent[b]) \in Nat
  BY <1>2, <1>3, <1>4 DEF Num
<1>6. Of(b) = Of(Parent[b]) \cup {b}
  <2>1. Of(b) = {Append(s, b)[i] : i \in 1 .. Len(s) + 1} /\ Of(Parent[b]) = {s[i] : i \in 1 .. Len(s)}
    <3>1. Num(b) = Len(s) + 1 /\ Num(Parent[b]) = Len(s)
      BY <1>2, <1>4 DEF Num
    <3>2. /\ Of(b) = {Chain[b][i] : i \in 1 .. Num(b)}
          /\ Of(Parent[b]) = {Chain[Parent[b]][i] : i \in 1 .. Num(Parent[b])}
      BY <1>1, ChainOf
    <3> QED  BY ONLY <1>2, <3>1, <3>2
  <2>2. \A i \in 1 .. Len(s) + 1 : Append(s, b)[i] \in Of(Parent[b]) \cup {b}
    BY <1>3, <1>4, <2>1
  <2>3. \A i \in 1 .. Len(s) : s[i] \in Of(b)
    BY <1>3, <1>4, <2>1
  <2>4. b \in Of(b)
    BY <1>1, ChainOf
  <2> HIDE DEF s
  <2> QED  BY ONLY <2>1, <2>2, <2>3, <2>4
<1>7. Num(b) = 1 => Parent[b] = 0
  BY <1>1, <1>5, ChainOf
<1> QED  BY <1>2, <1>5, <1>6, <1>7

Rooted(K) == K \subseteq Heads /\ 0 \in K /\ \A b \in K \ {0} : Parent[b] \in K

\* A set of blocks that has the parents of its blocks has their chains.
LEMMA RootedChains ==
  ASSUME NEW K, Rooted(K), NEW b \in K
  PROVE  Of(b) \subseteq K
<1> DEFINE T == {c \in K : ~(Of(c) \subseteq K)}
<1>1. ASSUME T # {} PROVE FALSE
  <2>1. T \subseteq Nat /\ K \subseteq Nat
    BY HeadsAre DEF Rooted
  <2>2. PICK c \in T : \A d \in T : c <= d
    BY <1>1, <2>1, LeastOf
  <2>3. c # 0
    BY <2>2, ChainOf DEF Rooted
  <2>4. c \in Blocks /\ Parent[c] \in K /\ Parent[c] < c
    BY <2>2, <2>3, BlocksAre DEF Rooted, Heads
  <2>5. Parent[c] \in Nat /\ c \in Nat
    BY <2>1, <2>4
  <2>6. Parent[c] \notin T
    BY <2>2, <2>4, <2>5
  <2>7. Of(c) \subseteq K
    BY <2>2, <2>4, <2>6, Before1
  <2> QED  BY <2>2, <2>7
<1> QED  BY <1>1

\* Irreversible blocks are on every chain that is long enough.
LEMMA IrreversibleOn ==
  ASSUME NEW h \in Heads, NEW b \in Blocks, Num(b) <= Lib, Lib <= Num(h)
  PROVE  b \in Of(h)
<1>0. Lib \in Nat /\ InitHead \in Heads /\ b \in Heads /\ b # 0
  BY PeerSyncAssumption, BlocksAre DEF Heads
<1>1. Num(b) \in 1 .. Num(h)
  BY <1>0, ChainOf
<1> DEFINE c == Chain[h][Num(b)]
<1>2. c \in Blocks /\ Num(c) = Num(b) /\ c \in Of(h)
  BY <1>1, ChainOf
<1> HIDE DEF c
<1>3. c \in Of(InitHead) /\ b \in Of(InitHead)
  BY <1>2, IrreversibleShared
<1>4. \A d \in Of(InitHead) : d = Chain[InitHead][Num(d)]
  BY <1>0, ChainOf
<1> QED  BY <1>2, <1>3, <1>4

(***************************************************************************)
(* The synopsis of a chain.                                                *)
(***************************************************************************)

Halves(f, n, high) == IF n > high THEN {} ELSE {n} \cup f[n + (high - n + 2) \div 2]

LEMMA HalvesExist ==
  ASSUME NEW high \in Nat
  PROVE  \E f : f = [n \in Nat |-> Halves(f, n, high)]
<1> DEFINE D(m) == {n \in Nat : n + m >= high + 1}
           P(m) == \E f : f = [n \in D(m) |-> Halves(f, n, high)]
           G == {m \in Nat : P(m)}
<1>1. P(0)
  <2> DEFINE f == [n \in D(0) |-> {}]
  <2>1. f = [n \in D(0) |-> Halves(f, n, high)]
    BY DEF Halves
  <2> QED  BY <2>1
<1>2. ASSUME NEW m \in Nat, P(m) PROVE P(m + 1)
  <2>1. PICK f : f = [n \in D(m) |-> Halves(f, n, high)]
    BY <1>2
  <2> DEFINE g == [n \in D(m + 1) |-> IF n \in D(m) THEN f[n] ELSE Halves(f, n, high)]
  <2>2. ASSUME NEW n \in D(m + 1), n <= high PROVE n + (high - n + 2) \div 2 \in D(m) /\ n + (high - n + 2) \div 2 \in D(m + 1)
    BY <2>2
  <2>3. ASSUME NEW n \in D(m + 1) PROVE g[n] = Halves(g, n, high)
    <3>1. g[n] = Halves(f, n, high)
      BY <2>1
    <3>2. n <= high => g[n + (high - n + 2) \div 2] = f[n + (high - n + 2) \div 2]
      BY <2>2
    <3>3. n > high \/ n <= high
      OBVIOUS
    <3> HIDE DEF g, D
    <3> QED  BY ONLY <3>1, <3>2, <3>3 DEF Halves
  <2>4. g = [n \in D(m + 1) |-> Halves(g, n, high)]
    BY <2>3
  <2> QED  BY <2>4
<1>3. D(high + 1) = Nat
  OBVIOUS
<1> HIDE DEF P
<1>4. Nat \subseteq G
  <2>1. 0 \in G /\ \A m \in Nat : m \in G => m + 1 \in G
    BY <1>1, <1>2
  <2> QED  BY ONLY <2>1, Numbers
<1>5. P(high + 1)
  BY <1>4
<1> QED  BY <1>3, <1>5 DEF P

LEMMA HalvingFacts ==
  ASSUME NEW low \in Nat, NEW high \in Nat
  PROVE  Halving(low, high) \subseteq low .. high /\ (low <= high => low \in Halving(low, high) /\ high \in Halving(low, high))
<1> DEFINE f == CHOOSE g : g = [n \in Nat |-> Halves(g, n, high)]
<1>1. Halving(low, high) = f[low]
  BY DEF Halving, Halves
<1>2. f = [n \in Nat |-> Halves(f, n, high)]
  BY HalvesExist
<1> HIDE DEF f
<1> DEFINE Good(n) == f[n] \subseteq n .. high /\ (n <= high => n \in f[n] /\ high \in f[n])
           G == {m \in Nat : \A n \in Nat : n + m > high => Good(n)}
<1>3. 0 \in G
  BY <1>2 DEF Halves
<1>4. ASSUME NEW m \in Nat, m \in G PROVE m + 1 \in G
  <2> SUFFICES ASSUME NEW n \in Nat, n + (m + 1) > high PROVE Good(n)
    OBVIOUS
  <2>1. CASE n > high
    BY <1>2, <2>1 DEF Halves
  <2>2. CASE n <= high
    <3> DEFINE k == n + (high - n + 2) \div 2
    <3>1. k \in Nat /\ k > n /\ k + m > high /\ (n < high => k <= high)
      BY <2>2
    <3>2. Good(k)
      BY <1>4, <3>1
    <3>3. f[n] = {n} \cup f[k]
      BY <1>2, <2>2 DEF Halves
    <3> HIDE DEF k
    <3> QED  BY <2>2, <3>1, <3>2, <3>3
  <2> QED  BY <2>1, <2>2
<1>5. Nat \subseteq G
  BY ONLY <1>3, <1>4, Numbers
<1>6. Good(low)
  <2>1. high + 1 \in G /\ low + (high + 1) > high
    BY <1>5
  <2> QED  BY <2>1
<1> QED  BY <1>1, <1>6

(***************************************************************************)
(* The invariant.                                                          *)
(***************************************************************************)

Known == have \cup Range(handled) \cup {0}

Linked(l) == \A i \in 1 .. Len(l) - 1 : Parent[l[i + 1]] = l[i]

InMsg   == ({"ask"} \X Heads) \cup ({"list"} \X Seq(Blocks) \X Int) \cup ({"inv", "block"} \X Blocks)
OutMsg  == ({"ids"} \X SUBSET Blocks) \cup ({"get"} \X Seq(Blocks))
PeerRec == [conn : {"active", "closing", "closed"}, toGet : Seq(Blocks), processing : SUBSET Blocks, unfetched : Int,
            needs : BOOLEAN, theyNeed : BOOLEAN, asked : SUBSET SUBSET Blocks, requested : SUBSET Blocks,
            lastSeen : Heads, normal : SUBSET Blocks, offered : SUBSET Blocks, in : Seq(InMsg), out : Seq(OutMsg)]

\* what was requested and is on its way is owed, each block once
Owes(in, out, owed) ==
  /\ \A i \in 1 .. Len(in) : in[i][1] = "block" => in[i][2] \in owed
  /\ \A i, j \in 1 .. Len(in) : in[i][1] = "block" /\ in[j][1] = "block" /\ in[i][2] = in[j][2] => i = j
  /\ \A i, j \in 1 .. Len(out) : out[i][1] = "get" /\ out[j][1] = "get" => i = j
  /\ \A i \in 1 .. Len(out) : out[i][1] = "get" =>
       /\ out[i][2] # <<>> /\ IsInjective(out[i][2])
       /\ \A k \in 1 .. Len(out[i][2]) :
            /\ out[i][2][k] \in owed
            /\ \A j \in 1 .. Len(in) : in[j][1] = "block" => in[j][2] # out[i][2][k]

\* the blocks of a list follow each other, the first one a known block
Route(r, K) ==
  /\ Linked(r.toGet) /\ r.lastSeen \in K
  /\ r.toGet # <<>> => Parent[r.toGet[1]] \in K
  /\ \A i \in 1 .. Len(r.in) : r.in[i][1] = "list" => Linked(r.in[i][2])

\* a synopsis that waits for its answer names known blocks and blocks to get
Awaits(r, K) == \A syn \in r.asked : syn \subseteq K \cup Range(r.toGet) /\ (syn = {} => r.toGet = <<>>)

Sound(r) ==
  /\ r \in PeerRec /\ Owes(r.in, r.out, r.requested \cup r.normal)
  /\ r.conn = "closed" => r.requested = {}

PeerOk(r, K) == Sound(r) /\ Route(r, K) /\ Awaits(r, K)

PeersOk(ps, K) == ps = [p \in Peers |-> ps[p]] /\ \A p \in Peers : PeerOk(ps[p], K)

ChainOk ==
  /\ have \subseteq Blocks /\ \A b \in have : Parent[b] \in have \cup {0}
  /\ head \in have \cup {0} /\ recent \subseteq have \cup {0} /\ Lib <= Num(head)
  /\ handled \in Seq(Blocks)
  /\ \A i \in 1 .. Len(handled) : Parent[handled[i]] \in have \cup {0} \cup {handled[j] : j \in 1 .. i - 1}

IInv ==
  /\ ChainOk /\ fresh \in Seq(Blocks) /\ received \in Seq(Blocks) /\ toFetch \in Seq(Blocks)
  /\ peerHead \in [Peers -> Heads]
  /\ PeersOk(peer, Known) /\ RequestsLive /\ HonestBlocksKept

(***************************************************************************)
(* What is asked for.                                                      *)
(***************************************************************************)

\* A synopsis names known blocks and blocks to get; it is not empty when there
\* are blocks to get.
LEMMA SynopsisFacts ==
  ASSUME NEW r \in PeerRec, NEW K, Rooted(K), r.lastSeen \in K, NEW h \in K, Lib <= Num(h)
  PROVE  /\ Synopsis(r, h) \subseteq K \cup Range(r.toGet) /\ Synopsis(r, h) \subseteq Blocks
         /\ Synopsis(r, h) = {} => r.toGet = <<>>
<1> DEFINE ls     == r.lastSeen
           top    == IF ls = 0 THEN h ELSE ls
           x      == IF ls \in Of(h) THEN Min({Lib, Num(ls)}) ELSE Lib
           low    == Max({1, x})
           n      == Len(r.toGet)
           chain  == IF top = 0 THEN {} ELSE {i \in Halving(low, Num(top) + n) : i <= Num(top)}
           first  == Num(NextId(r))
           ids    == IF n = 0 THEN {} ELSE {i \in Halving(IF top = 0 THEN 1 ELSE low, first + n - 1) : i >= first}
<1>1. Synopsis(r, h) = {Chain[top][i] : i \in chain} \cup {r.toGet[i - first + 1] : i \in ids}
  BY DEF Synopsis
<1>2. h \in Heads /\ ls \in Heads /\ top \in Heads /\ top \in K /\ Lib \in Nat
  BY PeerSyncAssumption DEF Rooted
<1>3. Num(h) \in Nat /\ Num(ls) \in Nat /\ Num(top) \in Nat /\ (top # 0 => Num(top) > 0) /\ 0 \notin Of(h)
  BY <1>2, ChainOf, HeadsAre
<1>4. x \in Nat /\ (top # 0 => x <= Num(top))
  <2>1. CASE ls \in Of(h)
    <3>0. Lib \in Int /\ Num(ls) \in Int
      BY <1>2, <1>3
    <3>m. LET m == Min({Lib, Num(ls)}) IN m \in {Lib, Num(ls)} /\ m <= Num(ls)
      BY ONLY <3>0, MinPair
    <3>1. x \in {Lib, Num(ls)} /\ x <= Num(ls)
      BY ONLY <2>1, <3>m
    <3>2. ls # 0
      BY <2>1, <1>3
    <3> QED  BY <1>2, <1>3, <3>1, <3>2
  <2>2. CASE ls \notin Of(h)
    <3>1. ls # 0 => ls \in Blocks
      BY <1>2, HeadsAre
    <3>2. ls # 0 => ~(Num(ls) <= Lib)
      BY <2>2, <1>2, <3>1, IrreversibleOn
    <3> QED  BY <2>2, <1>2, <1>3, <3>2
  <2> QED  BY <2>1, <2>2
<1>5. low \in Nat /\ low >= 1 /\ (top # 0 => low <= Num(top))
  <2>0. x \in Int /\ 1 \in Int
    BY <1>4
  <2> HIDE DEF x
  <2>1. low \in {1, x} /\ low >= 1
    BY ONLY <2>0, MaxPair
  <2> QED  BY <1>3, <1>4, <2>1
<1>6. r.toGet \in Seq(Blocks) /\ n \in Nat /\ (n = 0 <=> r.toGet = <<>>) /\ \A i \in 1 .. n : r.toGet[i] \in Range(r.toGet) \cap Blocks
  BY Elements DEF PeerRec
<1>7. n # 0 => first \in Nat /\ first >= 1
  <2>1. n # 0 => NextId(r) = r.toGet[1] /\ r.toGet[1] \in Blocks
    BY <1>6 DEF NextId
  <2>2. \A b \in Blocks : Num(b) \in Nat /\ Num(b) > 0
    BY HeadsAre, ChainOf
  <2> QED  BY <2>1, <2>2
<1> HIDE DEF low, x, n, first, top
<1>8. \A i \in chain : i \in 1 .. Num(top) /\ top # 0
  <2>1. Num(top) + n \in Nat
    BY <1>3, <1>6
  <2>2. Halving(low, Num(top) + n) \subseteq low .. Num(top) + n
    BY <2>1, <1>5, HalvingFacts
  <2> QED  BY <2>2, <1>3, <1>5
<1>9. \A i \in chain : Chain[top][i] \in K \cap Blocks
  <2>1. Of(top) \subseteq K
    BY <1>2, RootedChains
  <2> QED  BY <1>2, <1>8, <2>1, ChainOf
<1> DEFINE lo == IF top = 0 THEN 1 ELSE low
<1>10. ASSUME n # 0 PROVE first + n - 1 \in Nat /\ Halving(lo, first + n - 1) \subseteq lo .. first + n - 1
                          /\ (lo <= first + n - 1 => first + n - 1 \in Halving(lo, first + n - 1))
  <2>1. first + n - 1 \in Nat /\ lo \in Nat
    BY <1>5, <1>6, <1>7, <1>10
  <2> HIDE DEF lo
  <2> QED  BY <2>1, HalvingFacts
<1>11. \A i \in ids : r.toGet[i - first + 1] \in Range(r.toGet) \cap Blocks
  <2> SUFFICES ASSUME NEW i \in ids PROVE r.toGet[i - first + 1] \in Range(r.toGet) \cap Blocks
    OBVIOUS
  <2>1. n # 0 /\ i \in Halving(lo, first + n - 1) /\ i >= first
    OBVIOUS
  <2>2. i \in Int /\ i <= first + n - 1
    BY <1>5, <1>10, <2>1
  <2>3. i - first + 1 \in 1 .. n
    BY <1>6, <1>7, <2>1, <2>2
  <2> QED  BY <1>6, <2>3
<1>12. ASSUME n # 0 PROVE chain # {} \/ ids # {}
  <2>1. CASE top = 0
    <3>1. lo <= first + n - 1 /\ first + n - 1 >= first
      BY <2>1, <1>6, <1>7, <1>12
    <3> QED  BY <2>1, <3>1, <1>10, <1>12
  <2>2. CASE top # 0
    <3>1. low <= Num(top) + n /\ Num(top) + n \in Nat
      BY <1>3, <1>5, <1>6, <2>2
    <3>2. low \in Halving(low, Num(top) + n)
      BY <1>5, <3>1, HalvingFacts
    <3> QED  BY <1>5, <2>2, <3>2
  <2> QED  BY <2>1, <2>2
<1> HIDE DEF chain, ids
<1>13. Synopsis(r, h) = {} => n = 0
  BY <1>1, <1>12
<1> QED  BY <1>1, <1>6, <1>9, <1>11, <1>13

LEMMA InTypes ==
  ASSUME NEW m \in InMsg
  PROVE  /\ m[1] = "ask" => m[2] \in Heads
         /\ m[1] = "list" => m[2] \in Seq(Blocks) /\ m[3] \in Int
         /\ m[1] \in {"inv", "block"} => m[2] \in Blocks
BY DEF InMsg

LEMMA OutTypes ==
  ASSUME NEW m \in OutMsg
  PROVE  /\ m[1] = "ids" => m[2] \in SUBSET Blocks
         /\ m[1] = "get" => m[2] \in Seq(Blocks)
BY DEF OutMsg

\* A message that is read was not a block, or was owed.
LEMMA OwesRead ==
  ASSUME NEW in \in Seq(InMsg), NEW out \in Seq(OutMsg), NEW owed, Owes(in, out, owed), in # <<>>
  PROVE  /\ Tail(in) \in Seq(InMsg) /\ Head(in) \in InMsg
         /\ Head(in)[1] # "block" => Owes(Tail(in), out, owed)
         /\ Head(in)[1] = "block" => Head(in)[2] \in owed /\ Owes(Tail(in), out, owed \ {Head(in)[2]})
<1>1. /\ Head(in) = in[1] /\ Head(in) \in InMsg /\ Len(in) > 0 /\ Len(in) \in Nat
      /\ Tail(in) \in Seq(InMsg) /\ Len(Tail(in)) = Len(in) - 1
      /\ \A i \in 1 .. Len(in) - 1 : Tail(in)[i] = in[i + 1]
  BY Tails
<1>2. Len(out) \in Nat /\ \A i \in 1 .. Len(out) : out[i][1] = "get" => Len(out[i][2]) \in Nat
  BY Elements, OutTypes
<1>3. \A i \in 1 .. Len(Tail(in)) : i + 1 \in 1 .. Len(in) /\ i + 1 # 1 /\ Tail(in)[i] = in[i + 1]
  BY <1>1
<1>4. 1 \in 1 .. Len(in)
  BY <1>1
<1>5. \A i, j \in 1 .. Len(Tail(in)) : i + 1 = j + 1 => i = j
  BY <1>1
<1>6. Owes(Tail(in), out, owed)
  <2>1. \A i \in 1 .. Len(Tail(in)) : Tail(in)[i][1] = "block" => Tail(in)[i][2] \in owed
    BY <1>3 DEF Owes
  <2>2. \A i, j \in 1 .. Len(Tail(in)) : Tail(in)[i][1] = "block" /\ Tail(in)[j][1] = "block" /\ Tail(in)[i][2] = Tail(in)[j][2] => i = j
    BY <1>3, <1>5 DEF Owes
  <2>3. \A i \in 1 .. Len(out) : out[i][1] = "get" =>
           \A k \in 1 .. Len(out[i][2]), j \in 1 .. Len(Tail(in)) : Tail(in)[j][1] = "block" => Tail(in)[j][2] # out[i][2][k]
    BY <1>3 DEF Owes
  <2> QED  BY <2>1, <2>2, <2>3 DEF Owes
<1>7. ASSUME Head(in)[1] = "block"
      PROVE  Head(in)[2] \in owed /\ Owes(Tail(in), out, owed \ {Head(in)[2]})
  <2>1. Head(in)[2] \in owed
    BY <1>1, <1>4, <1>7 DEF Owes
  <2>2. \A i \in 1 .. Len(Tail(in)) : Tail(in)[i][1] = "block" => Tail(in)[i][2] \in owed \ {Head(in)[2]}
    BY <1>1, <1>3, <1>4, <1>7 DEF Owes
  <2>3. \A i \in 1 .. Len(out) : out[i][1] = "get" =>
           \A k \in 1 .. Len(out[i][2]) : out[i][2][k] \in owed \ {Head(in)[2]}
    BY <1>1, <1>4, <1>7 DEF Owes
  <2> QED  BY <2>1, <2>2, <2>3, <1>6 DEF Owes
<1> QED  BY <1>1, <1>6, <1>7

LEMMA OwesMore ==
  ASSUME NEW in, NEW out, NEW owed, NEW more, Owes(in, out, owed), owed \subseteq more
  PROVE  Owes(in, out, more)
BY DEF Owes

LEMMA OwesNone == ASSUME NEW owed PROVE Owes(<<>>, <<>>, owed)
<1>1. Len(<<>>) = 0
  BY EmptySeq
<1> QED  BY <1>1 DEF Owes

\* A message of the peer that is no block.
LEMMA OwesSent ==
  ASSUME NEW in \in Seq(InMsg), NEW out, NEW owed, Owes(in, out, owed), NEW m \in InMsg, m[1] # "block"
  PROVE  Append(in, m) \in Seq(InMsg) /\ Owes(Append(in, m), out, owed)
<1>1. /\ Append(in, m) \in Seq(InMsg) /\ Len(Append(in, m)) = Len(in) + 1 /\ Append(in, m)[Len(in) + 1] = m
      /\ \A i \in 1 .. Len(in) : Append(in, m)[i] = in[i]
  BY Appends
<1>2. Len(in) \in Nat
  BY Elements
<1>3. \A i \in 1 .. Len(Append(in, m)) : Append(in, m)[i][1] = "block" => i \in 1 .. Len(in) /\ Append(in, m)[i] = in[i]
  BY <1>1, <1>2
<1> QED  BY <1>1, <1>3 DEF Owes

\* A question for ids.
LEMMA OwesAsked ==
  ASSUME NEW in, NEW out \in Seq(OutMsg), NEW owed, Owes(in, out, owed), NEW m \in OutMsg, m[1] # "get"
  PROVE  Append(out, m) \in Seq(OutMsg) /\ Owes(in, Append(out, m), owed)
<1>1. /\ Append(out, m) \in Seq(OutMsg) /\ Len(Append(out, m)) = Len(out) + 1 /\ Append(out, m)[Len(out) + 1] = m
      /\ \A i \in 1 .. Len(out) : Append(out, m)[i] = out[i]
  BY Appends
<1>2. Len(out) \in Nat
  BY Elements
<1>3. \A i \in 1 .. Len(Append(out, m)) : Append(out, m)[i][1] = "get" => i \in 1 .. Len(out) /\ Append(out, m)[i] = out[i]
  BY <1>1, <1>2
<1> QED  BY <1>1, <1>3 DEF Owes

\* A request for blocks when none is owed.
LEMMA OwesRequested ==
  ASSUME NEW in \in Seq(InMsg), NEW out \in Seq(OutMsg), Owes(in, out, {}),
         NEW items \in Seq(Blocks), items # <<>>, IsInjective(items)
  PROVE  Append(out, <<"get", items>>) \in Seq(OutMsg) /\ Owes(in, Append(out, <<"get", items>>), Range(items))
<1> DEFINE m == <<"get", items>>
<1>0. m \in OutMsg /\ m[1] = "get" /\ m[2] = items
  BY DEF OutMsg
<1> HIDE DEF m
<1>1. /\ Append(out, m) \in Seq(OutMsg) /\ Len(Append(out, m)) = Len(out) + 1 /\ Append(out, m)[Len(out) + 1] = m
      /\ \A i \in 1 .. Len(out) : Append(out, m)[i] = out[i]
  BY <1>0, Appends
<1>2. Len(out) \in Nat /\ \A i \in 1 .. Len(out) : out[i] \in OutMsg
  BY Elements
<1>3. \A i \in 1 .. Len(in) : in[i][1] # "block"
  BY DEF Owes
<1>4. ASSUME NEW i \in 1 .. Len(out) PROVE out[i][1] # "get"
  <2> SUFFICES ASSUME out[i][1] = "get" PROVE FALSE
    OBVIOUS
  <2>1. out[i][2] \in Seq(Blocks) /\ out[i][2] # <<>>
    BY <1>2, OutTypes DEF Owes
  <2>2. 1 \in 1 .. Len(out[i][2])
    BY <2>1, Elements
  <2> QED  BY <2>2 DEF Owes
<1>5. \A i \in 1 .. Len(Append(out, m)) : Append(out, m)[i][1] = "get" => i = Len(out) + 1 /\ Append(out, m)[i] = m
  BY <1>1, <1>2, <1>4
<1>6. \A k \in 1 .. Len(items) : items[k] \in Range(items)
  BY Elements
<1> QED  BY <1>0, <1>1, <1>3, <1>5, <1>6 DEF Owes, m

\* The peer takes a question off its queue.
LEMMA OwesTaken ==
  ASSUME NEW in, NEW out \in Seq(OutMsg), NEW owed, Owes(in, out, owed), out # <<>>
  PROVE  Tail(out) \in Seq(OutMsg) /\ Head(out) \in OutMsg /\ Owes(in, Tail(out), owed)
<1>1. /\ Head(out) = out[1] /\ Head(out) \in OutMsg /\ Len(out) > 0 /\ Len(out) \in Nat
      /\ Tail(out) \in Seq(OutMsg) /\ Len(Tail(out)) = Len(out) - 1
      /\ \A i \in 1 .. Len(out) - 1 : Tail(out)[i] = out[i + 1]
  BY Tails
<1>3. \A i \in 1 .. Len(Tail(out)) : i + 1 \in 1 .. Len(out) /\ Tail(out)[i] = out[i + 1]
  BY <1>1
<1>5. \A i, j \in 1 .. Len(Tail(out)) : i + 1 = j + 1 => i = j
  BY <1>1
<1>6. \A i, j \in 1 .. Len(Tail(out)) : Tail(out)[i][1] = "get" /\ Tail(out)[j][1] = "get" => i = j
  BY <1>3, <1>5 DEF Owes
<1>7. \A i \in 1 .. Len(Tail(out)) : Tail(out)[i][1] = "get" =>
        /\ Tail(out)[i][2] # <<>> /\ IsInjective(Tail(out)[i][2])
        /\ \A k \in 1 .. Len(Tail(out)[i][2]) :
             /\ Tail(out)[i][2][k] \in owed
             /\ \A j \in 1 .. Len(in) : in[j][1] = "block" => in[j][2] # Tail(out)[i][2][k]
  BY <1>3 DEF Owes
<1> QED  BY <1>1, <1>6, <1>7 DEF Owes

\* The blocks of a list, as messages.
Sent(items) == [i \in 1 .. Len(items) |-> <<"block", items[i]>>]

LEMMA Messages ==
  ASSUME NEW items \in Seq(Blocks)
  PROVE  Sent(items) \in Seq(InMsg) /\ Len(Sent(items)) = Len(items) /\ \A i \in 1 .. Len(items) : Sent(items)[i] = <<"block", items[i]>>
<1> DEFINE msgs == Sent(items)
<1>1. Len(items) \in Nat /\ \A i \in 1 .. Len(items) : items[i] \in Blocks
  BY Elements
<1>2. \A i \in 1 .. Len(items) : <<"block", items[i]>> \in InMsg
  BY <1>1 DEF InMsg
<1>3. msgs \in [1 .. Len(items) -> InMsg] /\ \A i \in 1 .. Len(items) : msgs[i] = <<"block", items[i]>>
  BY <1>2 DEF Sent
<1> HIDE DEF InMsg, msgs
<1>4. msgs \in Seq(InMsg)
  BY ONLY <1>1, <1>3
<1>5. DOMAIN msgs = 1 .. Len(items) /\ DOMAIN msgs = 1 .. Len(msgs) /\ Len(msgs) \in Nat
  BY <1>3, <1>4, Elements
<1>6. Len(msgs) = Len(items)
  BY ONLY <1>1, <1>5
<1> QED  BY <1>3, <1>4, <1>6 DEF msgs

\* The peer sends the blocks it was asked for.
LEMMA OwesAnswered ==
  ASSUME NEW in \in Seq(InMsg), NEW out \in Seq(OutMsg), NEW owed, Owes(in, out, owed),
         out # <<>>, Head(out)[1] = "get", NEW items, items = Head(out)[2], NEW msgs, msgs = Sent(items)
  PROVE  in \o msgs \in Seq(InMsg) /\ Owes(in \o msgs, Tail(out), owed) /\ msgs \in Seq(InMsg)
         /\ \A i \in 1 .. Len(msgs) : msgs[i][1] = "block"
<1>1. /\ Head(out) = out[1] /\ Head(out) \in OutMsg /\ Len(out) > 0 /\ Len(out) \in Nat
      /\ Tail(out) \in Seq(OutMsg) /\ Len(Tail(out)) = Len(out) - 1
      /\ \A i \in 1 .. Len(out) - 1 : Tail(out)[i] = out[i + 1]
  BY Tails
<1>2. items \in Seq(Blocks)
  BY <1>1, OutTypes
<1>3. DOMAIN items = 1 .. Len(items) /\ Len(items) \in Nat
  BY <1>2, Elements
<1>4. 1 \in 1 .. Len(out) /\ out[1][1] = "get" /\ out[1][2] = items
  BY <1>1
<1>a. IsInjective(items)
      /\ \A k \in 1 .. Len(items) : items[k] \in owed /\ \A j \in 1 .. Len(in) : in[j][1] = "block" => in[j][2] # items[k]
  <2>1. /\ out[1][2] # <<>> /\ IsInjective(out[1][2])
        /\ \A k \in 1 .. Len(out[1][2]) :
            /\ out[1][2][k] \in owed
            /\ \A j \in 1 .. Len(in) : in[j][1] = "block" => in[j][2] # out[1][2][k]
    BY ONLY <1>4, Owes(in, out, owed) DEF Owes
  <2> QED  BY ONLY <2>1, <1>4
<1>5. \A k, l \in 1 .. Len(items) : items[k] = items[l] => k = l
  BY ONLY <1>3, <1>a DEF IsInjective
<1>7. ASSUME NEW i \in 1 .. Len(Tail(out)) PROVE Tail(out)[i][1] # "get"
  <2>1. i + 1 \in 1 .. Len(out) /\ i + 1 # 1 /\ Tail(out)[i] = out[i + 1]
    BY <1>1
  <2> QED  BY <1>4, <2>1 DEF Owes
<1>8. msgs \in Seq(InMsg) /\ Len(msgs) = Len(items) /\ \A i \in 1 .. Len(items) : msgs[i][1] = "block" /\ msgs[i][2] = items[i]
  <2>1. msgs \in Seq(InMsg) /\ Len(msgs) = Len(items) /\ \A i \in 1 .. Len(items) : msgs[i] = <<"block", items[i]>>
    BY <1>2, Messages
  <2> QED  BY <2>1
<1> DEFINE s == in \o msgs
<1>9. /\ s \in Seq(InMsg) /\ Len(s) = Len(in) + Len(items)
      /\ \A i \in 1 .. Len(in) : s[i] = in[i]
      /\ \A i \in 1 .. Len(items) : s[Len(in) + i] = msgs[i]
  <2>0. msgs \in Seq(InMsg) /\ Len(msgs) = Len(items)
    BY <1>8
  <2>1. /\ in \o msgs \in Seq(InMsg) /\ Len(in \o msgs) = Len(in) + Len(msgs)
        /\ \A i \in 1 .. Len(in) : (in \o msgs)[i] = in[i]
        /\ \A i \in 1 .. Len(msgs) : (in \o msgs)[Len(in) + i] = msgs[i]
    BY <2>0, Concats, SMTT(30)
  <2> QED  BY ONLY <2>0, <2>1
<1>n. Len(in) \in Nat
  BY Elements
<1> HIDE DEF s
<1>10. ASSUME NEW i \in 1 .. Len(s), ~(i \in 1 .. Len(in))
       PROVE  \E k \in 1 .. Len(items) : i = Len(in) + k /\ s[i][2] = items[k]
  <2>1. i - Len(in) \in 1 .. Len(items) /\ i = Len(in) + (i - Len(in))
    BY ONLY <1>3, <1>n, <1>9, <1>10
  <2>2. PICK k \in 1 .. Len(items) : i = Len(in) + k
    BY <2>1
  <2>3. s[i] = msgs[k] /\ msgs[k][2] = items[k]
    BY ONLY <2>2, <1>8, <1>9
  <2> QED  BY ONLY <2>2, <2>3
<1>b. \A i \in 1 .. Len(in) : in[i][1] = "block" => in[i][2] \in owed
  BY DEF Owes
<1>c. \A i, j \in 1 .. Len(in) : in[i][1] = "block" /\ in[j][1] = "block" /\ in[i][2] = in[j][2] => i = j
  BY DEF Owes
<1>11. ASSUME NEW i \in 1 .. Len(s), s[i][1] = "block" PROVE s[i][2] \in owed
  <2>1. CASE i \in 1 .. Len(in)
    BY ONLY <2>1, <1>9, <1>b, <1>11
  <2>2. CASE ~(i \in 1 .. Len(in))
    BY ONLY <2>2, <1>10, <1>a, i \in 1 .. Len(s)
  <2> QED  BY <2>1, <2>2
<1>12. ASSUME NEW i \in 1 .. Len(s), NEW j \in 1 .. Len(s), s[i][1] = "block", s[j][1] = "block", s[i][2] = s[j][2] PROVE i = j
  <2>1. CASE i \in 1 .. Len(in) /\ j \in 1 .. Len(in)
    BY ONLY <1>9, <1>12, <2>1, <1>c
  <2>2. CASE i \in 1 .. Len(in) /\ ~(j \in 1 .. Len(in))
    <3>1. PICK k \in 1 .. Len(items) : s[j][2] = items[k]
      BY <2>2, <1>10
    <3>2. in[i][1] = "block" /\ in[i][2] = s[j][2]
      BY ONLY <1>9, <1>12, <2>2
    <3> QED  BY ONLY <3>1, <3>2, <1>a, <2>2
  <2>3. CASE ~(i \in 1 .. Len(in)) /\ j \in 1 .. Len(in)
    <3>1. PICK k \in 1 .. Len(items) : s[i][2] = items[k]
      BY <2>3, <1>10
    <3>2. in[j][1] = "block" /\ in[j][2] = s[i][2]
      BY ONLY <1>9, <1>12, <2>3
    <3> QED  BY ONLY <3>1, <3>2, <1>a, <2>3
  <2>4. CASE ~(i \in 1 .. Len(in)) /\ ~(j \in 1 .. Len(in))
    <3>1. PICK k \in 1 .. Len(items) : i = Len(in) + k /\ s[i][2] = items[k]
      BY <2>4, <1>10
    <3>2. PICK l \in 1 .. Len(items) : j = Len(in) + l /\ s[j][2] = items[l]
      BY <2>4, <1>10
    <3> QED  BY ONLY <3>1, <3>2, <1>5, <1>12
  <2> QED  BY <2>1, <2>2, <2>3, <2>4
<1>13. Owes(s, Tail(out), owed)
  BY <1>7, <1>11, <1>12 DEF Owes
<1> QED  BY <1>8, <1>9, <1>13 DEF s

(***************************************************************************)
(* What keeps a connection in order.                                       *)
(***************************************************************************)

\* The blocks of the chain with a queue of blocks, each of which links.
KnownWith(queue) == have \cup Range(queue) \cup {0}
Links(queue) ==
  /\ queue \in Seq(Blocks)
  /\ \A i \in 1 .. Len(queue) : Parent[queue[i]] \in have \cup {0} \cup {queue[j] : j \in 1 .. i - 1}

LEMMA QueueRooted ==
  ASSUME have \subseteq Blocks, \A b \in have : Parent[b] \in have \cup {0}, NEW queue, Links(queue)
  PROVE  Rooted(KnownWith(queue)) /\ KnownWith(queue) \subseteq Heads
<1> DEFINE K == KnownWith(queue)
<1>1. have \subseteq Heads /\ Range(queue) \subseteq Blocks /\ Range(queue) = {queue[i] : i \in 1 .. Len(queue)}
      /\ Len(queue) \in Nat
  BY HeadsAre, Elements DEF Links
<1>2. K \subseteq Heads /\ 0 \in K
  BY <1>1, HeadsAre DEF KnownWith
<1>3. ASSUME NEW b \in K \ {0} PROVE Parent[b] \in K
  <2>1. CASE b \in have
    BY <2>1 DEF KnownWith
  <2>2. CASE b \in Range(queue)
    <3>1. PICK i \in 1 .. Len(queue) : b = queue[i]
      BY <2>2, <1>1
    <3>2. Parent[b] \in have \cup {0} \cup {queue[j] : j \in 1 .. i - 1}
      BY <3>1 DEF Links
    <3>3. {queue[j] : j \in 1 .. i - 1} \subseteq Range(queue)
      BY <1>1
    <3> QED  BY <3>2, <3>3 DEF KnownWith
  <2> QED  BY <2>1, <2>2 DEF KnownWith
<1> QED  BY <1>2, <1>3 DEF Rooted

LEMMA KnownRooted ==
  ASSUME ChainOk
  PROVE  Rooted(Known) /\ head \in Known /\ Lib <= Num(head) /\ Known \subseteq Heads /\ 0 \in Known
<1>1. Links(handled) /\ Known = KnownWith(handled)
  BY DEF ChainOk, Links, Known, KnownWith
<1>2. have \subseteq Blocks /\ \A b \in have : Parent[b] \in have \cup {0}
  BY DEF ChainOk
<1>3. Rooted(Known) /\ Known \subseteq Heads
  BY <1>1, <1>2, QueueRooted
<1> QED  BY <1>3 DEF ChainOk, Known

LEMMA PeerOkMore ==
  ASSUME NEW r, NEW K, NEW L, PeerOk(r, K), K \subseteq L
  PROVE  PeerOk(r, L)
BY DEF PeerOk, Route, Awaits

LEMMA FetchIdsOk ==
  ASSUME NEW r, NEW K, Sound(r), Route(r, K), Rooted(K), NEW h \in K, Lib <= Num(h)
  PROVE  PeerOk(FetchIds(r, h), K) /\ FetchIds(r, h).requested = r.requested
<1> DEFINE syn == Synopsis(r, h)
           s   == FetchIds(r, h)
<1>1. r \in PeerRec /\ Owes(r.in, r.out, r.requested \cup r.normal)
  BY DEF Sound
<1>2. syn \subseteq K \cup Range(r.toGet) /\ syn \subseteq Blocks /\ (syn = {} => r.toGet = <<>>)
  BY <1>1, SynopsisFacts DEF Route
<1>3. s = [r EXCEPT !.asked = {syn}, !.out = Append(r.out, <<"ids", syn>>)]
  BY <1>1 DEF FetchIds, PeerRec
<1> HIDE DEF syn, s
<1>4. r.in \in Seq(InMsg) /\ r.out \in Seq(OutMsg)
  BY <1>1 DEF PeerRec
<1>5. <<"ids", syn>> \in OutMsg /\ <<"ids", syn>>[1] # "get"
  BY <1>2 DEF OutMsg
<1>6. Append(r.out, <<"ids", syn>>) \in Seq(OutMsg) /\ Owes(r.in, Append(r.out, <<"ids", syn>>), r.requested \cup r.normal)
  BY <1>1, <1>4, <1>5, OwesAsked
<1>7. s \in PeerRec /\ s.in = r.in /\ s.out = Append(r.out, <<"ids", syn>>) /\ s.requested = r.requested /\ s.normal = r.normal
      /\ s.conn = r.conn /\ s.toGet = r.toGet /\ s.lastSeen = r.lastSeen /\ s.asked = {syn}
  <2>1. {syn} \in SUBSET SUBSET Blocks
    BY <1>2
  <2> DEFINE o == Append(r.out, <<"ids", syn>>)
             a == {syn}
  <2>2. s = [r EXCEPT !.asked = a, !.out = o] /\ a \in SUBSET SUBSET Blocks /\ o \in Seq(OutMsg)
    BY <1>3, <1>6, <2>1
  <2> HIDE DEF a, o
  <2>3. s \in PeerRec
    BY <1>1, <2>2 DEF PeerRec
  <2>4. s.in = r.in /\ s.out = o /\ s.requested = r.requested /\ s.normal = r.normal
        /\ s.conn = r.conn /\ s.toGet = r.toGet /\ s.lastSeen = r.lastSeen /\ s.asked = a
    BY <1>1, <2>2 DEF PeerRec
  <2> QED  BY <2>3, <2>4 DEF a, o
<1>8. Sound(s)
  BY <1>6, <1>7 DEF Sound
<1>9. Route(s, K)
  BY <1>7 DEF Route
<1>10. Awaits(s, K)
  BY <1>2, <1>7 DEF Awaits
<1> QED  BY <1>7, <1>8, <1>9, <1>10 DEF PeerOk, s

LEMMA LinkedNone == Linked(<<>>) /\ <<>> \in Seq(Blocks) /\ Range(<<>>) = {}
<1>1. Len(<<>>) = 0 /\ <<>> \in Seq(Blocks)
  BY EmptySeq
<1>2. Range(<<>>) = {}
  <2>1. \A s \in Seq(Blocks) : Range(s) = {s[i] : i \in 1 .. Len(s)}
    BY Elements
  <2>2. Range(<<>>) = {<<>>[i] : i \in 1 .. Len(<<>>)}
    BY <1>1, <2>1
  <2>3. 1 .. Len(<<>>) = {}
    BY <1>1
  <2> QED  BY <2>2, <2>3
<1>3. Linked(<<>>)
  BY <1>1 DEF Linked
<1> QED  BY <1>1, <1>2, <1>3

LEMMA StartRec ==
  ASSUME NEW r \in PeerRec, NEW list \in Seq(Blocks), NEW u \in Int, NEW t \in BOOLEAN, NEW b \in Heads
  PROVE  [r EXCEPT !.toGet = list, !.unfetched = u, !.needs = t, !.lastSeen = b] \in PeerRec
BY DEF PeerRec

LEMMA StartSyncOk ==
  ASSUME NEW r, NEW K, Sound(r), Route(r, K), Rooted(K), NEW h \in K, Lib <= Num(h)
  PROVE  PeerOk(StartSync(r, h), K) /\ StartSync(r, h).requested = r.requested
<1> DEFINE s == [r EXCEPT !.toGet = <<>>, !.unfetched = 0, !.needs = TRUE, !.lastSeen = 0]
<1>1. r \in PeerRec
  BY DEF Sound
<1>2. s \in PeerRec /\ s.in = r.in /\ s.out = r.out /\ s.requested = r.requested /\ s.normal = r.normal
      /\ s.conn = r.conn /\ s.toGet = <<>> /\ s.lastSeen = 0
  <2>1. <<>> \in Seq(Blocks) /\ 0 \in Int /\ TRUE \in BOOLEAN /\ 0 \in Heads
    BY LinkedNone, HeadsAre
  <2>2. s \in PeerRec
    BY <1>1, <2>1, StartRec
  <2>3. s.in = r.in /\ s.out = r.out /\ s.requested = r.requested /\ s.normal = r.normal
        /\ s.conn = r.conn /\ s.toGet = <<>> /\ s.lastSeen = 0
    BY <1>1 DEF PeerRec
  <2> QED  BY <2>2, <2>3
<1> HIDE DEF s
<1>3. Sound(s)
  BY <1>2 DEF Sound
<1>4. Route(s, K)
  BY <1>2, LinkedNone DEF Route, Rooted
<1>5. PeerOk(FetchIds(s, h), K) /\ FetchIds(s, h).requested = s.requested
  BY <1>3, <1>4, FetchIdsOk
<1> QED  BY <1>2, <1>5 DEF StartSync, s

\* A message that is no block, and a block.
LEMMA ReadOk ==
  ASSUME NEW r, NEW K, PeerOk(r, K), r.in # <<>>, NEW s, s = [r EXCEPT !.in = Tail(r.in)]
  PROVE  /\ Head(r.in) \in InMsg /\ Route(s, K) /\ Awaits(s, K) /\ s \in PeerRec
         /\ (Head(r.in)[1] # "block" => PeerOk(s, K))
         /\ (Head(r.in)[1] = "list" => Linked(Head(r.in)[2]))
         /\ (Head(r.in)[1] = "block" =>
               /\ Head(r.in)[2] \in r.requested \cup r.normal
               /\ Owes(s.in, s.out, (r.requested \cup r.normal) \ {Head(r.in)[2]}))
<1>1. r \in PeerRec /\ r.in \in Seq(InMsg) /\ r.out \in Seq(OutMsg)
  BY DEF PeerOk, Sound, PeerRec
<1>2. /\ Head(r.in) = r.in[1] /\ Head(r.in) \in InMsg /\ Len(r.in) > 0 /\ Len(r.in) \in Nat
      /\ Tail(r.in) \in Seq(InMsg) /\ Len(Tail(r.in)) = Len(r.in) - 1
      /\ \A i \in 1 .. Len(r.in) - 1 : Tail(r.in)[i] = r.in[i + 1]
  BY <1>1, Tails
<1>3. s \in PeerRec /\ s.in = Tail(r.in) /\ s.out = r.out /\ s.requested = r.requested /\ s.normal = r.normal
      /\ s.conn = r.conn /\ s.toGet = r.toGet /\ s.lastSeen = r.lastSeen /\ s.asked = r.asked
  BY <1>1, <1>2 DEF PeerRec
<1>4. \A i \in 1 .. Len(Tail(r.in)) : i + 1 \in 1 .. Len(r.in) /\ Tail(r.in)[i] = r.in[i + 1]
  BY <1>2
<1>5. Route(s, K) /\ Awaits(s, K)
  BY <1>3, <1>4 DEF PeerOk, Route, Awaits
<1>6. /\ Head(r.in)[1] # "block" => Owes(Tail(r.in), r.out, r.requested \cup r.normal)
      /\ Head(r.in)[1] = "block" => /\ Head(r.in)[2] \in r.requested \cup r.normal
                                   /\ Owes(Tail(r.in), r.out, (r.requested \cup r.normal) \ {Head(r.in)[2]})
  BY <1>1, OwesRead DEF PeerOk, Sound
<1>7. Head(r.in)[1] # "block" => Sound(s)
  BY <1>3, <1>6 DEF PeerOk, Sound
<1>8. 1 \in 1 .. Len(r.in)
  BY <1>2
<1>9. Head(r.in)[1] = "list" => Linked(Head(r.in)[2])
  BY <1>2, <1>8 DEF PeerOk, Route
<1> QED  BY <1>2, <1>3, <1>5, <1>6, <1>7, <1>9 DEF PeerOk

\* A block is taken off what the peer owes.
LEMMA BlockOk ==
  ASSUME NEW r, NEW K, PeerOk(r, K), r.in # <<>>, Head(r.in)[1] = "block", NEW s,
         \/ s = [[r EXCEPT !.in = Tail(r.in)] EXCEPT !.normal = r.normal \ {Head(r.in)[2]}]
         \/ s = [[r EXCEPT !.in = Tail(r.in)] EXCEPT !.requested = r.requested \ {Head(r.in)[2]}]
  PROVE  PeerOk(s, K)
<1> DEFINE u == [r EXCEPT !.in = Tail(r.in)]
           b == Head(r.in)[2]
<1>1. u \in PeerRec /\ Route(u, K) /\ Awaits(u, K) /\ Owes(u.in, u.out, (r.requested \cup r.normal) \ {b})
  BY ReadOk
<1>2. r \in PeerRec /\ (r.conn = "closed" => r.requested = {})
  BY DEF PeerOk, Sound
<1>3. u.requested = r.requested /\ u.normal = r.normal /\ u.conn = r.conn
  BY <1>2 DEF PeerRec
<1>4. \/ s = [u EXCEPT !.normal = r.normal \ {b}]
      \/ s = [u EXCEPT !.requested = r.requested \ {b}]
  OBVIOUS
<1> HIDE DEF u, b
<1>5. s \in PeerRec /\ s.in = u.in /\ s.out = u.out /\ s.conn = r.conn /\ s.toGet = u.toGet /\ s.lastSeen = u.lastSeen /\ s.asked = u.asked
      /\ s.requested \subseteq r.requested /\ (r.requested \cup r.normal) \ {b} \subseteq s.requested \cup s.normal
  <2>0. u \in PeerRec /\ r.normal \in SUBSET Blocks /\ r.requested \in SUBSET Blocks
    BY <1>1, <1>2 DEF PeerRec
  <2>1. CASE s = [u EXCEPT !.normal = r.normal \ {b}]
    <3> DEFINE n == r.normal \ {b}
    <3>1. n \in SUBSET Blocks /\ s = [u EXCEPT !.normal = n]
      BY <2>0, <2>1
    <3> HIDE DEF n
    <3>2. s \in PeerRec /\ s.in = u.in /\ s.out = u.out /\ s.conn = u.conn /\ s.toGet = u.toGet /\ s.lastSeen = u.lastSeen
          /\ s.asked = u.asked /\ s.requested = u.requested /\ s.normal = n
      BY <2>0, <3>1 DEF PeerRec
    <3> QED  BY <3>2, <1>3 DEF n
  <2>2. CASE s = [u EXCEPT !.requested = r.requested \ {b}]
    <3> DEFINE n == r.requested \ {b}
    <3>1. n \in SUBSET Blocks /\ s = [u EXCEPT !.requested = n]
      BY <2>0, <2>2
    <3> HIDE DEF n
    <3>2. s \in PeerRec /\ s.in = u.in /\ s.out = u.out /\ s.conn = u.conn /\ s.toGet = u.toGet /\ s.lastSeen = u.lastSeen
          /\ s.asked = u.asked /\ s.requested = n /\ s.normal = u.normal
      BY <2>0, <3>1 DEF PeerRec
    <3> QED  BY <3>2, <1>3 DEF n
  <2> QED  BY <1>4, <2>1, <2>2
<1>6. Owes(s.in, s.out, s.requested \cup s.normal)
  BY <1>1, <1>5, OwesMore
<1>7. Route(s, K) /\ Awaits(s, K)
  BY <1>1, <1>5 DEF Route, Awaits
<1>8. s.conn = "closed" => s.requested = {}
  BY <1>2, <1>5
<1> QED  BY <1>5, <1>6, <1>7, <1>8 DEF PeerOk, Sound

\* A new connection, and one that is gone.
LEMMA NewPeerOk ==
  ASSUME NEW h \in Heads, NEW K, 0 \in K
  PROVE  Sound(NewPeer(h)) /\ Route(NewPeer(h), K) /\ PeerOk(Closed, K) /\ Closed.requested = {} /\ NewPeer(h).requested = {}
<1> DEFINE m(b) == <<"ask", b>>
           N(b) == NewPeer(b)
<1>e. <<>> \in Seq(Blocks) /\ <<>> \in Seq(OutMsg) /\ <<>> \in Seq(InMsg) /\ 0 \in Int /\ 0 \in Heads /\ Len(<<>>) = 0
  BY EmptySeq, HeadsAre
<1>1. ASSUME NEW b \in Heads
      PROVE  /\ N(b) \in PeerRec /\ N(b).conn = "active" /\ N(b).requested = {} /\ N(b).normal = {} /\ N(b).in = <<m(b)>>
             /\ N(b).out = <<>> /\ N(b).toGet = <<>> /\ N(b).asked = {} /\ N(b).lastSeen = 0
  <2>1. m(b) \in InMsg
    BY DEF InMsg
  <2>2. <<m(b)>> \in Seq(InMsg)
    BY <2>1
  <2> DEFINE l == <<m(b)>>
  <2> HIDE DEF m, l
  <2>3. N(b) = [conn |-> "active", toGet |-> <<>>, processing |-> {}, unfetched |-> 0, needs |-> TRUE, theyNeed |-> TRUE,
                asked |-> {}, requested |-> {}, lastSeen |-> 0, normal |-> {}, offered |-> {}, in |-> l, out |-> <<>>]
    BY DEF NewPeer, l, m
  <2>4. l \in Seq(InMsg)
    BY <2>2 DEF l
  <2>5. ASSUME NEW e \in Seq(Blocks), NEW o \in Seq(OutMsg), NEW t \in BOOLEAN, NEW c \in {"active"}
        PROVE  [conn |-> c, toGet |-> e, processing |-> {}, unfetched |-> 0, needs |-> t, theyNeed |-> t,
                asked |-> {}, requested |-> {}, lastSeen |-> 0, normal |-> {}, offered |-> {}, in |-> l, out |-> o] \in PeerRec
    BY <1>e, <2>4 DEF PeerRec
  <2>6. N(b) \in PeerRec
    <3>1. TRUE \in BOOLEAN /\ "active" \in {"active"}
      OBVIOUS
    <3> QED  BY <1>e, <2>3, <2>5, <3>1
  <2>7. /\ N(b).conn = "active" /\ N(b).requested = {} /\ N(b).normal = {} /\ N(b).in = l
        /\ N(b).out = <<>> /\ N(b).toGet = <<>> /\ N(b).asked = {} /\ N(b).lastSeen = 0
    BY <2>3
  <2> QED  BY <2>6, <2>7 DEF l
<1>2. ASSUME NEW b \in Heads PROVE Len(<<m(b)>>) = 1 /\ <<m(b)>>[1] = m(b) /\ m(b)[1] = "ask"
  OBVIOUS
<1> HIDE DEF m, N
<1>3. \A b \in Heads : \A i \in 1 .. Len(<<m(b)>>) : <<m(b)>>[i][1] = "ask"
  BY <1>2
<1>4. \A b \in Heads : Owes(<<m(b)>>, <<>>, {})
  BY <1>3, <1>e DEF Owes
<1>5. \A b \in Heads : Sound(N(b))
  BY <1>1, <1>4 DEF Sound
<1>6. \A b \in Heads : Route(N(b), K)
  <2> SUFFICES ASSUME NEW b \in Heads PROVE Route(N(b), K)
    OBVIOUS
  <2>1. \A i \in 1 .. Len(<<m(b)>>) : <<m(b)>>[i][1] # "list"
    BY <1>3
  <2>2. N(b).in = <<m(b)>> /\ N(b).toGet = <<>> /\ N(b).lastSeen = 0
    BY <1>1
  <2> QED  BY <2>1, <2>2, LinkedNone DEF Route
<1>7. N(0) \in PeerRec /\ N(0).requested = {} /\ N(0).normal = {} /\ N(0).out = <<>> /\ N(0).toGet = <<>> /\ N(0).asked = {} /\ N(0).lastSeen = 0
  BY <1>1, <1>e
<1>8. Closed = [N(0) EXCEPT !.conn = "closed", !.in = <<>>]
  BY DEF Closed, N
<1>9. /\ Closed \in PeerRec /\ Closed.conn = "closed" /\ Closed.requested = {} /\ Closed.normal = {} /\ Closed.in = <<>>
      /\ Closed.out = <<>> /\ Closed.toGet = <<>> /\ Closed.asked = {} /\ Closed.lastSeen = 0
  <2>1. Closed \in PeerRec
    <3>1. ASSUME NEW r \in PeerRec, NEW c \in {"closed"}, NEW e \in Seq(InMsg) PROVE [r EXCEPT !.conn = c, !.in = e] \in PeerRec
      BY DEF PeerRec
    <3>2. "closed" \in {"closed"}
      OBVIOUS
    <3> QED  BY <3>1, <3>2, <1>7, <1>8, <1>e
  <2>2. /\ Closed.conn = "closed" /\ Closed.requested = {} /\ Closed.normal = {} /\ Closed.in = <<>>
        /\ Closed.out = <<>> /\ Closed.toGet = <<>> /\ Closed.asked = {} /\ Closed.lastSeen = 0
    BY <1>7, <1>8 DEF PeerRec
  <2> QED  BY <2>1, <2>2
<1>10. Sound(Closed)
  BY <1>9, OwesNone DEF Sound
<1>11. Route(Closed, K) /\ Awaits(Closed, K)
  BY <1>9, <1>e, LinkedNone DEF Route, Awaits
<1> QED  BY <1>1, <1>5, <1>6, <1>9, <1>10, <1>11 DEF PeerOk, N

\* A connection that we close.
LEMMA ClosingOk ==
  ASSUME NEW r, NEW K, PeerOk(r, K), NEW s,
         s = [r EXCEPT !.conn = "closing"] \/ s = [r EXCEPT !.conn = "closing", !.in = <<>>, !.out = <<>>]
  PROVE  PeerOk(s, K) /\ s.requested = r.requested
<1>1. r \in PeerRec
  BY DEF PeerOk, Sound
<1>e. <<>> \in Seq(OutMsg) /\ <<>> \in Seq(InMsg) /\ Len(<<>>) = 0
  BY EmptySeq
<1>2. /\ s \in PeerRec /\ s.conn = "closing" /\ s.requested = r.requested /\ s.normal = r.normal /\ s.toGet = r.toGet
      /\ s.asked = r.asked /\ s.lastSeen = r.lastSeen
      /\ (s.in = r.in /\ s.out = r.out) \/ (s.in = <<>> /\ s.out = <<>>)
  <2>1. CASE s = [r EXCEPT !.conn = "closing"]
    BY <1>1, <2>1 DEF PeerRec
  <2>2. CASE s = [r EXCEPT !.conn = "closing", !.in = <<>>, !.out = <<>>]
    <3>1. PICK i, o : i = <<>> /\ o = <<>>
      OBVIOUS
    <3>2. s = [r EXCEPT !.conn = "closing", !.in = i, !.out = o] /\ i \in Seq(InMsg) /\ o \in Seq(OutMsg)
      BY ONLY <2>2, <3>1, <1>e
    <3>3. s \in PeerRec /\ s.conn = "closing" /\ s.requested = r.requested /\ s.normal = r.normal /\ s.toGet = r.toGet
          /\ s.asked = r.asked /\ s.lastSeen = r.lastSeen /\ s.in = i /\ s.out = o
      BY ONLY <1>1, <3>2 DEF PeerRec
    <3> QED  BY <3>1, <3>3
  <2> QED  BY <2>1, <2>2
<1>3. Sound(s)
  BY <1>2, OwesNone DEF PeerOk, Sound
<1>4. Route(s, K) /\ Awaits(s, K)
  BY <1>2, <1>e DEF PeerOk, Route, Awaits
<1> QED  BY <1>2, <1>3, <1>4 DEF PeerOk

\* Every block taken to be on its way is owed by some connection.
Live(ps, on) == \A b \in on : \E p \in Peers : b \in ps[p].requested

LEMMA LiveIs == RequestsLive <=> Live(peer, active)
BY DEF RequestsLive, Live

LEMMA LiveIsNext == RequestsLive' <=> Live(peer', active')
BY DEF RequestsLive, Live

\* One connection changes.
LEMMA OneChanges ==
  ASSUME NEW ps, NEW K, PeersOk(ps, K), NEW L, K \subseteq L, NEW p \in Peers, NEW r, PeerOk(r, L),
         NEW on, Live(ps, on), NEW off, off \subseteq on, \A b \in ps[p].requested : b \in off => b \in r.requested
  PROVE  PeersOk([ps EXCEPT ![p] = r], L) /\ Live([ps EXCEPT ![p] = r], off)
<1> DEFINE qs == [ps EXCEPT ![p] = r]
<1>1. ps = [q \in Peers |-> ps[q]] /\ \A q \in Peers : PeerOk(ps[q], K)
  BY DEF PeersOk
<1>2. qs[p] = r /\ (\A q \in Peers : q # p => qs[q] = ps[q]) /\ qs = [q \in Peers |-> qs[q]]
  BY <1>1
<1> HIDE DEF qs
<1>3. \A q \in Peers : PeerOk(qs[q], L)
  BY <1>1, <1>2, PeerOkMore
<1>4. Live(qs, off)
  BY <1>2 DEF Live
<1>5. PeersOk(qs, L)
  BY <1>2, <1>3 DEF PeersOk
<1> QED  BY <1>4, <1>5 DEF qs

\* A step that leaves the chain alone keeps the invariant if it keeps the
\* connections and what is taken to be on its way.
LEMMA ChainStays ==
  ASSUME IInv, UNCHANGED <<have, head, recent, handled>>,
         fresh' \in Seq(Blocks), received' \in Seq(Blocks), toFetch' \in Seq(Blocks), peerHead' \in [Peers -> Heads],
         accused' \subseteq {"list"}, PeersOk(peer', Known), Live(peer', active')
  PROVE  IInv'
<1>1. ChainOk' /\ Known' = Known
  BY DEF IInv, ChainOk, Known
<1>2. PeersOk(peer', Known')
  BY <1>1
<1>3. HonestBlocksKept' /\ RequestsLive'
  BY LiveIsNext DEF HonestBlocksKept
<1> QED  BY <1>1, <1>2, <1>3 DEF IInv, PeersOk

LEMMA Facts ==
  ASSUME IInv
  PROVE  /\ ChainOk /\ Rooted(Known) /\ head \in Known /\ Lib <= Num(head) /\ Known \subseteq Heads /\ 0 \in Known
         /\ fresh \in Seq(Blocks) /\ received \in Seq(Blocks) /\ toFetch \in Seq(Blocks) /\ peerHead \in [Peers -> Heads]
         /\ PeersOk(peer, Known) /\ Live(peer, active) /\ accused \subseteq {"list"}
         /\ peer = [p \in Peers |-> peer[p]] /\ \A p \in Peers : PeerOk(peer[p], Known)
         /\ \A p \in Peers : peer[p] \in PeerRec
BY KnownRooted, LiveIs DEF IInv, HonestBlocksKept, PeersOk, PeerOk, Sound

\* One connection changes, its requests stay, and nothing else of interest does.
LEMMA OneKeeps ==
  ASSUME IInv, NEW p \in Peers, NEW r, PeerOk(r, Known), peer[p].requested \subseteq r.requested,
         peer' = [peer EXCEPT ![p] = r],
         UNCHANGED <<have, head, recent, handled, fresh, received, active>>,
         toFetch' \in Seq(Blocks), peerHead' \in [Peers -> Heads], accused' \subseteq {"list"}
  PROVE  IInv'
<1>1. PeersOk(peer, Known) /\ Live(peer, active) /\ fresh \in Seq(Blocks) /\ received \in Seq(Blocks)
  BY Facts
<1>2. PeersOk(peer', Known) /\ Live(peer', active)
  <2>1. Known \subseteq Known /\ active \subseteq active /\ \A b \in peer[p].requested : b \in active => b \in r.requested
    OBVIOUS
  <2>2. PeersOk([peer EXCEPT ![p] = r], Known) /\ Live([peer EXCEPT ![p] = r], active)
    BY ONLY <1>1, <2>1, OneChanges, p \in Peers, PeerOk(r, Known)
  <2> QED  BY <2>2
<1> QED  BY <1>1, <1>2, ChainStays

(***************************************************************************)
(* The steps of connections.                                               *)
(***************************************************************************)

LEMMA TimeoutKeeps ==
  ASSUME IInv, NEW p \in Peers, Timeout(p) \/ TerminateStalled(p)
  PROVE  IInv'
<1> DEFINE r == [peer[p] EXCEPT !.conn = "closing", !.in = <<>>, !.out = <<>>]
<1>1. peer' = [peer EXCEPT ![p] = r] /\ UNCHANGED <<have, head, recent, handled, fresh, received, active, toFetch, peerHead, accused>>
  BY Facts DEF Timeout, TerminateStalled, chainVars, syncVars, itemVars, peerVars
<1>2. PeerOk(r, Known) /\ r.requested = peer[p].requested
  BY Facts, ClosingOk
<1> HIDE DEF r
<1> QED  BY <1>1, <1>2, Facts, OneKeeps

LEMMA ConnectKeeps ==
  ASSUME IInv, NEW p \in Peers, Connect(p)
  PROVE  IInv'
<1> DEFINE n == NewPeer(peerHead[p])
           r == StartSync(n, head)
<1>1. peer' = [peer EXCEPT ![p] = r] /\ UNCHANGED <<have, head, recent, handled, fresh, received, active, toFetch, peerHead, accused>>
  BY DEF Connect, chainVars, syncVars, itemVars, peerVars
<1>2. peerHead[p] \in Heads
  BY Facts
<1>3. Sound(n) /\ Route(n, Known)
  BY <1>2, Facts, NewPeerOk
<1>4. peer[p].requested = {}
  BY Facts DEF Connect, PeerOk, Sound
<1>5. PeerOk(r, Known)
  BY <1>3, Facts, StartSyncOk
<1> HIDE DEF r
<1> QED  BY <1>1, <1>4, <1>5, Facts, OneKeeps

\* What a peer lists follows each other.
LEMMA AvailableFacts ==
  ASSUME NEW synopsis, NEW h \in Heads
  PROVE  Available(synopsis, h) \in Seq(Blocks) /\ Linked(Available(synopsis, h))
<1> DEFINE common == {Num(b) : b \in synopsis \cap Of(h)}
           first  == IF synopsis = {} THEN 1 ELSE Max(common)
           last   == Min({first + Limit - 1, Num(h)})
           list   == SubSeq(Chain[h], first, last)
<1>1. Available(synopsis, h) = IF h = 0 \/ (synopsis # {} /\ common = {}) THEN <<>> ELSE list
  BY DEF Available
<1>2. CASE h = 0 \/ (synopsis # {} /\ common = {})
  BY <1>1, <1>2, LinkedNone
<1>3. CASE ~(h = 0 \/ (synopsis # {} /\ common = {}))
  <2>1. /\ Chain[h] \in Seq(Blocks) /\ Num(h) \in Nat /\ Len(Chain[h]) = Num(h) /\ Num(h) > 0
        /\ \A i \in 1 .. Num(h) - 1 : Parent[Chain[h][i + 1]] = Chain[h][i]
    BY <1>3, ChainOf
  <2>2. \A b \in Of(h) : Num(b) \in 1 .. Num(h)
    BY ChainOf
  <2>3. first \in 1 .. Num(h)
    <3>1. CASE synopsis = {}
      BY <2>1, <3>1
    <3>2. CASE synopsis # {}
      <4>1. common \subseteq 0 .. Num(h) /\ common # {} /\ common \subseteq 1 .. Num(h)
        BY <1>3, <2>1, <2>2, <3>2
      <4> HIDE DEF common
      <4>2. Max(common) \in common
        BY ONLY <2>1, <4>1, MaxIn
      <4> QED  BY <3>2, <4>1, <4>2
    <3> QED  BY <3>1, <3>2
  <2>4. Limit \in Nat /\ Limit > 0
    BY PeerSyncAssumption
  <2> HIDE DEF first
  <2>5. last \in first .. Num(h)
    <3>1. first + Limit - 1 \in Int /\ Num(h) \in Int /\ first + Limit - 1 >= first /\ Num(h) >= first
      BY <2>1, <2>3, <2>4
    <3>2. last \in {first + Limit - 1, Num(h)} /\ last <= Num(h)
      BY ONLY <3>1, MinPair
    <3> QED  BY <2>3, <3>1, <3>2
  <2> HIDE DEF last
  <2>6. /\ list \in Seq(Blocks) /\ Len(list) = last - first + 1
        /\ \A i \in 1 .. last - first + 1 : list[i] = Chain[h][first + i - 1]
    <3>1. first \in 1 .. Len(Chain[h]) + 1 /\ last \in first - 1 .. Len(Chain[h])
      BY <2>1, <2>3, <2>5
    <3>2. Chain[h] \in Seq(Blocks)
      BY <2>1
    <3> QED  BY <3>1, <3>2, Slices
  <2> HIDE DEF list
  <2>7. ASSUME NEW i \in 1 .. Len(list) - 1 PROVE Parent[list[i + 1]] = list[i]
    <3>1. i \in 1 .. last - first + 1 /\ i + 1 \in 1 .. last - first + 1 /\ first + i - 1 \in 1 .. Num(h) - 1
          /\ first + (i + 1) - 1 = (first + i - 1) + 1
      BY <2>1, <2>3, <2>5, <2>6
    <3>2. list[i] = Chain[h][first + i - 1] /\ list[i + 1] = Chain[h][first + (i + 1) - 1]
      BY <2>6, <3>1
    <3> DEFINE j == first + i - 1
    <3>3. j \in 1 .. Num(h) - 1 /\ list[i] = Chain[h][j] /\ list[i + 1] = Chain[h][j + 1]
      BY <3>1, <3>2
    <3> HIDE DEF j
    <3> QED  BY ONLY <2>1, <3>3
  <2> QED  BY <1>1, <1>3, <2>6, <2>7 DEF Linked
<1> QED  BY <1>2, <1>3

\* Two records that agree on what matters.
LEMMA SameOk ==
  ASSUME NEW r, NEW K, PeerOk(r, K), NEW s \in PeerRec, s.in = r.in, s.out = r.out, s.requested = r.requested,
         s.normal = r.normal, s.conn = r.conn, s.toGet = r.toGet, s.lastSeen = r.lastSeen, s.asked \in {r.asked, {}}
  PROVE  PeerOk(s, K)
BY DEF PeerOk, Sound, Route, Awaits

LEMMA OnAskKeeps ==
  ASSUME IInv, NEW p \in Peers, OnAsk(p)
  PROVE  IInv'
<1>1. PeerOk(peer[p], Known) /\ peer[p] \in PeerRec /\ peer[p].in # <<>> /\ Head(peer[p].in)[1] = "ask"
  BY Facts DEF OnAsk, Receives
<1> DEFINE u == Read(p)
           t == NeedsMore(Available(Synopsis(Closed, Msg(p)), head), Synopsis(Closed, Msg(p)))
           r == [u EXCEPT !.theyNeed = t]
           w == IF ~r.needs /\ Msg(p) # 0 /\ Msg(p) \notin have THEN StartSync(r, head) ELSE r
<1>2. peer' = [peer EXCEPT ![p] = w] /\ UNCHANGED <<have, head, recent, handled, fresh, received, active, toFetch, peerHead, accused>>
  BY DEF OnAsk, chainVars, syncVars, itemVars, peerVars
<1>3. PeerOk(u, Known) /\ u.requested = peer[p].requested /\ u \in PeerRec
  <2>1. u = [peer[p] EXCEPT !.in = Tail(peer[p].in)]
    BY DEF Read
  <2>2. PeerOk(u, Known)
    BY <1>1, <2>1, ReadOk
  <2>3. u.requested = peer[p].requested
    BY <1>1, <2>1 DEF PeerRec
  <2> QED  BY <2>2, <2>3 DEF PeerOk, Sound
<1>4. t \in BOOLEAN
  BY DEF NeedsMore
<1> HIDE DEF u, t
<1>5. r \in PeerRec /\ r.in = u.in /\ r.out = u.out /\ r.requested = u.requested /\ r.normal = u.normal /\ r.conn = u.conn
      /\ r.toGet = u.toGet /\ r.lastSeen = u.lastSeen /\ r.asked = u.asked
  BY <1>3, <1>4 DEF PeerRec
<1> HIDE DEF r
<1>6. PeerOk(r, Known)
  BY <1>3, <1>5, SameOk
<1>7. PeerOk(StartSync(r, head), Known) /\ StartSync(r, head).requested = r.requested
  BY <1>6, Facts, StartSyncOk DEF PeerOk
<1>8. PeerOk(w, Known) /\ w.requested = peer[p].requested
  BY <1>3, <1>5, <1>6, <1>7
<1> HIDE DEF w
<1> QED  BY <1>2, <1>8, Facts, OneKeeps

LEMMA ReplyIs ==
  ASSUME NEW p \in Peers, peer[p] \in PeerRec, NEW msgs
  PROVE  Reply(p, msgs) = [peer EXCEPT ![p] = [peer[p] EXCEPT !.out = Tail(peer[p].out), !.in = peer[p].in \o msgs]]
<1> DEFINE r == peer[p]
<1>1. [r EXCEPT !.out = Tail(@), !.in = @ \o msgs] = [r EXCEPT !.out = Tail(r.out), !.in = r.in \o msgs]
  BY DEF PeerRec
<1> QED  BY <1>1 DEF Reply

LEMMA AnswerIdsKeeps ==
  ASSUME IInv, NEW p \in Peers, AnswerIds(p)
  PROVE  IInv'
<1> DEFINE synopsis == Head(peer[p].out)[2]
           list == Available(synopsis, peerHead[p])
           rest == IF list = <<>> THEN 0 ELSE Num(peerHead[p]) - Num(Last(list))
           m == <<"list", list, rest>>
           r == [peer[p] EXCEPT !.out = Tail(peer[p].out), !.in = peer[p].in \o <<m>>]
<1>1. PeerOk(peer[p], Known) /\ peer[p] \in PeerRec /\ peer[p].out # <<>> /\ peerHead[p] \in Heads
  BY Facts DEF AnswerIds, Gets
<1>2. peer' = [peer EXCEPT ![p] = r] /\ UNCHANGED <<have, head, recent, handled, fresh, received, active, toFetch, peerHead, accused>>
  <2>1. peer' = Reply(p, <<m>>) /\ UNCHANGED <<have, head, recent, handled, fresh, received, active, toFetch, peerHead, accused>>
    BY DEF AnswerIds, chainVars, syncVars, itemVars, peerVars
  <2> HIDE DEF m
  <2> QED  BY <2>1, <1>1, ReplyIs
<1>3. list \in Seq(Blocks) /\ Linked(list)
  BY <1>1, AvailableFacts
<1> HIDE DEF list
<1>4. rest \in Int
  <2>1. list # <<>> => Last(list) \in Blocks
    BY <1>3, Elements DEF Last
  <2>2. \A b \in Heads : Num(b) \in Nat
    BY ChainOf
  <2>3. Num(peerHead[p]) \in Nat /\ (list # <<>> => Num(Last(list)) \in Nat)
    BY <1>1, <2>1, <2>2, HeadsAre
  <2> QED  BY <2>3
<1> HIDE DEF rest
<1>5. m \in InMsg /\ m[1] = "list" /\ m[2] = list
  BY <1>3, <1>4 DEF InMsg
<1> HIDE DEF m
<1>6. peer[p].in \in Seq(InMsg) /\ peer[p].out \in Seq(OutMsg) /\ Owes(peer[p].in, peer[p].out, peer[p].requested \cup peer[p].normal)
  BY <1>1 DEF PeerOk, Sound, PeerRec
<1> DEFINE o == Tail(peer[p].out)
           i == Append(peer[p].in, m)
<1>7. o \in Seq(OutMsg) /\ Owes(peer[p].in, o, peer[p].requested \cup peer[p].normal)
  BY <1>1, <1>6, OwesTaken
<1> HIDE DEF o
<1>8. i \in Seq(InMsg) /\ Owes(i, o, peer[p].requested \cup peer[p].normal)
  BY <1>5, <1>6, <1>7, OwesSent
<1>9. peer[p].in \o <<m>> = i
  BY <1>5, <1>6
<1>10. \A k \in 1 .. Len(i) : i[k] = m \/ (k \in 1 .. Len(peer[p].in) /\ i[k] = peer[p].in[k])
  <2>1. Len(i) = Len(peer[p].in) + 1 /\ i[Len(peer[p].in) + 1] = m /\ \A k \in 1 .. Len(peer[p].in) : i[k] = peer[p].in[k]
    BY <1>5, <1>6, Appends
  <2>2. Len(peer[p].in) \in Nat
    BY <1>6, Elements
  <2> QED  BY <2>1, <2>2
<1> HIDE DEF i
<1>11. r = [peer[p] EXCEPT !.out = o, !.in = i]
  BY <1>9 DEF o
<1> HIDE DEF r
<1>12. r \in PeerRec /\ r.in = i /\ r.out = o /\ r.requested = peer[p].requested /\ r.normal = peer[p].normal
       /\ r.conn = peer[p].conn /\ r.toGet = peer[p].toGet /\ r.lastSeen = peer[p].lastSeen /\ r.asked = peer[p].asked
  BY <1>1, <1>7, <1>8, <1>11 DEF PeerRec
<1>13. \A k \in 1 .. Len(r.in) : r.in[k][1] = "list" => Linked(r.in[k][2])
  BY <1>1, <1>3, <1>5, <1>10, <1>12 DEF PeerOk, Route
<1>14. PeerOk(r, Known)
  BY <1>1, <1>8, <1>12, <1>13 DEF PeerOk, Sound, Route, Awaits
<1> QED  BY <1>2, <1>12, <1>14, Facts, OneKeeps

LEMMA AnswerItemsKeeps ==
  ASSUME IInv, NEW p \in Peers, AnswerItems(p)
  PROVE  IInv'
<1> DEFINE items == Head(peer[p].out)[2]
           msgs == Sent(items)
           r == [peer[p] EXCEPT !.out = Tail(peer[p].out), !.in = peer[p].in \o msgs]
<1>1. PeerOk(peer[p], Known) /\ peer[p] \in PeerRec /\ peer[p].out # <<>> /\ Head(peer[p].out)[1] = "get"
  BY Facts DEF AnswerItems, Gets
<1>2. peer' = [peer EXCEPT ![p] = r] /\ UNCHANGED <<have, head, recent, handled, fresh, received, active, toFetch, peerHead, accused>>
  <2>1. peer' = Reply(p, msgs) /\ UNCHANGED <<have, head, recent, handled, fresh, received, active, toFetch, peerHead, accused>>
    BY DEF AnswerItems, Sent, chainVars, syncVars, itemVars, peerVars
  <2> HIDE DEF msgs
  <2> QED  BY <2>1, <1>1, ReplyIs
<1>6. peer[p].in \in Seq(InMsg) /\ peer[p].out \in Seq(OutMsg) /\ Owes(peer[p].in, peer[p].out, peer[p].requested \cup peer[p].normal)
  BY <1>1 DEF PeerOk, Sound, PeerRec
<1> DEFINE o == Tail(peer[p].out)
           i == peer[p].in \o msgs
<1>7. o \in Seq(OutMsg)
  BY <1>1, <1>6, OwesTaken
<1>8. i \in Seq(InMsg) /\ Owes(i, o, peer[p].requested \cup peer[p].normal) /\ msgs \in Seq(InMsg)
      /\ \A k \in 1 .. Len(msgs) : msgs[k][1] = "block"
  <2>1. items = Head(peer[p].out)[2] /\ msgs = Sent(items)
    OBVIOUS
  <2>2. PICK x, y, z : x = peer[p].in /\ y = peer[p].out /\ z = peer[p].requested \cup peer[p].normal
    OBVIOUS
  <2>3. x \in Seq(InMsg) /\ y \in Seq(OutMsg) /\ Owes(x, y, z) /\ y # <<>> /\ Head(y)[1] = "get" /\ items = Head(y)[2]
    BY <1>1, <1>6, <2>2
  <2> HIDE DEF items, msgs
  <2>4. x \o msgs \in Seq(InMsg) /\ Owes(x \o msgs, Tail(y), z) /\ msgs \in Seq(InMsg)
         /\ \A k \in 1 .. Len(msgs) : msgs[k][1] = "block"
    BY ONLY <2>1, <2>3, OwesAnswered
  <2> QED  BY <2>2, <2>4
<1> HIDE DEF msgs
<1>10. \A k \in 1 .. Len(i) : i[k][1] = "block" \/ (k \in 1 .. Len(peer[p].in) /\ i[k] = peer[p].in[k])
  <2> DEFINE s == peer[p].in
  <2>0. s \in Seq(InMsg) /\ msgs \in Seq(InMsg)
    BY <1>6, <1>8
  <2> HIDE DEF s
  <2>1. /\ Len(s \o msgs) = Len(s) + Len(msgs) /\ (\A k \in 1 .. Len(s) : (s \o msgs)[k] = s[k])
        /\ \A k \in 1 .. Len(msgs) : (s \o msgs)[Len(s) + k] = msgs[k]
    BY <2>0, Concats, SMTT(30)
  <2>2. Len(s) \in Nat /\ Len(msgs) \in Nat
    BY <2>0, Elements
  <2>3. ASSUME NEW k \in 1 .. Len(s \o msgs), ~(k \in 1 .. Len(s)) PROVE (s \o msgs)[k][1] = "block"
    <3>1. k - Len(s) \in 1 .. Len(msgs) /\ k = Len(s) + (k - Len(s))
      BY <2>1, <2>2, <2>3
    <3>2. PICK l \in 1 .. Len(msgs) : k = Len(s) + l
      BY <3>1
    <3> QED  BY <1>8, <2>1, <3>2
  <2> QED  BY <2>1, <2>3 DEF s
<1> HIDE DEF o, i
<1>11. r = [peer[p] EXCEPT !.out = o, !.in = i]
  BY DEF o, i
<1> HIDE DEF r
<1>12. r \in PeerRec /\ r.in = i /\ r.out = o /\ r.requested = peer[p].requested /\ r.normal = peer[p].normal
       /\ r.conn = peer[p].conn /\ r.toGet = peer[p].toGet /\ r.lastSeen = peer[p].lastSeen /\ r.asked = peer[p].asked
  BY <1>1, <1>7, <1>8, <1>11 DEF PeerRec
<1>13. \A k \in 1 .. Len(r.in) : r.in[k][1] = "list" => Linked(r.in[k][2])
  BY <1>1, <1>10, <1>12 DEF PeerOk, Route
<1>14. PeerOk(r, Known)
  BY <1>1, <1>8, <1>12, <1>13 DEF PeerOk, Sound, Route, Awaits
<1> QED  BY <1>2, <1>12, <1>14, Facts, OneKeeps

\* A peer sends a message that is neither a list nor a block.
LEMMA SentOk ==
  ASSUME NEW r, NEW K, PeerOk(r, K), NEW m \in InMsg, m[1] \in {"ask", "inv"}
  PROVE  PeerOk([r EXCEPT !.in = Append(r.in, m)], K) /\ [r EXCEPT !.in = Append(r.in, m)].requested = r.requested
<1> DEFINE i == Append(r.in, m)
           s == [r EXCEPT !.in = i]
<1>1. r \in PeerRec /\ r.in \in Seq(InMsg) /\ Owes(r.in, r.out, r.requested \cup r.normal)
  BY DEF PeerOk, Sound, PeerRec
<1>2. i \in Seq(InMsg) /\ Owes(i, r.out, r.requested \cup r.normal)
  BY <1>1, OwesSent
<1>3. \A k \in 1 .. Len(i) : i[k] = m \/ (k \in 1 .. Len(r.in) /\ i[k] = r.in[k])
  <2>1. Len(i) = Len(r.in) + 1 /\ i[Len(r.in) + 1] = m /\ \A k \in 1 .. Len(r.in) : i[k] = r.in[k]
    BY <1>1, Appends
  <2>2. Len(r.in) \in Nat
    BY <1>1, Elements
  <2> QED  BY <2>1, <2>2
<1> HIDE DEF i
<1>4. s \in PeerRec /\ s.in = i /\ s.out = r.out /\ s.requested = r.requested /\ s.normal = r.normal
       /\ s.conn = r.conn /\ s.toGet = r.toGet /\ s.lastSeen = r.lastSeen /\ s.asked = r.asked
  BY <1>1, <1>2 DEF PeerRec
<1> HIDE DEF s
<1>5. \A k \in 1 .. Len(s.in) : s.in[k][1] = "list" => Linked(s.in[k][2])
  BY <1>3, <1>4 DEF PeerOk, Route
<1>6. PeerOk(s, K)
  BY <1>1, <1>2, <1>4, <1>5 DEF PeerOk, Sound, Route, Awaits
<1> QED  BY <1>4, <1>6 DEF s, i

LEMMA PeerExtendsKeeps ==
  ASSUME IInv, NEW p \in Peers, NEW b \in Blocks, PeerExtends(p, b)
  PROVE  IInv'
<1>1. UNCHANGED <<have, head, recent, handled, fresh, received, active, toFetch, accused>> /\ peerHead' = [peerHead EXCEPT ![p] = b]
  BY DEF PeerExtends, chainVars, syncVars, itemVars
<1>2. peerHead' \in [Peers -> Heads]
  BY <1>1, Facts, HeadsAre
<1>3. CASE UNCHANGED peer
  BY <1>1, <1>2, <1>3, Facts, ChainStays
<1>4. CASE ~UNCHANGED peer
  <2>1. PICK m \in {"ask", "inv"} : peer' = [peer EXCEPT ![p].in = Append(@, <<m, b>>)]
    BY <1>4 DEF PeerExtends
  <2>2. PICK e : e = <<m, b>> /\ e \in InMsg /\ e[1] \in {"ask", "inv"}
    <3>1. b \in Heads
      BY HeadsAre
    <3>2. <<m, b>> \in InMsg
      BY <3>1 DEF InMsg
    <3>3. <<m, b>>[1] \in {"ask", "inv"}
      OBVIOUS
    <3> QED  BY <3>2, <3>3
  <2>3. peer' = [peer EXCEPT ![p] = [peer[p] EXCEPT !.in = Append(peer[p].in, e)]]
    BY <2>1, <2>2
  <2> DEFINE r == [peer[p] EXCEPT !.in = Append(peer[p].in, e)]
  <2>4. PeerOk(r, Known) /\ r.requested = peer[p].requested
    BY <2>2, Facts, SentOk
  <2> HIDE DEF r
  <2>5. peer' = [peer EXCEPT ![p] = r]
    BY <2>3 DEF r
  <2> QED  BY <1>1, <1>2, <2>4, <2>5, Facts, OneKeeps
<1> QED  BY <1>3, <1>4

LEMMA OnInvKeeps ==
  ASSUME IInv, NEW p \in Peers, OnInv(p)
  PROVE  IInv'
<1>1. PeerOk(peer[p], Known) /\ peer[p] \in PeerRec /\ peer[p].in # <<>> /\ Head(peer[p].in)[1] = "inv"
  BY Facts DEF OnInv, Receives
<1> DEFINE u == Read(p)
           b == Msg(p)
           r == [u EXCEPT !.offered = u.offered \cup {b}]
<1>2. UNCHANGED <<have, head, recent, handled, fresh, received, active, peerHead, accused>>
  BY DEF OnInv, chainVars, syncVars, itemVars, peerVars
<1>3. /\ peer' = [peer EXCEPT ![p] = u] \/ peer' = [peer EXCEPT ![p] = r]
      /\ toFetch' = toFetch \/ toFetch' = Append(toFetch, b)
  BY DEF OnInv
<1>4. PeerOk(u, Known) /\ u.requested = peer[p].requested /\ u \in PeerRec /\ Head(peer[p].in) \in InMsg
  <2>1. u = [peer[p] EXCEPT !.in = Tail(peer[p].in)]
    BY DEF Read
  <2>2. PeerOk(u, Known) /\ Head(peer[p].in) \in InMsg
    BY <1>1, <2>1, ReadOk
  <2>3. u.requested = peer[p].requested
    BY <1>1, <2>1 DEF PeerRec
  <2> QED  BY <2>2, <2>3 DEF PeerOk, Sound
<1>5. b \in Blocks
  BY <1>1, <1>4, InTypes DEF Msg
<1> HIDE DEF u, b
<1>6. r \in PeerRec /\ r.in = u.in /\ r.out = u.out /\ r.requested = u.requested /\ r.normal = u.normal /\ r.conn = u.conn
      /\ r.toGet = u.toGet /\ r.lastSeen = u.lastSeen /\ r.asked = u.asked
  <2> DEFINE o == u.offered \cup {b}
  <2>1. o \in SUBSET Blocks
    BY <1>4, <1>5 DEF PeerRec
  <2> HIDE DEF o
  <2>2. \A s : s = [u EXCEPT !.offered = o] =>
          s \in PeerRec /\ s.in = u.in /\ s.out = u.out /\ s.requested = u.requested /\ s.normal = u.normal /\ s.conn = u.conn
          /\ s.toGet = u.toGet /\ s.lastSeen = u.lastSeen /\ s.asked = u.asked
    BY <1>4, <2>1 DEF PeerRec
  <2> QED  BY <2>2 DEF o
<1> HIDE DEF r
<1>7. PeerOk(r, Known)
  BY <1>4, <1>6, SameOk
<1>8. toFetch' \in Seq(Blocks)
  BY <1>3, <1>5, Facts, Appends
<1>9. CASE peer' = [peer EXCEPT ![p] = u]
  BY <1>2, <1>4, <1>8, <1>9, Facts, OneKeeps
<1>10. CASE peer' = [peer EXCEPT ![p] = r]
  BY <1>2, <1>4, <1>6, <1>7, <1>8, <1>10, Facts, OneKeeps
<1> QED  BY <1>3, <1>9, <1>10

\* The elements of a set in some order.
LEMMA InSomeOrder ==
  ASSUME NEW S \in SUBSET Blocks
  PROVE  SetToSeq(S) \in Seq(Blocks)
<1>1. IsFiniteSet(S)
  <2>1. IsFiniteSet(1 .. Len(Parent)) /\ Blocks = 1 .. Len(Parent)
    BY BlocksAre, FS_Interval
  <2> QED  BY <2>1, FS_Subset
<1>2. Cardinality(S) \in Nat /\ ExistsBijection(1 .. Cardinality(S), S)
  BY <1>1, FS_CardinalityType
<1>3. \E f \in [1 .. Cardinality(S) -> S] : IsInjective(f)
  BY <1>2 DEF ExistsBijection, Bijection, Injection
<1>4. SetToSeq(S) \in [1 .. Cardinality(S) -> S]
  BY <1>3 DEF SetToSeq
<1> DEFINE n == Cardinality(S)
           s == SetToSeq(S)
<1>5. n \in Nat /\ s \in [1 .. n -> Blocks]
  BY <1>2, <1>4
<1> HIDE DEF n, s
<1>6. s \in Seq(Blocks)
  BY ONLY <1>5
<1> QED  BY <1>6 DEF s

LEMMA OnConnectionClosedKeeps ==
  ASSUME IInv, NEW p \in Peers, OnConnectionClosed(p)
  PROVE  IInv'
<1>1. /\ UNCHANGED <<have, head, recent, handled, fresh, received, peerHead, accused>>
      /\ active' = active \ peer[p].requested /\ peer' = [peer EXCEPT ![p] = Closed]
      /\ toFetch' = toFetch \o SetToSeq(Again(p))
  BY DEF OnConnectionClosed, chainVars, peerVars
<1>2. Again(p) \in SUBSET Blocks
  BY Facts DEF Again, PeerRec
<1>3. toFetch' \in Seq(Blocks)
  <2>1. SetToSeq(Again(p)) \in Seq(Blocks) /\ toFetch \in Seq(Blocks)
    BY <1>2, InSomeOrder, Facts
  <2> QED  BY <1>1, <2>1, Concats
<1>4. PeerOk(Closed, Known)
  BY Facts, NewPeerOk
<1>5. PeersOk([peer EXCEPT ![p] = Closed], Known) /\ Live([peer EXCEPT ![p] = Closed], active')
  <2>1. Known \subseteq Known /\ active' \subseteq active /\ \A b \in peer[p].requested : b \in active' => b \in Closed.requested
    BY <1>1
  <2>2. PeersOk(peer, Known) /\ Live(peer, active)
    BY Facts
  <2> QED  BY ONLY <1>4, <2>1, <2>2, OneChanges, p \in Peers
<1> QED  BY <1>1, <1>3, <1>5, Facts, ChainStays

LEMMA OnSyncBlockKeeps ==
  ASSUME IInv, NEW p \in Peers, OnSyncBlock(p)
  PROVE  IInv'
<1>1. PeerOk(peer[p], Known) /\ peer[p] \in PeerRec /\ peer[p].in # <<>> /\ Head(peer[p].in)[1] = "block"
      /\ Msg(p) \notin peer[p].normal /\ Msg(p) = Head(peer[p].in)[2]
  BY Facts DEF OnSyncBlock, Receives, Msg
<1> DEFINE b == Msg(p)
           r == [Read(p) EXCEPT !.requested = @ \ {Msg(p)}]
           more == r.unfetched > 0 /\ Len(r.toGet) < MinPrefetch
           w == IF Idle(r) /\ more THEN FetchIds(r, head) ELSE r
<1>2. Head(peer[p].in) \in InMsg /\ b \in peer[p].requested \cup peer[p].normal
  BY <1>1, ReadOk
<1>3. b \in Blocks /\ b \in peer[p].requested
  BY <1>1, <1>2, InTypes
<1>4. /\ peer' = [peer EXCEPT ![p] = w] /\ active' = active \ {b} /\ fresh' = Append(fresh, b)
      /\ UNCHANGED <<have, head, recent, handled, received, toFetch, peerHead, accused>>
  BY <1>3 DEF OnSyncBlock, chainVars, itemVars, peerVars
<1>5. r = [[peer[p] EXCEPT !.in = Tail(peer[p].in)] EXCEPT !.requested = peer[p].requested \ {b}]
  BY <1>1 DEF Read, PeerRec
<1>6. PeerOk(r, Known)
  BY <1>1, <1>5, BlockOk
<1>7. r.requested = peer[p].requested \ {b}
  BY <1>1, <1>5 DEF PeerRec
<1> HIDE DEF r, b
<1>8. PeerOk(FetchIds(r, head), Known) /\ FetchIds(r, head).requested = r.requested
  BY <1>6, Facts, FetchIdsOk DEF PeerOk
<1>9. PeerOk(w, Known) /\ w.requested = peer[p].requested \ {b}
  BY <1>6, <1>7, <1>8
<1> HIDE DEF w
<1>10. PeersOk([peer EXCEPT ![p] = w], Known) /\ Live([peer EXCEPT ![p] = w], active')
  <2>1. Known \subseteq Known /\ active' \subseteq active /\ \A c \in peer[p].requested : c \in active' => c \in w.requested
    BY <1>4, <1>9
  <2>2. PeersOk(peer, Known) /\ Live(peer, active)
    BY Facts
  <2> QED  BY ONLY <1>9, <2>1, <2>2, OneChanges, p \in Peers
<1>11. fresh' \in Seq(Blocks)
  BY <1>3, <1>4, Facts, Appends DEF b
<1> QED  BY <1>4, <1>10, <1>11, Facts, ChainStays

(***************************************************************************)
(* The steps that give a block to the chain.                               *)
(***************************************************************************)

LEMMA AllChange ==
  ASSUME NEW ps, NEW on, Live(ps, on), NEW qs, qs = [q \in Peers |-> qs[q]], NEW L,
         \A q \in Peers : PeerOk(qs[q], L) /\ ps[q].requested \subseteq qs[q].requested
  PROVE  PeersOk(qs, L) /\ Live(qs, on)
BY DEF PeersOk, Live

\* The chain takes a block that links.
LEMMA ChainAccepts ==
  ASSUME ChainOk, NEW b \in Blocks, Accepts(b), have' = have \cup {b}, head' = NewHead(b), recent' = recent \cup {b},
         \/ handled' = handled
         \/ handled # <<>> /\ b = Head(handled) /\ handled' = Tail(handled)
  PROVE  ChainOk' /\ Known \subseteq Known' /\ b \in Known' /\ NewHead(b) \in Known' /\ Lib <= Num(NewHead(b))
<1>1. have' \subseteq Blocks /\ \A c \in have' : Parent[c] \in have' \cup {0}
  BY DEF ChainOk, Accepts
<1>2. NewHead(b) \in have' \cup {0} /\ recent' \subseteq have' \cup {0}
  BY DEF ChainOk, NewHead
<1>3. Lib <= Num(NewHead(b))
  <2>1. Num(b) \in Nat /\ Num(head) \in Nat /\ Lib \in Nat /\ Lib <= Num(head)
    BY HeadsAre, ChainOf, KnownRooted, PeerSyncAssumption
  <2> QED  BY <2>1 DEF NewHead
<1>4. handled \in Seq(Blocks) /\ Len(handled) \in Nat
  BY Elements DEF ChainOk
<1>5. CASE handled' = handled
  <2>1. ChainOk'
    BY <1>1, <1>2, <1>3, <1>5 DEF ChainOk
  <2> QED  BY <2>1, <1>2, <1>3, <1>5 DEF Known
<1>6. CASE handled # <<>> /\ b = Head(handled) /\ handled' = Tail(handled)
  <2>1. /\ Head(handled) = handled[1] /\ Len(handled) > 0 /\ handled' \in Seq(Blocks) /\ Len(handled') = Len(handled) - 1
        /\ \A i \in 1 .. Len(handled) - 1 : handled'[i] = handled[i + 1]
    BY <1>4, <1>6, Tails
  <2>2. ASSUME NEW i \in 1 .. Len(handled')
        PROVE  Parent[handled'[i]] \in have' \cup {0} \cup {handled'[j] : j \in 1 .. i - 1}
    <3>1. i + 1 \in 1 .. Len(handled) /\ handled'[i] = handled[i + 1]
      BY <1>4, <2>1
    <3>2. Parent[handled[i + 1]] \in have \cup {0} \cup {handled[j] : j \in 1 .. (i + 1) - 1}
      BY <3>1 DEF ChainOk
    <3>3. ASSUME NEW j \in 1 .. (i + 1) - 1 PROVE handled[j] \in have' \cup {handled'[k] : k \in 1 .. i - 1}
      <4>1. CASE j = 1
        BY <1>6, <2>1, <4>1
      <4>2. CASE j # 1
        <5>1. j - 1 \in 1 .. i - 1 /\ j - 1 \in 1 .. Len(handled) - 1 /\ (j - 1) + 1 = j
          BY <1>4, <2>1, <4>2
        <5>2. handled'[j - 1] = handled[j]
          BY <2>1, <5>1
        <5> QED  BY <5>1, <5>2
      <4> QED  BY <4>1, <4>2
    <3> QED  BY <3>1, <3>2, <3>3
  <2>3. ChainOk'
    BY <1>1, <1>2, <1>3, <2>1, <2>2 DEF ChainOk
  <2>4. Range(handled) \subseteq Known'
    <3>1. Range(handled) = {handled[i] : i \in 1 .. Len(handled)}
      BY <1>4, Elements
    <3>2. Range(handled') = {handled'[i] : i \in 1 .. Len(handled')}
      BY <2>1, Elements
    <3>3. ASSUME NEW i \in 1 .. Len(handled) PROVE handled[i] \in Known'
      <4>1. CASE i = 1
        BY <1>6, <2>1, <4>1 DEF Known
      <4>2. CASE i # 1
        <5>1. i - 1 \in 1 .. Len(handled') /\ (i - 1) + 1 = i
          BY <1>4, <2>1, <4>2
        <5>2. handled'[i - 1] = handled[i]
          BY <2>1, <5>1
        <5>3. handled[i] \in Range(handled')
          BY <3>2, <5>1, <5>2
        <5> QED  BY <5>3 DEF Known
      <4> QED  BY <4>1, <4>2
    <3> QED  BY <3>1, <3>3
  <2> QED  BY <2>3, <2>4, <1>2, <1>3 DEF Known
<1> QED  BY <1>5, <1>6

\* A step that gives a block to the chain.
LEMMA ChainGoesOn ==
  ASSUME IInv, ChainOk', PeersOk(peer', Known'), Live(peer', active'), UNCHANGED <<fresh, received, toFetch, peerHead, accused>>
  PROVE  IInv'
<1>1. HonestBlocksKept' /\ RequestsLive'
  BY LiveIsNext DEF HonestBlocksKept, IInv
<1> QED  BY <1>1 DEF IInv, PeersOk

LEMMA LastSeenOk ==
  ASSUME NEW r, NEW K, PeerOk(r, K), NEW b \in K, b \in Heads
  PROVE  PeerOk([r EXCEPT !.lastSeen = b], K) /\ [r EXCEPT !.lastSeen = b].requested = r.requested
<1> DEFINE s == [r EXCEPT !.lastSeen = b]
<1>1. r \in PeerRec
  BY DEF PeerOk, Sound
<1>2. s \in PeerRec /\ s.in = r.in /\ s.out = r.out /\ s.requested = r.requested /\ s.normal = r.normal
       /\ s.conn = r.conn /\ s.toGet = r.toGet /\ s.lastSeen = b /\ s.asked = r.asked
  BY <1>1 DEF PeerRec
<1> HIDE DEF s
<1>3. PeerOk(s, K)
  BY <1>2 DEF PeerOk, Sound, Route, Awaits
<1> QED  BY <1>2, <1>3 DEF s

LEMMA OnNormalBlockKeeps ==
  ASSUME IInv, NEW p \in Peers, OnNormalBlock(p)
  PROVE  IInv'
<1>1. PeerOk(peer[p], Known) /\ peer[p] \in PeerRec /\ peer[p].in # <<>> /\ Head(peer[p].in)[1] = "block"
      /\ Msg(p) \in peer[p].normal /\ Msg(p) = Head(peer[p].in)[2]
  BY Facts DEF OnNormalBlock, Receives, Msg
<1> DEFINE b == Msg(p)
           r == [Read(p) EXCEPT !.normal = @ \ {b}]
           ps == [peer EXCEPT ![p] = r]
<1>2. b \in Blocks /\ b \in Heads
  BY <1>1, HeadsAre DEF PeerRec
<1>3. r = [[peer[p] EXCEPT !.in = Tail(peer[p].in)] EXCEPT !.normal = peer[p].normal \ {b}]
  BY <1>1 DEF Read, PeerRec
<1>4. PeerOk(r, Known)
  BY <1>1, <1>3, BlockOk
<1>5. r.requested = peer[p].requested
  BY <1>1, <1>3 DEF PeerRec
<1>6. UNCHANGED <<handled, active, fresh, received, toFetch, peerHead, accused>>
  BY DEF OnNormalBlock, syncVars, peerVars
<1>7. \/ /\ b \in recent \/ Accepts(b)
         /\ recent' = recent \cup {b}
         /\ IF b \in recent THEN UNCHANGED <<have, head>>
            ELSE have' = have \cup {b} /\ head' = NewHead(b)
         /\ peer' = [q \in Peers |-> IF q \in Active(ps) /\ b \in ps[q].offered
                                     THEN [ps[q] EXCEPT !.lastSeen = b] ELSE ps[q]]
      \/ /\ b \notin recent /\ ~Accepts(b)
         /\ peer' = [ps EXCEPT ![p] = StartSync(r, head)]
         /\ UNCHANGED <<have, head, recent>>
  BY DEF OnNormalBlock
<1> HIDE DEF r, b
<1>8. PeersOk(ps, Known) /\ Live(ps, active)
  <2>1. Known \subseteq Known /\ active \subseteq active /\ \A c \in peer[p].requested : c \in active => c \in r.requested
    BY <1>5
  <2>2. PeersOk(peer, Known) /\ Live(peer, active)
    BY Facts
  <2> QED  BY ONLY <1>4, <2>1, <2>2, OneChanges, p \in Peers
<1>9. CASE /\ b \notin recent /\ ~Accepts(b)
           /\ peer' = [ps EXCEPT ![p] = StartSync(r, head)]
           /\ UNCHANGED <<have, head, recent>>
  <2>1. PeerOk(StartSync(r, head), Known) /\ StartSync(r, head).requested = r.requested
    BY <1>4, Facts, StartSyncOk DEF PeerOk
  <2>2. [ps EXCEPT ![p] = StartSync(r, head)] = [peer EXCEPT ![p] = StartSync(r, head)]
    BY Facts
  <2> HIDE DEF ps
  <2> QED  BY <1>5, <1>6, <1>9, <2>1, <2>2, Facts, OneKeeps
<1>10. CASE /\ b \in recent \/ Accepts(b)
            /\ recent' = recent \cup {b}
            /\ IF b \in recent THEN UNCHANGED <<have, head>>
               ELSE have' = have \cup {b} /\ head' = NewHead(b)
            /\ peer' = [q \in Peers |-> IF q \in Active(ps) /\ b \in ps[q].offered
                                        THEN [ps[q] EXCEPT !.lastSeen = b] ELSE ps[q]]
  <2>1. ChainOk' /\ Known \subseteq Known' /\ b \in Known'
    <3>0. ChainOk
      BY Facts
    <3>1. CASE b \in recent
      <4>1. UNCHANGED <<have, head, recent, handled>> /\ b \in have
        BY <1>2, <1>6, <1>10, <3>0, <3>1, HeadsAre DEF ChainOk
      <4> QED  BY <3>0, <4>1 DEF ChainOk, Known
    <3>2. CASE b \notin recent
      BY <3>0, <3>2, <1>2, <1>6, <1>10, ChainAccepts
    <3> QED  BY <3>1, <3>2
  <2> HIDE DEF ps
  <2>2. ASSUME NEW q \in Peers PROVE PeerOk(peer'[q], Known') /\ peer'[q].requested = ps[q].requested
    <3>1. PeerOk(ps[q], Known')
      BY <1>8, <2>1, PeerOkMore DEF PeersOk
    <3>2. PeerOk([ps[q] EXCEPT !.lastSeen = b], Known') /\ [ps[q] EXCEPT !.lastSeen = b].requested = ps[q].requested
      BY <3>1, <2>1, <1>2, LastSeenOk
    <3>3. peer'[q] = ps[q] \/ peer'[q] = [ps[q] EXCEPT !.lastSeen = b]
      BY <1>10
    <3> QED  BY <3>1, <3>2, <3>3
  <2>3. peer' = [q \in Peers |-> peer'[q]]
    BY <1>10
  <2>4. PeersOk(peer', Known') /\ Live(peer', active)
    BY ONLY <2>2, <2>3, <1>8, AllChange
  <2> QED  BY <1>6, <2>1, <2>4, ChainGoesOn
<1> QED  BY <1>7, <1>9, <1>10

LEMMA FinishedOk ==
  ASSUME NEW r, NEW K, PeerOk(r, K), Rooted(K), NEW h \in K, Lib <= Num(h), NEW b
  PROVE  PeerOk(Finished(r, b, h), K) /\ Finished(r, b, h).requested = r.requested
<1> DEFINE n == r.processing \ {b}
           s == [r EXCEPT !.processing = n]
<1>1. r \in PeerRec /\ n \in SUBSET Blocks
  BY DEF PeerOk, Sound, PeerRec
<1>2. Finished(r, b, h) = IF b \in r.processing /\ Done(s) THEN FetchIds(s, h) ELSE s
  BY DEF Finished
<1> HIDE DEF n
<1>3. s \in PeerRec /\ s.in = r.in /\ s.out = r.out /\ s.requested = r.requested /\ s.normal = r.normal
       /\ s.conn = r.conn /\ s.toGet = r.toGet /\ s.lastSeen = r.lastSeen /\ s.asked = r.asked
  BY <1>1 DEF PeerRec
<1> HIDE DEF s
<1>4. PeerOk(s, K)
  BY <1>3, SameOk
<1>5. PeerOk(FetchIds(s, h), K) /\ FetchIds(s, h).requested = s.requested
  BY <1>4, FetchIdsOk DEF PeerOk
<1> QED  BY <1>2, <1>3, <1>4, <1>5

LEMMA AcceptedOk ==
  ASSUME NEW r, NEW K, PeerOk(r, K), Rooted(K), NEW h \in K, Lib <= Num(h), NEW b \in K
  PROVE  PeerOk(Accepted(r, b, h), K) /\ Accepted(r, b, h).requested = r.requested
<1> DEFINE s == [r EXCEPT !.lastSeen = b]
<1>1. PeerOk(StartSync(r, h), K) /\ StartSync(r, h).requested = r.requested
  BY StartSyncOk DEF PeerOk
<1>2. PeerOk(s, K) /\ s.requested = r.requested
  BY LastSeenOk DEF Rooted
<1>3. Accepted(r, b, h) \in {r, StartSync(r, h), Finished(s, b, h)}
  BY DEF Accepted
<1> HIDE DEF s
<1>4. PeerOk(Finished(s, b, h), K) /\ Finished(s, b, h).requested = s.requested
  BY <1>2, FinishedOk
<1> QED  BY <1>1, <1>2, <1>3, <1>4

LEMMA HandleSyncBlockKeeps ==
  ASSUME IInv, HandleSyncBlock
  PROVE  IInv'
<1> DEFINE b == Head(handled)
           h == NewHead(b)
<1>1. handled # <<>> /\ handled' = Tail(handled) /\ UNCHANGED <<active, fresh, received, toFetch, peerHead>>
  BY DEF HandleSyncBlock, itemVars, peerVars
<1>2. b \in Blocks /\ Accepts(b) /\ ChainOk
  <2>1. ChainOk /\ handled \in Seq(Blocks)
    BY Facts DEF ChainOk
  <2>2. b = handled[1] /\ b \in Blocks /\ Len(handled) > 0 /\ Len(handled) \in Nat
    BY <1>1, <2>1, Tails
  <2>3. 1 \in 1 .. Len(handled) /\ {handled[j] : j \in 1 .. 1 - 1} = {}
    BY <2>2
  <2>4. Parent[handled[1]] \in have \cup {0}
    BY <2>1, <2>3 DEF ChainOk
  <2> QED  BY <2>1, <2>2, <2>4 DEF Accepts
<1>3. /\ have' = have \cup {b} /\ head' = h /\ recent' = recent \cup {b} /\ UNCHANGED accused
      /\ peer' = [p \in Peers |-> IF p \in Active(peer) THEN Accepted(peer[p], b, h) ELSE peer[p]]
  BY <1>2 DEF HandleSyncBlock
<1>4. ChainOk' /\ Known \subseteq Known' /\ b \in Known' /\ h \in Known' /\ Lib <= Num(h)
  <2> HIDE DEF b
  <2>1. handled # <<>> /\ b = Head(handled) /\ handled' = Tail(handled)
    BY <1>1 DEF b
  <2> QED  BY <1>2, <1>3, <2>1, ChainAccepts
<1>5. Rooted(Known')
  <2>1. ChainOk' => Rooted(Known)'
    BY KnownRooted, PTL
  <2> QED  BY <1>4, <2>1 DEF Rooted
<1> HIDE DEF b, h
<1>6. ASSUME NEW q \in Peers PROVE PeerOk(peer'[q], Known') /\ peer'[q].requested = peer[q].requested
  <2>1. PeerOk(peer[q], Known')
    BY <1>4, Facts, PeerOkMore
  <2>2. PeerOk(Accepted(peer[q], b, h), Known') /\ Accepted(peer[q], b, h).requested = peer[q].requested
    BY <2>1, <1>4, <1>5, AcceptedOk
  <2>3. peer'[q] = peer[q] \/ peer'[q] = Accepted(peer[q], b, h)
    BY <1>3
  <2> QED  BY <2>1, <2>2, <2>3
<1>7. peer' = [q \in Peers |-> peer'[q]]
  BY <1>3
<1>8. PeersOk(peer', Known') /\ Live(peer', active')
  <2>1. Live(peer, active)
    BY Facts
  <2>2. PeersOk(peer', Known') /\ Live(peer', active)
    BY ONLY <1>6, <1>7, <2>1, AllChange
  <2> QED  BY <1>1, <2>2
<1> QED  BY <1>1, <1>3, <1>4, <1>8, ChainGoesOn

(***************************************************************************)
(* The ids a peer lists.                                                   *)
(***************************************************************************)

\* What is left of a list begins after blocks of the chain.
LEMMA UnknownFacts ==
  ASSUME NEW list \in Seq(Blocks), have \subseteq Blocks
  PROVE  \E j \in 1 .. Len(list) + 1 : Unknown(list) = SubSeq(list, j, Len(list)) /\ \A i \in 1 .. j - 1 : list[i] \in have
<1> DEFINE l == Append(list, 0)
           I == {i \in 1 .. Len(l) : l[i] \notin have}
<1>1. Unknown(list) = SubSeq(list, IF I # {} THEN Min(I) ELSE 0, Len(list))
  BY DEF Unknown, SelectInSeq
<1>2. Len(list) \in Nat
  BY Elements
<1>3. list \in Seq(Heads) /\ 0 \in Heads
  <2>1. list = [i \in 1 .. Len(list) |-> list[i]] /\ \A i \in 1 .. Len(list) : list[i] \in Heads
    BY Elements, HeadsAre
  <2>2. list \in [1 .. Len(list) -> Heads]
    BY <2>1
  <2>3. list \in Seq(Heads)
    BY ONLY <1>2, <2>2
  <2> QED  BY <2>3, HeadsAre
<1>4. Len(l) = Len(list) + 1 /\ l[Len(list) + 1] = 0 /\ \A i \in 1 .. Len(list) : l[i] = list[i]
  BY <1>3, Appends
<1> HIDE DEF l
<1>5. Len(list) + 1 \in I /\ I \subseteq Nat
  BY <1>2, <1>4, HeadsAre
<1> HIDE DEF I
<1>6. Min(I) \in I /\ \A j \in I : Min(I) <= j
  BY <1>5, MinIn
<1> DEFINE m == Min(I)
<1>7. m \in 1 .. Len(list) + 1
  BY <1>4, <1>6 DEF I
<1>8. ASSUME NEW i \in 1 .. m - 1 PROVE list[i] \in have
  <2>1. i \notin I /\ i \in 1 .. Len(l) /\ i \in 1 .. Len(list)
    BY <1>2, <1>4, <1>6, <1>7
  <2> QED  BY <2>1, <1>4 DEF I
<1>9. Unknown(list) = SubSeq(list, m, Len(list))
  BY <1>1, <1>5
<1> HIDE DEF m
<1> QED  BY <1>7, <1>8, <1>9

\* The last place of a block in a list.
LEMMA LastPlace ==
  ASSUME NEW list \in Seq(Blocks), NEW b, NEW k, k = Len(list) + 1 - SelectInSeq(Reverse(list), LAMBDA c : c = b)
  PROVE  \/ k \in 1 .. Len(list) /\ list[k] = b
         \/ k = Len(list) + 1 /\ b \notin Range(list)
<1> DEFINE r == Reverse(list)
           n == Len(list)
           I == {i \in 1 .. Len(r) : r[i] = b}
<1>1. n \in Nat /\ Range(list) = {list[i] : i \in 1 .. n}
  BY Elements
<1>2. r \in Seq(Blocks) /\ Len(r) = n /\ \A i \in 1 .. n : r[i] = list[(n - i) + 1]
  <2>1. r \in [1 .. n -> Blocks] /\ \A i \in 1 .. n : r[i] = list[(n - i) + 1]
    BY <1>1, Elements DEF Reverse
  <2> HIDE DEF r
  <2>2. r \in Seq(Blocks)
    BY ONLY <1>1, <2>1
  <2>3. DOMAIN r = 1 .. Len(r) /\ Len(r) \in Nat /\ DOMAIN r = 1 .. n
    BY <2>1, <2>2, Elements
  <2>4. Len(r) = n
    BY ONLY <1>1, <2>3
  <2> QED  BY <2>1, <2>2, <2>4
<1>3. k = n + 1 - (IF I # {} THEN Min(I) ELSE 0)
  BY DEF SelectInSeq
<1> HIDE DEF r
<1>4. CASE I # {}
  <2>1. I \subseteq Nat /\ I \subseteq 1 .. n
    BY <1>2
  <2>2. Min(I) \in I
    BY <1>4, <2>1, MinIn
  <2> DEFINE m == Min(I)
  <2>3. m \in 1 .. n /\ r[m] = b /\ k = n + 1 - m
    BY <1>3, <1>4, <2>1, <2>2
  <2> HIDE DEF m
  <2>4. k \in 1 .. n /\ (n - m) + 1 = k
    BY <1>1, <2>3
  <2> QED  BY <1>2, <2>3, <2>4
<1>5. CASE I = {}
  <2>1. k = n + 1
    BY <1>1, <1>3, <1>5
  <2>2. ASSUME NEW i \in 1 .. n PROVE list[i] # b
    <3>1. (n - i) + 1 \in 1 .. n /\ (n - ((n - i) + 1)) + 1 = i
      BY <1>1
    <3>2. r[(n - i) + 1] = list[i]
      BY <1>2, <3>1
    <3> QED  BY <1>2, <1>5, <3>1, <3>2
  <2> QED  BY <1>1, <2>1, <2>2
<1> QED  BY <1>4, <1>5

LEMMA LinkedConcat ==
  ASSUME NEW s \in Seq(Blocks), NEW t \in Seq(Blocks), Linked(s), Linked(t),
         s # <<>> /\ t # <<>> => Parent[t[1]] = s[Len(s)]
  PROVE  s \o t \in Seq(Blocks) /\ Linked(s \o t)
         /\ (s # <<>> => (s \o t)[1] = s[1]) /\ (s = <<>> /\ t # <<>> => (s \o t)[1] = t[1]) /\ (s \o t # <<>> => s # <<>> \/ t # <<>>)
<1> DEFINE u == s \o t
           m == Len(s)
           n == Len(t)
<1>1. /\ u \in Seq(Blocks) /\ Len(u) = m + n
      /\ (\A i \in 1 .. m : u[i] = s[i]) /\ \A i \in 1 .. n : u[m + i] = t[i]
  BY Concats, SMTT(30)
<1>2. m \in Nat /\ n \in Nat /\ (s = <<>> <=> m = 0) /\ (t = <<>> <=> n = 0) /\ (u = <<>> <=> Len(u) = 0)
  BY <1>1, Elements
<1>3. (\A i \in 1 .. m - 1 : Parent[s[i + 1]] = s[i]) /\ (\A i \in 1 .. n - 1 : Parent[t[i + 1]] = t[i])
  BY DEF Linked
<1> HIDE DEF u, m, n
<1>4. ASSUME NEW i \in 1 .. Len(u) - 1 PROVE Parent[u[i + 1]] = u[i]
  <2>1. CASE i < m
    <3>1. i \in 1 .. m - 1 /\ i \in 1 .. m /\ i + 1 \in 1 .. m
      BY <1>2, <2>1
    <3> QED  BY <1>1, <1>3, <3>1
  <2>2. CASE i = m
    <3>1. 1 \in 1 .. n /\ m \in 1 .. m /\ s # <<>> /\ t # <<>>
      BY <1>1, <1>2, <2>2
    <3>2. u[m + 1] = t[1] /\ u[m] = s[m] /\ Parent[t[1]] = s[m]
      BY <1>1, <3>1 DEF m
    <3> QED  BY <2>2, <3>2
  <2>3. CASE i > m
    <3> DEFINE k == i - m
    <3>1. k \in 1 .. n - 1 /\ k \in 1 .. n /\ k + 1 \in 1 .. n /\ i = m + k /\ i + 1 = m + (k + 1)
      BY <1>1, <1>2, <2>3
    <3> HIDE DEF k
    <3>2. u[m + k] = t[k] /\ u[m + (k + 1)] = t[k + 1] /\ Parent[t[k + 1]] = t[k]
      BY <1>1, <1>3, <3>1
    <3> QED  BY <3>1, <3>2
  <2> QED  BY <1>2, <2>1, <2>2, <2>3
<1>5. s # <<>> => u[1] = s[1]
  BY <1>1, <1>2
<1>6. ASSUME s = <<>>, t # <<>> PROVE u[1] = t[1]
  <2>1. m = 0 /\ 1 \in 1 .. n /\ m + 1 = 1
    BY <1>2, <1>6
  <2> QED  BY <1>1, <2>1
<1>7. u # <<>> => s # <<>> \/ t # <<>>
  BY <1>1, <1>2
<1>8. Linked(u)
  BY <1>4 DEF Linked
<1> QED  BY <1>1, <1>5, <1>6, <1>7, <1>8 DEF u

\* A connection with other ids to get, when no answer is awaited.
Aims(r, t)       == [r EXCEPT !.toGet = t]
AimsFrom(r, t, b) == [r EXCEPT !.toGet = t, !.lastSeen = b]

LEMMA ToGetOk ==
  ASSUME NEW r, NEW K, PeerOk(r, K), r.asked = {}, NEW t \in Seq(Blocks), Linked(t), t # <<>> => Parent[t[1]] \in K,
         NEW b \in K, b \in Heads, NEW s, s = Aims(r, t) \/ s = AimsFrom(r, t, b)
  PROVE  PeerOk(s, K) /\ s.asked = {} /\ s.requested = r.requested
<1>1. r \in PeerRec /\ r.lastSeen \in K
  BY DEF PeerOk, Sound, Route
<1>2. /\ s \in PeerRec /\ s.in = r.in /\ s.out = r.out /\ s.requested = r.requested /\ s.normal = r.normal
      /\ s.conn = r.conn /\ s.toGet = t /\ s.lastSeen \in {r.lastSeen, b} /\ s.asked = r.asked
  <2>1. CASE s = Aims(r, t)
    BY <1>1, <2>1 DEF PeerRec, Aims
  <2>2. CASE s = AimsFrom(r, t, b)
    BY <1>1, <2>2 DEF PeerRec, AimsFrom
  <2> QED  BY <2>1, <2>2
<1>3. Sound(s)
  BY <1>2 DEF PeerOk, Sound
<1>4. Route(s, K)
  BY <1>1, <1>2 DEF PeerOk, Route
<1>5. Awaits(s, K)
  BY <1>2 DEF Awaits
<1> QED  BY <1>2, <1>3, <1>4, <1>5 DEF PeerOk

LEMMA ExtendedOk ==
  ASSUME NEW r, NEW K, PeerOk(r, K), r.asked = {}, Rooted(K), have \subseteq K, have \subseteq Blocks,
         NEW list \in Seq(Blocks), Linked(list), NEW syn, syn \subseteq K \cup Range(r.toGet), syn = {} => r.toGet = <<>>,
         Fits(list, syn), NEW others, \A b \in others : b = 0 \/ Parent[b] \in K
  PROVE  LET s == Extended(r, list, others) IN PeerOk(s, K) /\ s.requested = r.requested
<1> DEFINE ids   == r.toGet
           k     == Len(ids) + 1 - SelectInSeq(Reverse(ids), LAMBDA b : b = list[1])
           new   == Unknown(list)
           known == Len(list) - Len(new)
           s     == Extended(r, list, others)
           s1    == [r EXCEPT !.toGet = ids \o list]
           s2    == [r EXCEPT !.toGet = new, !.lastSeen = IF known > 0 THEN list[known] ELSE r.lastSeen]
           s3    == [r EXCEPT !.toGet = Tail(list), !.lastSeen = list[1]]
           s4    == [r EXCEPT !.toGet = SubSeq(ids, 1, k - 1) \o list]
<1>0. r \in PeerRec /\ ids \in Seq(Blocks) /\ Linked(ids) /\ r.lastSeen \in K /\ (ids # <<>> => Parent[ids[1]] \in K) /\ K \subseteq Heads
  BY DEF PeerOk, Sound, Route, PeerRec, Rooted
<1>1. s = IF list = <<>> \/ (ids = <<>> /\ list[1] \in others) THEN s1
          ELSE IF ids = <<>> THEN s2 ELSE IF k > Len(ids) THEN s3 ELSE s4
  BY <1>0 DEF Extended, PeerRec
<1>2. Len(list) \in Nat /\ (list = <<>> <=> Len(list) = 0) /\ (list # <<>> => list[1] \in Blocks)
  BY Elements
<1>3. list # <<>> /\ syn # {} => list[1] \in syn
  BY DEF Fits
<1>4. list # <<>> /\ syn = {} => Parent[list[1]] = 0
  BY <1>2, Before1 DEF Fits
<1>5. \A b \in K : b # 0 => Parent[b] \in K
  BY DEF Rooted
<1> HIDE DEF s
<1>6. ASSUME list = <<>> \/ (ids = <<>> /\ list[1] \in others) PROVE PeerOk(s, K) /\ s.requested = r.requested
  <2>1. /\ ids \o list \in Seq(Blocks) /\ Linked(ids \o list)
        /\ (ids # <<>> => (ids \o list)[1] = ids[1]) /\ (ids = <<>> /\ list # <<>> => (ids \o list)[1] = list[1])
        /\ (ids \o list # <<>> => ids # <<>> \/ list # <<>>)
    BY <1>0, <1>6, LinkedConcat
  <2>2. ids = <<>> /\ list # <<>> => Parent[list[1]] \in K
    BY <1>2, <1>6, HeadsAre
  <2> DEFINE t == ids \o list
  <2>3. t \in Seq(Blocks) /\ Linked(t) /\ (t # <<>> => Parent[t[1]] \in K) /\ s = Aims(r, t) /\ r.lastSeen \in Heads
    BY <1>0, <1>1, <1>6, <2>1, <2>2 DEF Aims
  <2> HIDE DEF t
  <2> QED  BY <1>0, <2>3, ToGetOk
<1>7. ASSUME list # <<>>, ids = <<>>, list[1] \notin others PROVE PeerOk(s, K) /\ s.requested = r.requested
  <2>1. PICK j \in 1 .. Len(list) + 1 : new = SubSeq(list, j, Len(list)) /\ \A i \in 1 .. j - 1 : list[i] \in have
    BY UnknownFacts
  <2>2. new \in Seq(Blocks) /\ Len(new) = Len(list) - j + 1 /\ \A i \in 1 .. Len(list) - j + 1 : new[i] = list[j + i - 1]
    <3>1. Len(list) \in j - 1 .. Len(list)
      BY <1>2
    <3> QED  BY <2>1, <3>1, Slices
  <2>3. s = s2
    BY <1>1, <1>7
  <2>4. known = j - 1
    BY <1>2, <2>2
  <2> HIDE DEF new
  <2>5. Linked(new)
    <3> SUFFICES ASSUME NEW i \in 1 .. Len(new) - 1 PROVE Parent[new[i + 1]] = new[i]
      BY DEF Linked
    <3> DEFINE l == j + i - 1
    <3>1. i \in 1 .. Len(list) - j + 1 /\ i + 1 \in 1 .. Len(list) - j + 1 /\ l \in 1 .. Len(list) - 1 /\ j + (i + 1) - 1 = l + 1
      BY <1>2, <2>2
    <3>2. new[i] = list[l] /\ new[i + 1] = list[l + 1]
      BY <2>2, <3>1
    <3> HIDE DEF l
    <3> QED  BY <3>1, <3>2 DEF Linked
  <2>6. new # <<>> => Parent[new[1]] \in K
    <3> SUFFICES ASSUME new # <<>> PROVE Parent[new[1]] \in K
      OBVIOUS
    <3>1. Len(new) > 0
      BY <2>2, Elements
    <3>2. new[1] = list[j] /\ j \in 1 .. Len(list)
      BY <1>2, <2>2, <3>1
    <3>3. CASE j = 1
      <4>1. CASE syn = {}
        BY <1>4, <1>7, <3>2, <3>3, <4>1 DEF Rooted
      <4>2. CASE syn # {}
        <5>1. list[1] \in K
          BY <1>3, <1>7, <4>2, LinkedNone
        <5> QED  BY <1>2, <1>5, <1>7, <3>2, <3>3, <5>1, HeadsAre
      <4> QED  BY <4>1, <4>2
    <3>4. CASE j # 1
      <4>1. j - 1 \in 1 .. Len(list) - 1 /\ (j - 1) + 1 = j /\ j - 1 \in 1 .. j - 1
        BY <1>2, <3>2, <3>4
      <4>2. Parent[list[j]] = list[j - 1] /\ list[j - 1] \in have
        BY <2>1, <4>1 DEF Linked
      <4> QED  BY <3>2, <4>2
    <3> QED  BY <3>3, <3>4
  <2> DEFINE b == IF known > 0 THEN list[known] ELSE r.lastSeen
  <2>7. b \in K
    BY <1>0, <2>1, <2>4
  <2>8. s = AimsFrom(r, new, b)
    BY <2>3 DEF AimsFrom
  <2> HIDE DEF b
  <2> QED  BY <1>0, <2>2, <2>5, <2>6, <2>7, <2>8, ToGetOk
<1>n. list # <<>> /\ ids # <<>> => list[1] \in K \cup Range(ids)
  BY <1>3
<1>k. list # <<>> => \/ k \in 1 .. Len(ids) /\ ids[k] = list[1]
                     \/ k = Len(ids) + 1 /\ list[1] \notin Range(ids)
  <2> DEFINE i == ids
  <2>1. i \in Seq(Blocks)
    BY <1>0
  <2> HIDE DEF i
  <2>2. LET l == Len(i) + 1 - SelectInSeq(Reverse(i), LAMBDA b : b = list[1])
        IN  \/ l \in 1 .. Len(i) /\ i[l] = list[1]
            \/ l = Len(i) + 1 /\ list[1] \notin Range(i)
    BY <2>1, LastPlace
  <2> QED  BY <2>2 DEF i
<1>l. Len(ids) \in Nat /\ (ids # <<>> => Len(ids) > 0)
  BY <1>0, Elements
<1> HIDE DEF k
<1>8. ASSUME list # <<>>, ids # <<>>, k > Len(ids) PROVE PeerOk(s, K) /\ s.requested = r.requested
  <2>1. list[1] \in K
    BY <1>k, <1>l, <1>n, <1>8
  <2>2. Tail(list) \in Seq(Blocks) /\ Len(Tail(list)) = Len(list) - 1 /\ \A i \in 1 .. Len(list) - 1 : Tail(list)[i] = list[i + 1]
    BY <1>8, Tails
  <2>3. Linked(Tail(list)) /\ (Tail(list) # <<>> => Parent[Tail(list)[1]] \in K)
    <3>1. ASSUME NEW i \in 1 .. Len(Tail(list)) - 1 PROVE Parent[Tail(list)[i + 1]] = Tail(list)[i]
      <4>1. i \in 1 .. Len(list) - 1 /\ i + 1 \in 1 .. Len(list) - 1
        BY <1>2, <2>2
      <4> QED  BY <2>2, <4>1 DEF Linked
    <3>2. ASSUME Tail(list) # <<>> PROVE Parent[Tail(list)[1]] \in K
      <4>1. 1 \in 1 .. Len(list) - 1
        BY <1>2, <2>2, <3>2, Elements
      <4>2. Tail(list)[1] = list[1 + 1] /\ Parent[list[1 + 1]] = list[1]
        BY <2>2, <4>1 DEF Linked
      <4> QED  BY <2>1, <4>2
    <3> QED  BY <3>1, <3>2 DEF Linked
  <2> DEFINE t == Tail(list)
             b == list[1]
  <2>4. s = AimsFrom(r, t, b) /\ t \in Seq(Blocks) /\ Linked(t) /\ (t # <<>> => Parent[t[1]] \in K) /\ b \in K /\ b \in Heads
    BY <1>0, <1>1, <1>8, <2>1, <2>2, <2>3 DEF AimsFrom
  <2> HIDE DEF t, b
  <2> QED  BY <2>4, ToGetOk
<1>9. ASSUME list # <<>>, ids # <<>>, ~(k > Len(ids)) PROVE PeerOk(s, K) /\ s.requested = r.requested
  <2>1. k \in 1 .. Len(ids) /\ ids[k] = list[1]
    BY <1>k, <1>l, <1>9
  <2> DEFINE a == SubSeq(ids, 1, k - 1)
  <2>2. a \in Seq(Blocks) /\ Len(a) = k - 1 /\ \A i \in 1 .. k - 1 : a[i] = ids[i]
    <3>1. 1 \in 1 .. Len(ids) + 1 /\ k - 1 \in 1 - 1 .. Len(ids)
      BY <1>l, <2>1
    <3>2. a \in Seq(Blocks) /\ Len(a) = (k - 1) - 1 + 1 /\ \A i \in 1 .. (k - 1) - 1 + 1 : a[i] = ids[1 + i - 1]
      BY <1>0, <3>1, Slices
    <3>3. (k - 1) - 1 + 1 = k - 1 /\ \A i \in 1 .. k - 1 : 1 + i - 1 = i
      BY <2>1
    <3> QED  BY <3>2, <3>3
  <2> HIDE DEF a
  <2>3. Linked(a)
    <3> SUFFICES ASSUME NEW i \in 1 .. Len(a) - 1 PROVE Parent[a[i + 1]] = a[i]
      BY DEF Linked
    <3>1. i \in 1 .. k - 1 /\ i + 1 \in 1 .. k - 1 /\ i \in 1 .. Len(ids) - 1
      BY <1>l, <2>1, <2>2
    <3> QED  BY <1>0, <2>2, <3>1 DEF Linked
  <2>4. ASSUME a # <<>> PROVE Parent[list[1]] = a[Len(a)] /\ a[1] = ids[1]
    <3>1. Len(a) # 0 /\ k - 1 \in 1 .. k - 1 /\ k - 1 \in 1 .. Len(ids) - 1 /\ (k - 1) + 1 = k /\ 1 \in 1 .. k - 1
      BY <1>l, <2>1, <2>2, <2>4, Elements
    <3>2. Parent[ids[(k - 1) + 1]] = ids[k - 1]
      BY <1>0, <3>1 DEF Linked
    <3> QED  BY <2>1, <2>2, <3>1, <3>2
  <2>5. a = <<>> => k = 1
    BY <2>1, <2>2, Elements
  <2>6. a \o list \in Seq(Blocks) /\ Linked(a \o list) /\ (a # <<>> => (a \o list)[1] = a[1]) /\ (a = <<>> => (a \o list)[1] = list[1])
    BY <1>9, <2>2, <2>3, <2>4, LinkedConcat
  <2> DEFINE t == a \o list
  <2>7. Parent[t[1]] \in K
    BY <1>0, <1>9, <2>1, <2>4, <2>5, <2>6
  <2>8. s = Aims(r, t) /\ t \in Seq(Blocks) /\ Linked(t) /\ r.lastSeen \in Heads
    BY <1>0, <1>1, <1>9, <2>6 DEF a, Aims
  <2> HIDE DEF t
  <2> QED  BY <1>0, <2>7, <2>8, ToGetOk
<1> QED  BY <1>6, <1>7, <1>8, <1>9 DEF s

LEMMA OnIdsKeeps ==
  ASSUME IInv, NEW p \in Peers, OnIds(p)
  PROVE  IInv'
<1>1. PeerOk(peer[p], Known) /\ peer[p] \in PeerRec /\ peer[p].in # <<>> /\ Head(peer[p].in)[1] = "list"
  BY Facts DEF OnIds, Receives
<1> DEFINE list == Msg(p)
           rest == Head(peer[p].in)[3]
           u    == Read(p)
           r    == [u EXCEPT !.asked = {}]
           v    == [r EXCEPT !.unfetched = rest]
           n    == [r EXCEPT !.needs = FALSE]
           c    == [u EXCEPT !.conn = "closing"]
           others == {NextId(peer[q]) : q \in Active(peer) \ {p}}
           s    == Extended(v, list, others)
           enough == IF rest # 0 THEN Len(s.toGet) > MinPrefetch ELSE s.toGet # <<>>
           syn  == CHOOSE y \in peer[p].asked : TRUE
<1>2. UNCHANGED <<have, head, recent, handled, fresh, received, active, toFetch, peerHead>>
  BY DEF OnIds, chainVars, itemVars, peerVars
<1>3. \/ peer' = [peer EXCEPT ![p] = r] /\ UNCHANGED accused
      \/ peer' = Accuse([peer EXCEPT ![p] = u], {p}) /\ accused' = accused \cup {"list"}
      \/ peer' = [peer EXCEPT ![p] = n] /\ UNCHANGED accused
      \/ /\ peer[p].asked # {} /\ Fits(list, syn) /\ UNCHANGED accused
         /\ peer' = [peer EXCEPT ![p] = IF enough THEN s ELSE FetchIds(s, head)]
  BY DEF OnIds
<1>4. accused' \subseteq {"list"}
  BY <1>3, Facts
<1>5. PeerOk(u, Known) /\ u.requested = peer[p].requested /\ u \in PeerRec /\ Head(peer[p].in) \in InMsg /\ Linked(list)
      /\ u.toGet = peer[p].toGet
  <2>1. u = [peer[p] EXCEPT !.in = Tail(peer[p].in)]
    BY DEF Read
  <2>2. PeerOk(u, Known) /\ Head(peer[p].in) \in InMsg /\ Linked(list)
    BY <1>1, <2>1, ReadOk DEF Msg
  <2>3. u.requested = peer[p].requested /\ u.toGet = peer[p].toGet
    BY <1>1, <2>1 DEF PeerRec
  <2> QED  BY <2>2, <2>3 DEF PeerOk, Sound
<1>6. list \in Seq(Blocks) /\ rest \in Int
  BY <1>1, <1>5, InTypes DEF Msg
<1> HIDE DEF list, rest, u
<1>7. r \in PeerRec /\ r.in = u.in /\ r.out = u.out /\ r.requested = u.requested /\ r.normal = u.normal /\ r.conn = u.conn
      /\ r.toGet = u.toGet /\ r.lastSeen = u.lastSeen /\ r.asked = {}
  BY <1>5 DEF PeerRec
<1> HIDE DEF r
<1>8. PeerOk(r, Known)
  BY <1>5, <1>7, SameOk
<1>9. PeerOk(v, Known) /\ v.requested = r.requested /\ v.toGet = r.toGet /\ v.asked = {}
  <2>1. v \in PeerRec /\ v.in = r.in /\ v.out = r.out /\ v.requested = r.requested /\ v.normal = r.normal /\ v.conn = r.conn
        /\ v.toGet = r.toGet /\ v.lastSeen = r.lastSeen /\ v.asked = r.asked
    BY <1>6, <1>7 DEF PeerRec
  <2> HIDE DEF v
  <2> QED  BY <1>7, <1>8, <2>1, SameOk
<1>10. PeerOk(n, Known) /\ n.requested = r.requested
  <2>1. PICK t \in BOOLEAN : t = FALSE
    OBVIOUS
  <2>2. n = [r EXCEPT !.needs = t]
    BY <2>1
  <2> HIDE DEF n
  <2>3. n \in PeerRec /\ n.in = r.in /\ n.out = r.out /\ n.requested = r.requested /\ n.normal = r.normal /\ n.conn = r.conn
        /\ n.toGet = r.toGet /\ n.lastSeen = r.lastSeen /\ n.asked = r.asked
    BY <1>7, <2>2 DEF PeerRec
  <2> QED  BY <1>8, <2>3, SameOk
<1>11. PeerOk(c, Known) /\ c.requested = u.requested
  BY <1>5, ClosingOk
<1>12. Accuse([peer EXCEPT ![p] = u], {p}) = [peer EXCEPT ![p] = c]
  <2>1. peer = [q \in Peers |-> peer[q]]
    BY Facts
  <2> DEFINE ps == [peer EXCEPT ![p] = u]
  <2>2. ps[p] = u /\ \A q \in Peers : q # p => ps[q] = peer[q]
    BY <2>1
  <2>3. [peer EXCEPT ![p] = c] = [q \in Peers |-> IF q = p THEN c ELSE peer[q]]
    BY <2>1
  <2> HIDE DEF ps, c
  <2>4. Accuse(ps, {p}) = [q \in Peers |-> IF q = p THEN c ELSE peer[q]]
    BY <2>2 DEF Accuse, c
  <2> QED  BY <2>3, <2>4 DEF ps
<1> HIDE DEF v, n, c
<1>13. ASSUME peer[p].asked # {}, Fits(list, syn) PROVE PeerOk(s, Known) /\ s.requested = v.requested
  <2>1. syn \in peer[p].asked
    BY <1>13
  <2> HIDE DEF syn
  <2>2. syn \subseteq Known \cup Range(v.toGet) /\ (syn = {} => v.toGet = <<>>)
    BY <1>1, <1>5, <1>7, <1>9, <2>1 DEF PeerOk, Awaits
  <2>3. have \subseteq Known /\ have \subseteq Blocks /\ Rooted(Known)
    BY Facts DEF Known, ChainOk
  <2>4. \A b \in others : b = 0 \/ Parent[b] \in Known
    <3> SUFFICES ASSUME NEW q \in Peers PROVE NextId(peer[q]) = 0 \/ Parent[NextId(peer[q])] \in Known
      BY DEF Active
    <3>1. Route(peer[q], Known)
      BY Facts DEF PeerOk
    <3> QED  BY <3>1 DEF NextId, Route
  <2> HIDE DEF others
  <2> QED  BY <1>5, <1>6, <1>9, <1>13, <2>2, <2>3, <2>4, ExtendedOk
<1> HIDE DEF s
<1>14. ASSUME PeerOk(s, Known) PROVE PeerOk(FetchIds(s, head), Known) /\ FetchIds(s, head).requested = s.requested
  BY <1>14, Facts, FetchIdsOk DEF PeerOk
<1>15. \E w : PeerOk(w, Known) /\ w.requested = peer[p].requested /\ peer' = [peer EXCEPT ![p] = w]
  <2>1. CASE peer' = [peer EXCEPT ![p] = r]
    BY <2>1, <1>5, <1>7, <1>8
  <2>2. CASE peer' = Accuse([peer EXCEPT ![p] = u], {p})
    BY <2>2, <1>5, <1>11, <1>12
  <2>3. CASE peer' = [peer EXCEPT ![p] = n]
    BY <2>3, <1>5, <1>7, <1>10
  <2>4. CASE /\ peer[p].asked # {} /\ Fits(list, syn)
             /\ peer' = [peer EXCEPT ![p] = IF enough THEN s ELSE FetchIds(s, head)]
    <3>1. PeerOk(s, Known) /\ s.requested = peer[p].requested
      BY <2>4, <1>5, <1>7, <1>9, <1>13
    <3>2. PeerOk(FetchIds(s, head), Known) /\ FetchIds(s, head).requested = peer[p].requested
      BY <3>1, <1>14
    <3>3. peer' = [peer EXCEPT ![p] = s] \/ peer' = [peer EXCEPT ![p] = FetchIds(s, head)]
      BY <2>4
    <3> QED  BY <3>1, <3>2, <3>3
  <2> QED  BY <1>3, <2>1, <2>2, <2>3, <2>4
<1>16. PICK w : PeerOk(w, Known) /\ w.requested = peer[p].requested /\ peer' = [peer EXCEPT ![p] = w]
  BY <1>15
<1> QED  BY <1>2, <1>4, <1>16, Facts, OneKeeps

(***************************************************************************)
(* The loops that send requests.                                           *)
(***************************************************************************)

Gathered(f, k, ids, busy) ==
  IF k = 0 THEN <<>>
  ELSE LET w == f[k - 1]
       IN  IF Len(w) >= MaxPerPeer \/ ids[k] \in busy \cup Range(w) THEN w ELSE Append(w, ids[k])

Gathers(f, n, ids, busy) == f = [k \in 0 .. n |-> Gathered(f, k, ids, busy)]

LEMMA GatheredExist ==
  ASSUME NEW ids, NEW n \in Nat, NEW busy
  PROVE  \E f : Gathers(f, n, ids, busy)
<1> DEFINE P(m) == \E f : f = [k \in 0 .. m |-> Gathered(f, k, ids, busy)]
           G == {m \in Nat : P(m)}
<1>1. P(0)
  <2> DEFINE f == [k \in 0 .. 0 |-> <<>>]
  <2>1. f = [k \in 0 .. 0 |-> Gathered(f, k, ids, busy)]
    BY DEF Gathered
  <2> QED  BY <2>1
<1>2. ASSUME NEW m \in Nat, P(m) PROVE P(m + 1)
  <2>1. PICK f : f = [k \in 0 .. m |-> Gathered(f, k, ids, busy)]
    BY <1>2
  <2> DEFINE g == [k \in 0 .. m + 1 |-> IF k = m + 1 THEN Gathered(f, k, ids, busy) ELSE f[k]]
  <2>2. ASSUME NEW k \in 0 .. m + 1 PROVE g[k] = Gathered(g, k, ids, busy)
    <3>1. g[k] = Gathered(f, k, ids, busy)
      BY <2>1
    <3>2. k # 0 => g[k - 1] = f[k - 1]
      OBVIOUS
    <3> HIDE DEF g
    <3> QED  BY <3>1, <3>2 DEF Gathered
  <2>3. g = [k \in 0 .. m + 1 |-> Gathered(g, k, ids, busy)]
    BY <2>2
  <2> QED  BY <2>3
<1> HIDE DEF P
<1>3. Nat \subseteq G
  <2>1. 0 \in G /\ \A m \in Nat : m \in G => m + 1 \in G
    BY <1>1, <1>2
  <2> QED  BY ONLY <2>1, Numbers
<1>4. P(n)
  BY <1>3
<1> QED  BY <1>4 DEF P, Gathers

\* A sequence without repetitions stays one with another element behind it.
LEMMA AppendNew ==
  ASSUME NEW S, NEW s \in Seq(S), IsInjective(s), NEW x \in S, x \notin Range(s)
  PROVE  Append(s, x) \in Seq(S) /\ IsInjective(Append(s, x))
<1> DEFINE t == Append(s, x)
<1>1. t \in Seq(S) /\ Len(t) = Len(s) + 1 /\ t[Len(s) + 1] = x /\ \A i \in 1 .. Len(s) : t[i] = s[i]
  BY Appends
<1>2. Len(s) \in Nat /\ DOMAIN s = 1 .. Len(s) /\ Range(s) = {s[i] : i \in 1 .. Len(s)}
  BY Elements
<1>3. DOMAIN t = 1 .. Len(s) + 1
  BY <1>1, Elements
<1> HIDE DEF t
<1>4. ASSUME NEW i \in 1 .. Len(s) + 1, NEW j \in 1 .. Len(s) + 1, t[i] = t[j] PROVE i = j
  <2>1. \A k \in 1 .. Len(s) + 1 : k \in 1 .. Len(s) \/ k = Len(s) + 1
    BY <1>2
  <2>2. CASE i \in 1 .. Len(s) /\ j \in 1 .. Len(s)
    BY <1>1, <1>2, <1>4, <2>2 DEF IsInjective
  <2>3. CASE i = Len(s) + 1 /\ j \in 1 .. Len(s)
    BY <1>1, <1>2, <1>4, <2>3
  <2>4. CASE j = Len(s) + 1 /\ i \in 1 .. Len(s)
    BY <1>1, <1>2, <1>4, <2>4
  <2> QED  BY <2>1, <2>2, <2>3, <2>4
<1>5. IsInjective(t)
  BY <1>3, <1>4 DEF IsInjective
<1> QED  BY <1>1, <1>5 DEF t

\* What is requested of a peer is new to it and asked for once, and it is idle.
LEMMA WantedFacts ==
  ASSUME NEW r \in PeerRec, NEW taken
  PROVE  /\ Wanted(r, taken) \in Seq(Blocks) /\ IsInjective(Wanted(r, taken))
         /\ Wanted(r, taken) # <<>> => Idle(r) /\ r.conn = "active"
<1> DEFINE busy == taken \cup active \cup Range(fresh) \cup Range(received)
           ids  == r.toGet
           n    == Len(ids)
           f    == CHOOSE g : g = [k \in 0 .. n |-> Gathered(g, k, ids, busy)]
<1>1. Wanted(r, taken) = IF r.conn = "active" /\ r.needs /\ Idle(r) THEN f[n] ELSE <<>>
  BY DEF Wanted, Gathered
<1>2. ids \in Seq(Blocks) /\ n \in Nat /\ \A k \in 1 .. n : ids[k] \in Blocks
  BY Elements DEF PeerRec
<1> HIDE DEF busy, ids, n
<1>3. f = [k \in 0 .. n |-> Gathered(f, k, ids, busy)]
  <2>1. \E g : Gathers(g, n, ids, busy)
    BY <1>2, GatheredExist
  <2>2. f = CHOOSE g : Gathers(g, n, ids, busy)
    BY DEF Gathers
  <2> HIDE DEF f
  <2>3. Gathers(f, n, ids, busy)
    BY <2>1, <2>2
  <2> QED  BY <2>3 DEF Gathers
<1> HIDE DEF f
<1>e. <<>> \in Seq(Blocks) /\ IsInjective(<<>>)
  <2>1. <<>> \in Seq(Blocks) /\ Len(<<>>) = 0
    BY EmptySeq
  <2> QED  BY <2>1 DEF IsInjective
<1> DEFINE Good(w) == w \in Seq(Blocks) /\ IsInjective(w)
           G == {k \in 0 .. n : Good(f[k])}
<1>4. 0 \in G
  BY <1>2, <1>3, <1>e DEF Gathered
<1>5. ASSUME NEW k \in 0 .. n - 1, k \in G PROVE k + 1 \in G
  <2>1. k + 1 \in 1 .. n /\ (k + 1) - 1 = k /\ k + 1 # 0 /\ k + 1 \in 0 .. n
    BY <1>2
  <2>2. f[k + 1] = Gathered(f, k + 1, ids, busy)
    BY <1>3, <2>1
  <2>3. f[k + 1] = f[k] \/ (f[k + 1] = Append(f[k], ids[k + 1]) /\ ids[k + 1] \notin Range(f[k]))
    BY <2>1, <2>2 DEF Gathered
  <2>4. Good(f[k])
    BY <1>5
  <2> DEFINE w == f[k]
             x == ids[k + 1]
  <2>5. x \in Blocks
    BY <1>2, <2>1
  <2> HIDE DEF w, x
  <2>6. x \notin Range(w) => Good(Append(w, x))
    BY <2>4, <2>5, AppendNew DEF w
  <2> QED  BY <2>1, <2>3, <2>4, <2>6 DEF w, x
<1>6. 0 .. n \subseteq G
  <2> HIDE DEF G
  <2> QED  BY ONLY <1>2, <1>4, <1>5, NumbersTo
<1>7. Good(f[n])
  BY <1>2, <1>6
<1> QED  BY <1>1, <1>7, <1>e

\* An idle peer is asked for blocks.
Requesting(r, q, n, items) == [r EXCEPT !.requested = q, !.normal = n, !.out = Append(r.out, <<"get", items>>)]

LEMMA GetOk ==
  ASSUME NEW r, NEW K, PeerOk(r, K), Idle(r), NEW items \in Seq(Blocks), items # <<>>, IsInjective(items),
         NEW q, NEW n, (q = Range(items) /\ n = {} /\ r.conn = "active") \/ (q = {} /\ n = Range(items)),
         NEW s, s = Requesting(r, q, n, items)
  PROVE  PeerOk(s, K) /\ s.requested = q /\ r.requested = {}
<1>1. r \in PeerRec /\ r.in \in Seq(InMsg) /\ r.out \in Seq(OutMsg) /\ r.requested = {} /\ r.normal = {}
  BY DEF PeerOk, Sound, PeerRec, Idle
<1>2. Owes(r.in, r.out, {})
  BY <1>1 DEF PeerOk, Sound
<1> DEFINE o == Append(r.out, <<"get", items>>)
<1>3. o \in Seq(OutMsg) /\ Owes(r.in, o, Range(items))
  BY <1>1, <1>2, OwesRequested
<1>4. q \in SUBSET Blocks /\ n \in SUBSET Blocks /\ q \cup n = Range(items)
  BY Elements
<1>5. s = [r EXCEPT !.requested = q, !.normal = n, !.out = o]
  BY DEF Requesting
<1> HIDE DEF o
<1>6. s \in PeerRec /\ s.in = r.in /\ s.out = o /\ s.requested = q /\ s.normal = n
      /\ s.conn = r.conn /\ s.toGet = r.toGet /\ s.lastSeen = r.lastSeen /\ s.asked = r.asked
  BY <1>1, <1>3, <1>4, <1>5 DEF PeerRec
<1>7. Sound(s)
  BY <1>3, <1>4, <1>6 DEF Sound
<1>8. Route(s, K) /\ Awaits(s, K)
  BY <1>6 DEF PeerOk, Route, Awaits
<1> QED  BY <1>1, <1>6, <1>7, <1>8 DEF PeerOk

LEMMA RequestFromOk ==
  ASSUME NEW K, NEW s, s = [peer |-> s.peer, taken |-> s.taken], PeersOk(s.peer, K), Live(s.peer, active \cup s.taken), NEW p \in Peers
  PROVE  LET t == RequestFrom(s, p)
         IN  t = [peer |-> t.peer, taken |-> t.taken] /\ PeersOk(t.peer, K) /\ Live(t.peer, active \cup t.taken)
<1> DEFINE r == s.peer[p]
           items == Wanted(r, s.taken)
           t == RequestFrom(s, p)
           u == [r EXCEPT !.requested = @ \cup Range(items), !.out = Append(@, <<"get", items>>)]
<1>0. PeerOk(r, K) /\ r \in PeerRec
  BY DEF PeersOk, PeerOk, Sound
<1>1. items \in Seq(Blocks) /\ IsInjective(items) /\ (items # <<>> => Idle(r) /\ r.conn = "active")
  BY <1>0, WantedFacts
<1>2. t = IF items = <<>> THEN s ELSE [taken |-> s.taken \cup Range(items), peer |-> [s.peer EXCEPT ![p] = u]]
  BY DEF RequestFrom
<1> HIDE DEF items, t
<1>3. CASE items = <<>>
  <2>1. t = s
    BY <1>2, <1>3
  <2> QED  BY <2>1 DEF t
<1>4. CASE items # <<>>
  <2>1. u = Requesting(r, Range(items), {}, items)
    <3>1. r.requested = {} /\ r.normal = {}
      BY <1>1, <1>4 DEF Idle
    <3> DEFINE z == r
    <3>2. z \in PeerRec /\ z.requested = {} /\ z.normal = {}
      BY <1>0, <3>1
    <3> HIDE DEF z
    <3>3. [z EXCEPT !.requested = z.requested \cup Range(items), !.out = Append(z.out, <<"get", items>>)]
           = [z EXCEPT !.requested = Range(items), !.normal = {}, !.out = Append(z.out, <<"get", items>>)]
      BY <3>2 DEF PeerRec
    <3>4. u = [z EXCEPT !.requested = z.requested \cup Range(items), !.out = Append(z.out, <<"get", items>>)]
      BY <1>0 DEF PeerRec, z
    <3> QED  BY <3>3, <3>4 DEF Requesting, z
  <2>2. PeerOk(u, K) /\ u.requested = Range(items) /\ r.requested = {}
    BY <1>0, <1>1, <1>4, <2>1, GetOk
  <2> HIDE DEF u
  <2> DEFINE ps == [s.peer EXCEPT ![p] = u]
  <2>3. t = [taken |-> s.taken \cup Range(items), peer |-> ps]
    BY <1>2, <1>4
  <2>4. s.peer = [q \in Peers |-> s.peer[q]] /\ \A q \in Peers : PeerOk(s.peer[q], K)
    BY DEF PeersOk
  <2>5. ps[p] = u /\ (\A q \in Peers : q # p => ps[q] = s.peer[q]) /\ ps = [q \in Peers |-> ps[q]]
    BY <2>4
  <2> HIDE DEF ps
  <2>6. PeersOk(ps, K)
    BY <2>2, <2>4, <2>5 DEF PeersOk
  <2>7. Live(ps, active \cup (s.taken \cup Range(items)))
    <3> SUFFICES ASSUME NEW b \in active \cup (s.taken \cup Range(items)) PROVE \E q \in Peers : b \in ps[q].requested
      BY DEF Live
    <3>1. CASE b \in Range(items)
      BY <2>2, <2>5, <3>1
    <3>2. CASE b \notin Range(items)
      <4>1. PICK q \in Peers : b \in s.peer[q].requested
        BY <3>2 DEF Live
      <4>2. q # p
        BY <4>1, <2>2
      <4> QED  BY <4>1, <4>2, <2>5
    <3> QED  BY <3>1, <3>2
  <2>8. t.taken = s.taken \cup Range(items) /\ t.peer = ps /\ t = [peer |-> t.peer, taken |-> t.taken]
    BY <2>3
  <2> QED  BY <2>6, <2>7, <2>8 DEF t
<1> QED  BY <1>3, <1>4

Requested(f, k, order) == IF k = 0 THEN [peer |-> peer, taken |-> {}] ELSE RequestFrom(f[k - 1], order[k])

LEMMA RequestedExist ==
  ASSUME NEW order, NEW n \in Nat
  PROVE  \E f : f = [k \in 0 .. n |-> Requested(f, k, order)]
<1> DEFINE P(m) == \E f : f = [k \in 0 .. m |-> Requested(f, k, order)]
           G == {m \in Nat : P(m)}
<1>1. P(0)
  <2> DEFINE f == [k \in 0 .. 0 |-> [peer |-> peer, taken |-> {}]]
  <2>1. f = [k \in 0 .. 0 |-> Requested(f, k, order)]
    BY DEF Requested
  <2> QED  BY <2>1
<1>2. ASSUME NEW m \in Nat, P(m) PROVE P(m + 1)
  <2>1. PICK f : f = [k \in 0 .. m |-> Requested(f, k, order)]
    BY <1>2
  <2> DEFINE g == [k \in 0 .. m + 1 |-> IF k = m + 1 THEN Requested(f, k, order) ELSE f[k]]
  <2>2. ASSUME NEW k \in 0 .. m + 1 PROVE g[k] = Requested(g, k, order)
    <3>1. g[k] = Requested(f, k, order)
      BY <2>1
    <3>2. k # 0 => g[k - 1] = f[k - 1]
      OBVIOUS
    <3> HIDE DEF g
    <3> QED  BY <3>1, <3>2 DEF Requested
  <2>3. g = [k \in 0 .. m + 1 |-> Requested(g, k, order)]
    BY <2>2
  <2> QED  BY <2>3
<1> HIDE DEF P
<1>3. Nat \subseteq G
  <2>1. 0 \in G /\ \A m \in Nat : m \in G => m + 1 \in G
    BY <1>1, <1>2
  <2> QED  BY ONLY <2>1, Numbers
<1>4. P(n)
  BY <1>3
<1> QED  BY <1>4 DEF P

LEMMA RequestAllOk ==
  ASSUME NEW K, PeersOk(peer, K), Live(peer, active), NEW order \in Orders
  PROVE  PeersOk(RequestAll(order).peer, K) /\ Live(RequestAll(order).peer, active \cup RequestAll(order).taken)
<1> DEFINE n == Cardinality(Peers)
           f == CHOOSE g : g = [k \in 0 .. n |-> Requested(g, k, order)]
<1>1. RequestAll(order) = f[n]
  BY DEF RequestAll, Requested
<1>2. n \in Nat /\ \A k \in 1 .. n : order[k] \in Peers
  BY PeerSyncAssumption, FS_CardinalityType DEF Orders
<1> HIDE DEF n
<1>3. f = [k \in 0 .. n |-> Requested(f, k, order)]
  <2>1. \E g : g = [k \in 0 .. n |-> Requested(g, k, order)]
    BY ONLY <1>2, RequestedExist
  <2> QED  BY <2>1
<1> HIDE DEF f
<1> DEFINE Good(s) == s = [peer |-> s.peer, taken |-> s.taken] /\ PeersOk(s.peer, K) /\ Live(s.peer, active \cup s.taken)
           G == {k \in 0 .. n : Good(f[k])}
<1>4. 0 \in G
  <2>1. f[0] = [peer |-> peer, taken |-> {}]
    BY <1>2, <1>3 DEF Requested
  <2>2. f[0] = [peer |-> f[0].peer, taken |-> f[0].taken] /\ f[0].peer = peer /\ active \cup f[0].taken = active
    BY <2>1
  <2>3. Good(f[0])
    BY <2>2
  <2> HIDE DEF Good
  <2> QED  BY <1>2, <2>3
<1>5. ASSUME NEW k \in 0 .. n - 1, k \in G PROVE k + 1 \in G
  <2>1. k + 1 \in 1 .. n /\ (k + 1) - 1 = k /\ k + 1 # 0 /\ k + 1 \in 0 .. n
    BY <1>2
  <2>2. f[k + 1] = RequestFrom(f[k], order[k + 1])
    BY <1>3, <2>1 DEF Requested
  <2>3. Good(f[k]) /\ order[k + 1] \in Peers
    BY <1>2, <1>5, <2>1
  <2>4. Good(RequestFrom(f[k], order[k + 1]))
    BY <2>3, RequestFromOk
  <2> QED  BY <2>1, <2>2, <2>4
<1>6. 0 .. n \subseteq G
  <2> HIDE DEF G
  <2> QED  BY ONLY <1>2, <1>4, <1>5, NumbersTo
<1>7. Good(f[n])
  BY <1>2, <1>6
<1> QED  BY <1>1, <1>7

LEMMA FetchSyncItemsKeeps ==
  ASSUME IInv, FetchSyncItems
  PROVE  IInv'
<1>1. UNCHANGED <<have, head, recent, handled, fresh, received, toFetch, peerHead, accused>>
  BY DEF FetchSyncItems, chainVars, itemVars, peerVars
<1>2. PeersOk(peer', Known) /\ Live(peer', active')
  <2>1. PeersOk(peer, Known) /\ Live(peer, active)
    BY Facts
  <2>2. CASE UNCHANGED <<peer, active>>
    BY <2>1, <2>2
  <2>3. CASE ~UNCHANGED <<peer, active>>
    <3>1. PICK order \in Orders : peer' = RequestAll(order).peer /\ active' = active \cup RequestAll(order).taken
      BY <2>3 DEF FetchSyncItems
    <3> QED  BY <2>1, <3>1, RequestAllOk
  <2> QED  BY <2>2, <2>3
<1> QED  BY <1>1, <1>2, Facts, ChainStays

LEMMA RemoveAtOk ==
  ASSUME NEW S, NEW s \in Seq(S), NEW i \in 1 .. Len(s)
  PROVE  RemoveAt(s, i) \in Seq(S)
<1>1. Len(s) \in Nat
  BY Elements
<1>2. 1 \in 1 .. Len(s) + 1 /\ i - 1 \in 1 - 1 .. Len(s) /\ i + 1 \in 1 .. Len(s) + 1 /\ Len(s) \in (i + 1) - 1 .. Len(s)
  BY <1>1
<1>3. SubSeq(s, 1, i - 1) \in Seq(S)
  BY <1>2, Slices
<1>4. SubSeq(s, i + 1, Len(s)) \in Seq(S)
  BY <1>2, Slices
<1> QED  BY <1>3, <1>4, Concats DEF RemoveAt

LEMMA RemoveFirstOk ==
  ASSUME NEW s \in Seq(Blocks), NEW b
  PROVE  RemoveFirst(s, b) \in Seq(Blocks)
<1> DEFINE I == {i \in 1 .. Len(s) : s[i] = b}
<1>1. RemoveFirst(s, b) = IF \E i \in 1 .. Len(s) : s[i] = b THEN RemoveAt(s, IF I # {} THEN Min(I) ELSE 0) ELSE s
  BY DEF RemoveFirst, SelectInSeq
<1>2. CASE \E i \in 1 .. Len(s) : s[i] = b
  <2>1. I # {} /\ I \subseteq Nat
    BY <1>2
  <2>2. Min(I) \in 1 .. Len(s)
    BY <2>1, MinIn
  <2> HIDE DEF I
  <2>3. RemoveAt(s, Min(I)) \in Seq(Blocks)
    BY <2>2, RemoveAtOk
  <2> QED  BY <1>1, <1>2, <2>1, <2>3
<1>3. CASE ~\E i \in 1 .. Len(s) : s[i] = b
  BY <1>1, <1>3
<1> QED  BY <1>2, <1>3

LEMMA OrdersAre ==
  ASSUME NEW order \in Orders
  PROVE  Cardinality(Peers) \in Nat /\ Len(order) = Cardinality(Peers) /\ \A k \in 1 .. Len(order) : order[k] \in Peers
<1> DEFINE n == Cardinality(Peers)
<1>1. n \in Nat /\ order \in [1 .. n -> Peers]
  BY PeerSyncAssumption, FS_CardinalityType DEF Orders
<1> HIDE DEF n
<1>2. order \in Seq(Peers)
  BY ONLY <1>1
<1>3. DOMAIN order = 1 .. Len(order) /\ Len(order) \in Nat /\ DOMAIN order = 1 .. n
  BY <1>1, <1>2, Elements
<1>4. Len(order) = n
  BY ONLY <1>1, <1>3
<1> QED  BY <1>1, <1>4 DEF n

Fetching(s, K) == s = [left |-> s.left, peer |-> s.peer] /\ s.left \in Seq(Blocks) /\ PeersOk(s.peer, K) /\ Live(s.peer, active)

LEMMA FetchItemOk ==
  ASSUME NEW K, NEW s, Fetching(s, K), NEW b \in Blocks, NEW order \in Orders
  PROVE  Fetching(FetchItem(s, b, order), K)
<1> DEFINE Test(p) == p \in Active(s.peer) /\ Idle(s.peer[p]) /\ b \in s.peer[p].offered
           I == {k \in 1 .. Len(order) : Test(order[k])}
           i == IF I # {} THEN Min(I) ELSE 0
           p == order[i]
           r == s.peer[p]
           u == [r EXCEPT !.normal = {b}, !.out = Append(@, <<"get", <<b>> >>)]
           t == FetchItem(s, b, order)
<1>1. t = IF i = 0 THEN s ELSE [left |-> RemoveFirst(s.left, b), peer |-> [s.peer EXCEPT ![p] = u]]
  BY DEF FetchItem, SelectInSeq
<1>2. i # 0 => I # {}
  OBVIOUS
<1>3. I \subseteq Nat
  BY OrdersAre
<1>4. i # 0 => i \in I
  BY <1>3, MinIn
<1>5. i # 0 => p \in Peers /\ Idle(r)
  BY <1>4, OrdersAre
<1> HIDE DEF i, t
<1>6. CASE i = 0
  <2>1. t = s
    BY <1>1, <1>6
  <2> QED  BY <2>1 DEF t
<1>7. CASE i # 0
  <2>0. p \in Peers /\ Idle(r)
    BY <1>5, <1>7
  <2> HIDE DEF p
  <2>1. PeerOk(r, K) /\ r \in PeerRec /\ s.left \in Seq(Blocks)
    BY <2>0 DEF Fetching, PeersOk, PeerOk, Sound
  <2> DEFINE items == <<b>>
  <2>2. items \in Seq(Blocks) /\ items # <<>> /\ IsInjective(items) /\ Range(items) = {b}
    <3>1. items \in Seq(Blocks) /\ Len(items) = 1 /\ items[1] = b /\ DOMAIN items = {1}
      OBVIOUS
    <3>2. items # <<>>
      BY <3>1, EmptySeq
    <3> HIDE DEF items
    <3> QED  BY <3>1, <3>2 DEF IsInjective, Range
  <2>3. u = Requesting(r, {}, Range(items), items)
    <3>1. r.requested = {} /\ r.normal = {}
      BY <2>0 DEF Idle
    <3> DEFINE z == r
    <3>2. z \in PeerRec /\ z.requested = {} /\ z.normal = {}
      BY <2>1, <3>1
    <3>3. u = [z EXCEPT !.normal = {b}, !.out = Append(z.out, <<"get", items>>)]
      BY <2>1 DEF PeerRec
    <3> HIDE DEF z, items
    <3>4. [z EXCEPT !.normal = {b}, !.out = Append(z.out, <<"get", items>>)]
           = [z EXCEPT !.requested = {}, !.normal = {b}, !.out = Append(z.out, <<"get", items>>)]
      BY <3>2 DEF PeerRec
    <3> QED  BY <2>2, <3>3, <3>4 DEF Requesting, z
  <2> HIDE DEF items, u
  <2>4. PeerOk(u, K) /\ u.requested = {} /\ r.requested = {}
    <3>1. PICK q, n : q = {} /\ n = Range(items)
      OBVIOUS
    <3>2. u = Requesting(r, q, n, items)
      BY <2>3, <3>1
    <3>3. PICK z : z = r
      OBVIOUS
    <3>4. PeerOk(z, K) /\ Idle(z) /\ items \in Seq(Blocks) /\ items # <<>> /\ IsInjective(items) /\ u = Requesting(z, q, n, items)
      BY <2>0, <2>1, <2>2, <3>2, <3>3
    <3>5. PeerOk(u, K) /\ u.requested = q /\ z.requested = {}
      BY ONLY <3>1, <3>4, GetOk
    <3> QED  BY <3>1, <3>3, <3>5
  <2>5. PeersOk([s.peer EXCEPT ![p] = u], K) /\ Live([s.peer EXCEPT ![p] = u], active)
    <3>1. K \subseteq K /\ active \subseteq active /\ (\A c \in s.peer[p].requested : c \in active => c \in u.requested)
          /\ PeersOk(s.peer, K) /\ Live(s.peer, active)
      BY <2>4 DEF Fetching
    <3> QED  BY ONLY <2>0, <2>4, <3>1, OneChanges
  <2>6. RemoveFirst(s.left, b) \in Seq(Blocks)
    BY <2>1, RemoveFirstOk
  <2>7. t = [left |-> RemoveFirst(s.left, b), peer |-> [s.peer EXCEPT ![p] = u]]
    BY <1>1, <1>7
  <2> DEFINE qs == [s.peer EXCEPT ![p] = u]
  <2>8. t.left = RemoveFirst(s.left, b) /\ t.peer = qs /\ t = [left |-> t.left, peer |-> t.peer]
    BY <2>7
  <2>9. PeersOk(qs, K) /\ Live(qs, active)
    BY <2>5
  <2> HIDE DEF qs
  <2>10. Fetching(t, K)
    BY <2>6, <2>8, <2>9 DEF Fetching
  <2> QED  BY <2>10 DEF t
<1> QED  BY <1>6, <1>7

Fetched(f, k, order) == IF k = 0 THEN [left |-> toFetch, peer |-> peer] ELSE FetchItem(f[k - 1], toFetch[k], order)

LEMMA FetchedExist ==
  ASSUME NEW order, NEW n \in Nat
  PROVE  \E f : f = [k \in 0 .. n |-> Fetched(f, k, order)]
<1> DEFINE P(m) == \E f : f = [k \in 0 .. m |-> Fetched(f, k, order)]
           G == {m \in Nat : P(m)}
<1>1. P(0)
  <2> DEFINE f == [k \in 0 .. 0 |-> [left |-> toFetch, peer |-> peer]]
  <2>1. f = [k \in 0 .. 0 |-> Fetched(f, k, order)]
    BY DEF Fetched
  <2> QED  BY <2>1
<1>2. ASSUME NEW m \in Nat, P(m) PROVE P(m + 1)
  <2>1. PICK f : f = [k \in 0 .. m |-> Fetched(f, k, order)]
    BY <1>2
  <2> DEFINE g == [k \in 0 .. m + 1 |-> IF k = m + 1 THEN Fetched(f, k, order) ELSE f[k]]
  <2>2. ASSUME NEW k \in 0 .. m + 1 PROVE g[k] = Fetched(g, k, order)
    <3>1. g[k] = Fetched(f, k, order)
      BY <2>1
    <3>2. k # 0 => g[k - 1] = f[k - 1]
      OBVIOUS
    <3> HIDE DEF g
    <3> QED  BY <3>1, <3>2 DEF Fetched
  <2>3. g = [k \in 0 .. m + 1 |-> Fetched(g, k, order)]
    BY <2>2
  <2> QED  BY <2>3
<1> HIDE DEF P
<1>3. Nat \subseteq G
  <2>1. 0 \in G /\ \A m \in Nat : m \in G => m + 1 \in G
    BY <1>1, <1>2
  <2> QED  BY ONLY <2>1, Numbers
<1>4. P(n)
  BY <1>3
<1> QED  BY <1>4 DEF P

LEMMA FetchEachOk ==
  ASSUME NEW K, PeersOk(peer, K), Live(peer, active), toFetch \in Seq(Blocks), NEW order \in Orders
  PROVE  Fetching(FetchEach(order), K)
<1> DEFINE n == Len(toFetch)
           f == CHOOSE g : g = [k \in 0 .. n |-> Fetched(g, k, order)]
<1>1. FetchEach(order) = f[n]
  BY DEF FetchEach, Fetched
<1>2. n \in Nat /\ \A k \in 1 .. n : toFetch[k] \in Blocks
  BY Elements
<1> HIDE DEF n
<1>3. f = [k \in 0 .. n |-> Fetched(f, k, order)]
  <2>1. \E g : g = [k \in 0 .. n |-> Fetched(g, k, order)]
    BY ONLY <1>2, FetchedExist
  <2> QED  BY <2>1
<1> HIDE DEF f
<1> DEFINE G == {k \in 0 .. n : Fetching(f[k], K)}
<1>4. 0 \in G
  <2>1. f[0] = [left |-> toFetch, peer |-> peer]
    BY <1>2, <1>3 DEF Fetched
  <2>2. f[0] = [left |-> f[0].left, peer |-> f[0].peer] /\ f[0].peer = peer /\ f[0].left = toFetch
    BY <2>1
  <2>3. Fetching(f[0], K)
    BY <2>2 DEF Fetching
  <2> QED  BY <1>2, <2>3
<1>5. ASSUME NEW k \in 0 .. n - 1, k \in G PROVE k + 1 \in G
  <2>1. k + 1 \in 1 .. n /\ (k + 1) - 1 = k /\ k + 1 # 0 /\ k + 1 \in 0 .. n
    BY <1>2
  <2>2. f[k + 1] = FetchItem(f[k], toFetch[k + 1], order)
    BY <1>3, <2>1 DEF Fetched
  <2>3. Fetching(f[k], K) /\ toFetch[k + 1] \in Blocks
    BY <1>2, <1>5, <2>1
  <2>4. Fetching(FetchItem(f[k], toFetch[k + 1], order), K)
    BY <2>3, FetchItemOk
  <2> QED  BY <2>1, <2>2, <2>4
<1>6. 0 .. n \subseteq G
  <2> HIDE DEF G
  <2> QED  BY ONLY <1>2, <1>4, <1>5, NumbersTo
<1>7. Fetching(f[n], K)
  BY <1>2, <1>6
<1> QED  BY <1>1, <1>7

LEMMA FetchItemsKeeps ==
  ASSUME IInv, FetchItems
  PROVE  IInv'
<1>1. UNCHANGED <<have, head, recent, handled, fresh, received, active, peerHead, accused>>
  BY DEF FetchItems, chainVars, syncVars, peerVars
<1>2. PICK order \in Orders : toFetch' = FetchEach(order).left /\ peer' = FetchEach(order).peer
  BY DEF FetchItems
<1>3. Fetching(FetchEach(order), Known)
  BY Facts, FetchEachOk
<1>4. PeersOk(peer', Known) /\ Live(peer', active) /\ toFetch' \in Seq(Blocks)
  BY <1>2, <1>3 DEF Fetching
<1> QED  BY <1>1, <1>4, Facts, ChainStays

(***************************************************************************)
(* The loop that takes blocks from what was received.                      *)
(***************************************************************************)

\* The next id of a peer is taken.
Advanced(r, b) == [r EXCEPT !.toGet = Tail(@), !.processing = @ \cup {b}]

LEMMA TakenOk ==
  ASSUME NEW r, NEW K, PeerOk(r, K), NEW b \in Blocks, NextId(r) = b, NEW L, K \subseteq L, b \in L
  PROVE  PeerOk(Advanced(r, b), L) /\ Advanced(r, b).requested = r.requested
<1> DEFINE ids == r.toGet
           t == Tail(ids)
           n == r.processing \cup {b}
           s == Advanced(r, b)
<1>1. r \in PeerRec /\ ids \in Seq(Blocks) /\ n \in SUBSET Blocks /\ Linked(ids) /\ r.lastSeen \in K
  BY DEF PeerOk, Sound, Route, PeerRec
<1>2. ids # <<>> /\ ids[1] = b
  BY HeadsAre DEF NextId
<1>3. t \in Seq(Blocks) /\ Len(t) = Len(ids) - 1 /\ Len(ids) > 0 /\ Len(ids) \in Nat /\ \A i \in 1 .. Len(ids) - 1 : t[i] = ids[i + 1]
  BY <1>1, <1>2, Tails
<1>4. s = [r EXCEPT !.toGet = t, !.processing = n]
  BY <1>1 DEF PeerRec, Advanced
<1>5. Range(ids) \subseteq L \cup Range(t)
  <2>1. Range(ids) = {ids[i] : i \in 1 .. Len(ids)} /\ Range(t) = {t[i] : i \in 1 .. Len(t)}
    BY <1>1, <1>3, Elements
  <2>2. ASSUME NEW i \in 1 .. Len(ids) PROVE ids[i] \in L \cup Range(t)
    <3>1. CASE i = 1
      BY <1>2, <3>1
    <3>2. CASE i # 1
      <4>1. i - 1 \in 1 .. Len(ids) - 1 /\ (i - 1) + 1 = i
        BY <1>3, <3>2
      <4>2. t[i - 1] = ids[i] /\ i - 1 \in 1 .. Len(t)
        BY <1>3, <4>1
      <4> QED  BY <2>1, <4>2
    <3> QED  BY <3>1, <3>2
  <2> QED  BY <2>1, <2>2
<1>6. Linked(t)
  <2> SUFFICES ASSUME NEW i \in 1 .. Len(t) - 1 PROVE Parent[t[i + 1]] = t[i]
    BY DEF Linked
  <2>1. i \in 1 .. Len(ids) - 1 /\ i + 1 \in 1 .. Len(ids) - 1
    BY <1>3
  <2> QED  BY <1>1, <1>3, <2>1 DEF Linked
<1>7. t # <<>> => Parent[t[1]] \in L
  <2> SUFFICES ASSUME t # <<>> PROVE Parent[t[1]] \in L
    OBVIOUS
  <2>1. 1 \in 1 .. Len(ids) - 1
    BY <1>3, Elements
  <2>2. t[1] = ids[1 + 1] /\ Parent[ids[1 + 1]] = ids[1]
    BY <1>1, <1>3, <2>1 DEF Linked
  <2> QED  BY <1>2, <2>2
<1> HIDE DEF t, n, s
<1>8. s \in PeerRec /\ s.in = r.in /\ s.out = r.out /\ s.requested = r.requested /\ s.normal = r.normal
      /\ s.conn = r.conn /\ s.toGet = t /\ s.lastSeen = r.lastSeen /\ s.asked = r.asked
  BY <1>1, <1>3, <1>4 DEF PeerRec
<1>9. Sound(s)
  BY <1>8 DEF PeerOk, Sound
<1>10. Route(s, L)
  BY <1>1, <1>6, <1>7, <1>8 DEF PeerOk, Route
<1>11. Awaits(s, L)
  <2> SUFFICES ASSUME NEW syn \in r.asked PROVE syn \subseteq L \cup Range(t) /\ syn # {}
    BY <1>8 DEF Awaits
  <2>1. syn \subseteq K \cup Range(ids) /\ (syn = {} => ids = <<>>)
    BY DEF PeerOk, Awaits
  <2> QED  BY <1>2, <1>5, <2>1
<1> QED  BY <1>8, <1>9, <1>10, <1>11 DEF PeerOk, s

Passing(s) ==
  /\ s = [peer |-> s.peer, blocks |-> s.blocks, handled |-> s.handled, go |-> s.go, suspended |-> s.suspended]
  /\ s.blocks \in Seq(Blocks) /\ Links(s.handled)
  /\ PeersOk(s.peer, KnownWith(s.handled)) /\ Live(s.peer, active)

\* A block whose parent is known goes behind the queue.
LEMMA LinksMore ==
  ASSUME NEW queue, Links(queue), NEW b \in Blocks, Parent[b] \in KnownWith(queue)
  PROVE  Links(Append(queue, b)) /\ KnownWith(Append(queue, b)) = KnownWith(queue) \cup {b}
<1> DEFINE n == Len(queue)
           l == Append(queue, b)
<1>1. queue \in Seq(Blocks) /\ n \in Nat /\ Range(queue) = {queue[i] : i \in 1 .. n}
  BY Elements DEF Links
<1>2. l \in Seq(Blocks) /\ Len(l) = n + 1 /\ l[n + 1] = b /\ \A i \in 1 .. n : l[i] = queue[i]
  BY <1>1, Appends
<1>3. Range(l) = {l[i] : i \in 1 .. n + 1}
  BY <1>2, Elements
<1> HIDE DEF l, n
<1>4. ASSUME NEW i \in 1 .. n + 1 PROVE Parent[l[i]] \in have \cup {0} \cup {l[j] : j \in 1 .. i - 1}
  <2>1. CASE i = n + 1
    <3>1. {l[j] : j \in 1 .. i - 1} = Range(queue)
      <4>1. i - 1 = n
        BY <1>1, <2>1
      <4>2. {l[j] : j \in 1 .. n} = {queue[j] : j \in 1 .. n}
        BY <1>2
      <4> QED  BY <1>1, <4>1, <4>2
    <3> QED  BY <1>2, <2>1, <3>1 DEF KnownWith
  <2>2. CASE i # n + 1
    <3>1. i \in 1 .. n
      BY <1>1, <2>2
    <3>2. Parent[queue[i]] \in have \cup {0} \cup {queue[j] : j \in 1 .. i - 1}
      BY <3>1 DEF Links, n
    <3>3. \A j \in 1 .. i - 1 : l[j] = queue[j]
      BY <1>1, <1>2, <3>1
    <3>4. l[i] = queue[i]
      BY <1>2, <3>1
    <3> QED  BY <3>2, <3>3, <3>4
  <2> QED  BY <2>1, <2>2
<1>5. Range(l) = Range(queue) \cup {b}
  <2>1. ASSUME NEW i \in 1 .. n + 1 PROVE l[i] \in Range(queue) \cup {b}
    BY <1>1, <1>2
  <2>2. ASSUME NEW i \in 1 .. n PROVE queue[i] \in Range(l)
    BY <1>1, <1>2, <1>3
  <2>3. b \in Range(l)
    BY <1>1, <1>2, <1>3
  <2> QED  BY <1>1, <1>3, <2>1, <2>2, <2>3
<1>6. Links(l)
  BY <1>2, <1>4 DEF Links
<1> QED  BY <1>5, <1>6 DEF KnownWith, l

\* Every peer whose next id is the block goes on to the next one.
LEMMA TakenAllOk ==
  ASSUME NEW ps, NEW K, PeersOk(ps, K), NEW on, Live(ps, on), NEW b \in Blocks, NEW L, K \subseteq L, b \in L
  PROVE  PeersOk(Taken(ps, b), L) /\ Live(Taken(ps, b), on)
<1> DEFINE qs == Taken(ps, b)
<1>1. qs = [q \in Peers |-> qs[q]]
  BY DEF Taken
<1>2. ASSUME NEW q \in Peers PROVE PeerOk(qs[q], L) /\ ps[q].requested \subseteq qs[q].requested
  <2>1. PeerOk(ps[q], K)
    BY DEF PeersOk
  <2>2. qs[q] = IF q \in Active(ps) /\ NextId(ps[q]) = b THEN Advanced(ps[q], b) ELSE ps[q]
    BY DEF Taken, Advanced
  <2>3. NextId(ps[q]) = b => PeerOk(Advanced(ps[q], b), L) /\ Advanced(ps[q], b).requested = ps[q].requested
    BY <2>1, TakenOk
  <2>4. PeerOk(ps[q], L)
    BY <2>1, PeerOkMore
  <2> HIDE DEF qs
  <2> QED  BY <2>2, <2>3, <2>4
<1> HIDE DEF qs
<1>3. PeersOk(qs, L) /\ Live(qs, on)
  BY ONLY <1>1, <1>2, AllChange, Live(ps, on)
<1> QED  BY <1>3 DEF qs

\* What a pass does with a block that the chain accepted not long ago.
Settled(t, b) == [p \in Peers |-> IF p \in Active(t) THEN Finished(t[p], b, head) ELSE t[p]]

LEMMA SettledOk ==
  ASSUME NEW ps, NEW K, PeersOk(ps, K), NEW on, Live(ps, on), NEW b, Rooted(K), head \in K, Lib <= Num(head)
  PROVE  PeersOk(Settled(ps, b), K) /\ Live(Settled(ps, b), on)
<1> DEFINE qs == Settled(ps, b)
<1>1. qs = [q \in Peers |-> qs[q]]
  BY DEF Settled
<1>2. ASSUME NEW q \in Peers PROVE PeerOk(qs[q], K) /\ ps[q].requested \subseteq qs[q].requested
  <2>1. PeerOk(ps[q], K)
    BY DEF PeersOk
  <2>2. qs[q] \in {Finished(ps[q], b, head), ps[q]}
    BY DEF Settled
  <2>3. PeerOk(Finished(ps[q], b, head), K) /\ Finished(ps[q], b, head).requested = ps[q].requested
    BY <2>1, FinishedOk
  <2> HIDE DEF qs
  <2> QED  BY <2>1, <2>2, <2>3
<1> HIDE DEF qs
<1>3. PeersOk(qs, K) /\ Live(qs, on)
  BY ONLY <1>1, <1>2, AllChange, Live(ps, on)
<1> QED  BY <1>3 DEF qs

\* A pass takes a block whose parent is known, or ends the loop.
LEMMA PassOk ==
  ASSUME ChainOk, NEW s, Passing(s)
  PROVE  Passing(Pass(s))
<1> DEFINE Next1(c) == \E p \in Active(s.peer) : NextId(s.peer[p]) = c
           I == {k \in 1 .. Len(s.blocks) : Next1(s.blocks[k])}
           i == IF I # {} THEN Min(I) ELSE 0
           b == s.blocks[i]
           t == Taken(s.peer, b)
           h == Append(s.handled, b)
           left == RemoveAt(s.blocks, i)
           full == Len(h) >= MaxHandled
           e == Pass(s)
           K == KnownWith(s.handled)
<1>1. e = IF i = 0 THEN [s EXCEPT !.go = FALSE]
          ELSE IF b \notin recent
            THEN [peer |-> t, blocks |-> left, handled |-> h, go |-> ~full, suspended |-> full /\ Len(left) >= MaxReceived]
          ELSE [s EXCEPT !.go = FALSE, !.peer = Settled(t, b)]
  BY DEF Pass, SelectInSeq, Settled
<1>2. s.blocks \in Seq(Blocks) /\ Links(s.handled) /\ PeersOk(s.peer, K) /\ Live(s.peer, active)
      /\ s = [peer |-> s.peer, blocks |-> s.blocks, handled |-> s.handled, go |-> s.go, suspended |-> s.suspended]
  BY DEF Passing
<1>3. I \subseteq Nat
  OBVIOUS
<1>4. i # 0 => i \in I
  BY <1>3, MinIn
<1>5. i # 0 => i \in 1 .. Len(s.blocks) /\ b \in Blocks /\ Next1(b)
  BY <1>2, <1>4, Elements
<1>6. Rooted(K) /\ head \in K /\ Lib <= Num(head) /\ recent \subseteq K
  <2>1. have \subseteq Blocks /\ \A c \in have : Parent[c] \in have \cup {0}
    BY DEF ChainOk
  <2>2. Rooted(K)
    BY <1>2, <2>1, QueueRooted
  <2> QED  BY <2>2 DEF ChainOk, KnownWith
<1>7. CASE i = 0
  <2>1. e = [s EXCEPT !.go = FALSE]
    BY <1>1, <1>7
  <2> HIDE DEF e
  <2>2. e = [peer |-> e.peer, blocks |-> e.blocks, handled |-> e.handled, go |-> e.go, suspended |-> e.suspended]
        /\ e.peer = s.peer /\ e.blocks = s.blocks /\ e.handled = s.handled
    BY <1>2, <2>1
  <2>3. Passing(e)
    BY <1>2, <2>2 DEF Passing
  <2> QED  BY <2>3 DEF e
<1>8. CASE i # 0
  <2>1. i \in 1 .. Len(s.blocks) /\ b \in Blocks
    BY <1>5, <1>8
  <2>2. PICK p \in Active(s.peer) : NextId(s.peer[p]) = b
    BY <1>5, <1>8
  <2> HIDE DEF i, b
  <2>3. Parent[b] \in K
    <3>1. p \in Peers
      BY DEF Active
    <3>2. PeerOk(s.peer[p], K)
      BY <1>2, <3>1 DEF PeersOk
    <3>3. s.peer[p].toGet # <<>> /\ s.peer[p].toGet[1] = b
      BY <2>1, <2>2, HeadsAre DEF NextId
    <3> QED  BY <3>2, <3>3 DEF PeerOk, Route
  <2>4. CASE b \notin recent
    <3>1. Links(h) /\ KnownWith(h) = K \cup {b}
      BY <1>2, <2>1, <2>3, LinksMore
    <3>2. left \in Seq(Blocks)
      BY <1>2, <2>1, RemoveAtOk
    <3>3. PeersOk(t, KnownWith(h)) /\ Live(t, active)
      <4>1. K \subseteq KnownWith(h) /\ b \in KnownWith(h)
        BY <3>1
      <4> HIDE DEF K, h
      <4> QED  BY <1>2, <2>1, <4>1, TakenAllOk
    <3>4. e = [peer |-> t, blocks |-> left, handled |-> h, go |-> ~full, suspended |-> full /\ Len(left) >= MaxReceived]
      BY <1>1, <1>8, <2>4
    <3> HIDE DEF e, t, left, h, full
    <3>5. e.peer = t /\ e.blocks = left /\ e.handled = h
          /\ e = [peer |-> e.peer, blocks |-> e.blocks, handled |-> e.handled, go |-> e.go, suspended |-> e.suspended]
      BY <3>4
    <3>6. Passing(e)
      BY <3>1, <3>2, <3>3, <3>5 DEF Passing
    <3> QED  BY <3>6 DEF e
  <2>5. CASE b \in recent
    <3>1. b \in K
      BY <1>6, <2>5
    <3>2. PeersOk(t, K) /\ Live(t, active)
      <4> HIDE DEF K
      <4> QED  BY <1>2, <2>1, <3>1, TakenAllOk
    <3>3. PeersOk(Settled(t, b), K) /\ Live(Settled(t, b), active)
      <4> HIDE DEF K, t
      <4> QED  BY <1>6, <3>2, SettledOk
    <3> DEFINE u == Settled(t, b)
    <3>4. e = [s EXCEPT !.go = FALSE, !.peer = u]
      BY <1>1, <1>8, <2>5
    <3>5. PeersOk(u, K) /\ Live(u, active)
      BY <3>3
    <3> HIDE DEF e, u
    <3>6. e.peer = u /\ e.blocks = s.blocks /\ e.handled = s.handled
          /\ e = [peer |-> e.peer, blocks |-> e.blocks, handled |-> e.handled, go |-> e.go, suspended |-> e.suspended]
      BY <1>2, <3>4
    <3>7. Passing(e)
      BY <1>2, <3>5, <3>6 DEF Passing
    <3> QED  BY <3>7 DEF e
  <2> QED  BY <2>4, <2>5
<1> QED  BY <1>7, <1>8

Passed(f, k, all) ==
  IF k = 0 THEN [peer |-> peer, blocks |-> all, handled |-> handled, go |-> TRUE, suspended |-> FALSE]
  ELSE IF f[k - 1].go THEN Pass(f[k - 1]) ELSE f[k - 1]

LEMMA PassedExist ==
  ASSUME NEW all, NEW n \in Nat
  PROVE  \E f : f = [k \in 0 .. n |-> Passed(f, k, all)]
<1> DEFINE P(m) == \E f : f = [k \in 0 .. m |-> Passed(f, k, all)]
           G == {m \in Nat : P(m)}
<1>1. P(0)
  <2> DEFINE f == [k \in 0 .. 0 |-> [peer |-> peer, blocks |-> all, handled |-> handled, go |-> TRUE, suspended |-> FALSE]]
  <2>1. f = [k \in 0 .. 0 |-> Passed(f, k, all)]
    BY DEF Passed
  <2> QED  BY <2>1
<1>2. ASSUME NEW m \in Nat, P(m) PROVE P(m + 1)
  <2>1. PICK f : f = [k \in 0 .. m |-> Passed(f, k, all)]
    BY <1>2
  <2> DEFINE g == [k \in 0 .. m + 1 |-> IF k = m + 1 THEN Passed(f, k, all) ELSE f[k]]
  <2>2. ASSUME NEW k \in 0 .. m + 1 PROVE g[k] = Passed(g, k, all)
    <3>1. g[k] = Passed(f, k, all)
      BY <2>1
    <3>2. k # 0 => g[k - 1] = f[k - 1]
      OBVIOUS
    <3> HIDE DEF g
    <3> QED  BY <3>1, <3>2 DEF Passed
  <2>3. g = [k \in 0 .. m + 1 |-> Passed(g, k, all)]
    BY <2>2
  <2> QED  BY <2>3
<1> HIDE DEF P
<1>3. Nat \subseteq G
  <2>1. 0 \in G /\ \A m \in Nat : m \in G => m + 1 \in G
    BY <1>1, <1>2
  <2> QED  BY ONLY <2>1, Numbers
<1>4. P(n)
  BY <1>3
<1> QED  BY <1>4 DEF P

LEMMA PassesOk ==
  ASSUME IInv, NEW all \in Seq(Blocks)
  PROVE  Passing(Passes(all))
<1> DEFINE n == Len(all) + 1
           f == CHOOSE g : g = [k \in 0 .. n |-> Passed(g, k, all)]
<1>1. Passes(all) = f[n]
  BY DEF Passes, Passed
<1>2. n \in Nat
  BY Elements
<1> HIDE DEF n
<1>3. f = [k \in 0 .. n |-> Passed(f, k, all)]
  <2>1. \E g : g = [k \in 0 .. n |-> Passed(g, k, all)]
    BY ONLY <1>2, PassedExist
  <2> QED  BY <2>1
<1> HIDE DEF f
<1> DEFINE G == {k \in 0 .. n : Passing(f[k])}
<1>4. 0 \in G
  <2>1. f[0] = [peer |-> peer, blocks |-> all, handled |-> handled, go |-> TRUE, suspended |-> FALSE]
    BY <1>2, <1>3 DEF Passed
  <2> DEFINE s == f[0]
  <2>2. s = [peer |-> s.peer, blocks |-> s.blocks, handled |-> s.handled, go |-> s.go, suspended |-> s.suspended]
        /\ s.peer = peer /\ s.blocks = all /\ s.handled = handled
    BY <2>1
  <2>3. Links(handled) /\ Known = KnownWith(handled) /\ PeersOk(peer, Known) /\ Live(peer, active)
    BY Facts DEF ChainOk, Links, Known, KnownWith
  <2> HIDE DEF s
  <2>4. Passing(s)
    BY <2>2, <2>3 DEF Passing
  <2> QED  BY <1>2, <2>4 DEF s
<1>5. ASSUME NEW k \in 0 .. n - 1, k \in G PROVE k + 1 \in G
  <2>1. k + 1 \in 1 .. n /\ (k + 1) - 1 = k /\ k + 1 # 0 /\ k + 1 \in 0 .. n
    BY <1>2
  <2>2. f[k + 1] \in {Pass(f[k]), f[k]}
    BY <1>3, <2>1 DEF Passed
  <2>3. Passing(f[k]) /\ ChainOk
    BY <1>5, Facts
  <2>4. Passing(Pass(f[k]))
    BY <2>3, PassOk
  <2> QED  BY <2>1, <2>2, <2>3, <2>4
<1>6. 0 .. n \subseteq G
  <2> HIDE DEF G
  <2> QED  BY ONLY <1>2, <1>4, <1>5, NumbersTo
<1>7. Passing(f[n])
  BY <1>2, <1>6
<1> QED  BY <1>1, <1>7

LEMMA ProcessBacklogKeeps ==
  ASSUME IInv, ProcessBacklog
  PROVE  IInv'
<1> DEFINE s == Passes(fresh \o received)
<1>1. UNCHANGED <<have, head, recent, active, toFetch, peerHead, accused>>
  BY DEF ProcessBacklog, chainVars, itemVars, peerVars
<1>2. \/ UNCHANGED <<peer, fresh, received, handled>>
      \/ peer' = s.peer /\ fresh' = <<>> /\ received' = s.blocks /\ handled' = s.handled
  BY DEF ProcessBacklog
<1>3. fresh \o received \in Seq(Blocks)
  BY Facts, Concats
<1>4. Passing(s)
  BY <1>3, PassesOk
<1> HIDE DEF s
<1>5. CASE UNCHANGED <<peer, fresh, received, handled>>
  BY <1>1, <1>5, Facts, ChainStays
<1>6. CASE peer' = s.peer /\ fresh' = <<>> /\ received' = s.blocks /\ handled' = s.handled
  <2>1. fresh' \in Seq(Blocks) /\ received' \in Seq(Blocks) /\ Links(handled') /\ PeersOk(peer', KnownWith(handled')) /\ Live(peer', active')
    BY <1>1, <1>4, <1>6 DEF Passing
  <2>2. ChainOk' /\ Known' = KnownWith(handled')
    <3>1. ChainOk
      BY Facts
    <3>2. ChainOk'
      BY <1>1, <2>1, <3>1 DEF ChainOk, Links
    <3> QED  BY <1>1, <3>2 DEF Known, KnownWith
  <2>3. PeersOk(peer', Known')
    BY <2>1, <2>2
  <2>4. RequestsLive' /\ HonestBlocksKept'
    BY <1>1, <2>1, Facts, LiveIsNext DEF HonestBlocksKept
  <2> QED  BY <1>1, <2>1, <2>2, <2>3, <2>4, Facts DEF IInv, PeersOk
<1> QED  BY <1>2, <1>5, <1>6

(***************************************************************************)
(* The invariant.                                                          *)
(***************************************************************************)

LEMMA InitKeeps == ASSUME Init PROVE IInv
<1>1. InitHead \in Heads /\ PeerHeads \in [Peers -> Heads]
  BY PeerSyncAssumption DEF Heads
<1>2. have = Of(InitHead) /\ head = InitHead /\ recent = {InitHead} /\ handled = <<>> /\ fresh = <<>> /\ received = <<>>
      /\ toFetch = <<>> /\ peerHead = PeerHeads /\ active = {} /\ accused = {} /\ peer = [p \in Peers |-> Closed]
  BY DEF Init
<1>3. have \subseteq Blocks /\ \A b \in have : Parent[b] \in have \cup {0}
  <2>1. /\ Of(InitHead) \subseteq Blocks /\ Num(InitHead) \in Nat
        /\ Of(InitHead) = {Chain[InitHead][i] : i \in 1 .. Num(InitHead)}
        /\ \A i \in 1 .. Num(InitHead) : Chain[InitHead][i] \in Blocks /\ Num(Chain[InitHead][i]) = i
        /\ \A i \in 1 .. Num(InitHead) - 1 : Parent[Chain[InitHead][i + 1]] = Chain[InitHead][i]
    BY <1>1, ChainOf
  <2>2. ASSUME NEW i \in 1 .. Num(InitHead) PROVE Parent[Chain[InitHead][i]] \in Of(InitHead) \cup {0}
    <3>1. CASE i = 1
      <4>1. Chain[InitHead][i] \in Blocks /\ Num(Chain[InitHead][i]) = 1
        BY <2>1, <3>1
      <4> QED  BY <4>1, Before1
    <3>2. CASE i # 1
      <4>1. i - 1 \in 1 .. Num(InitHead) - 1 /\ i - 1 \in 1 .. Num(InitHead) /\ (i - 1) + 1 = i
        BY <2>1, <3>2
      <4> QED  BY <2>1, <4>1
    <3> QED  BY <3>1, <3>2
  <2> QED  BY <1>2, <2>1, <2>2
<1>4. InitHead \in Of(InitHead) \cup {0}
  BY <1>1, ChainOf
<1>5. handled \in Seq(Blocks) /\ 1 .. Len(handled) = {} /\ fresh \in Seq(Blocks) /\ received \in Seq(Blocks) /\ toFetch \in Seq(Blocks)
  BY <1>2, EmptySeq
<1>6. ChainOk
  BY <1>2, <1>3, <1>4, <1>5, IrreversibleShared DEF ChainOk
<1>7. PeersOk(peer, Known)
  <2>1. 0 \in Known /\ 0 \in Heads
    BY HeadsAre DEF Known
  <2>2. PeerOk(Closed, Known)
    BY <2>1, NewPeerOk
  <2> QED  BY <1>2, <2>2 DEF PeersOk
<1> QED  BY <1>1, <1>2, <1>5, <1>6, <1>7 DEF IInv, RequestsLive, HonestBlocksKept

LEMMA NextKeeps == ASSUME IInv, [Next]_vars PROVE IInv'
<1>1. CASE UNCHANGED vars
  <2>1. UNCHANGED <<have, head, recent, handled, fresh, received, active, toFetch, peerHead, peer, accused>>
    BY <1>1 DEF vars, chainVars, syncVars, itemVars, peerVars
  <2> QED  BY <2>1, Facts, ChainStays
<1>2. ASSUME NEW p \in Peers, Handles(p) PROVE IInv'
  BY <1>2, OnAskKeeps, OnIdsKeeps, OnInvKeeps, OnNormalBlockKeeps, OnSyncBlockKeeps DEF Handles
<1>3. ASSUME NEW p \in Peers, Answers(p) PROVE IInv'
  BY <1>3, AnswerIdsKeeps, AnswerItemsKeeps DEF Answers
<1>4. ASSUME NEW p \in Peers, Connect(p) PROVE IInv'
  BY <1>4, ConnectKeeps
<1>5. ASSUME NEW p \in Peers, OnConnectionClosed(p) PROVE IInv'
  BY <1>5, OnConnectionClosedKeeps
<1>6. ASSUME NEW p \in Peers, Timeout(p) \/ TerminateStalled(p) PROVE IInv'
  BY <1>6, TimeoutKeeps
<1>7. ASSUME NEW p \in Peers, NEW b \in Blocks, PeerExtends(p, b) PROVE IInv'
  BY <1>7, PeerExtendsKeeps
<1>8. CASE FetchSyncItems
  BY <1>8, FetchSyncItemsKeeps
<1>9. CASE FetchItems
  BY <1>9, FetchItemsKeeps
<1>10. CASE ProcessBacklog
  BY <1>10, ProcessBacklogKeeps
<1>11. CASE HandleSyncBlock
  BY <1>11, HandleSyncBlockKeeps
<1> QED  BY <1>1, <1>2, <1>3, <1>4, <1>5, <1>6, <1>7, <1>8, <1>9, <1>10, <1>11 DEF Next

LEMMA Invariance == Spec => []IInv
<1>1. Init => IInv
  BY InitKeeps
<1>2. IInv /\ [Next]_vars => IInv'
  BY NextKeeps
<1> QED  BY <1>1, <1>2, PTL DEF Spec

(***************************************************************************)
(* What follows.                                                           *)
(***************************************************************************)

\* However connections are lost and answers delayed, no block stays in
\* _active_sync_requests, where fetch_sync_items_loop passes over it, unless
\* the sync_items_requested_from_peer of some connection has it.
THEOREM RequestsStayLive == Spec => []RequestsLive
<1>1. IInv => RequestsLive
  BY DEF IInv
<1> QED  BY <1>1, Invariance, PTL

\* process_block_message never takes a block of an honest peer for one that
\* nobody asked for, and send_sync_block_to_node_delegate never blames a peer
\* for a block that does not link.
THEOREM HonestBlocksStayKept == Spec => []HonestBlocksKept
<1>1. IInv => HonestBlocksKept
  BY DEF IInv
<1> QED  BY <1>1, Invariance, PTL

\* Whatever the order in which peers deliver, and however forks and the limits
\* of process_backlog_of_sync_blocks interrupt it, the block that is handed to
\* the chain next is one whose parent the chain already has.
THEOREM ParentsComeFirst == Spec => [](handled # <<>> => Accepts(Head(handled)))
<1>1. ASSUME IInv, handled # <<>> PROVE Accepts(Head(handled))
  <2>1. ChainOk /\ handled \in Seq(Blocks)
    BY <1>1, Facts DEF ChainOk
  <2>2. Head(handled) = handled[1] /\ Len(handled) > 0 /\ Len(handled) \in Nat
    BY <1>1, <2>1, Tails
  <2>3. 1 \in 1 .. Len(handled) /\ {handled[j] : j \in 1 .. 1 - 1} = {}
    BY <2>2
  <2>4. Parent[handled[1]] \in have \cup {0}
    BY <2>1, <2>3 DEF ChainOk
  <2> QED  BY <2>2, <2>4 DEF Accepts
<1>2. IInv => (handled # <<>> => Accepts(Head(handled)))
  BY <1>1
<1> QED  BY <1>2, Invariance, PTL
=============================================================================
