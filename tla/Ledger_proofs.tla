---------------------------- MODULE Ledger_proofs ----------------------------
(***************************************************************************)
(* Proofs about Ledger for any accounts, amounts, prices and times: a      *)
(* theory of sums over finite sets, the arithmetic of a match, the loop    *)
(* of matches, and the accounts of the supply.                             *)
(***************************************************************************)
EXTENDS Ledger, FiniteSetTheorems, WellFoundedInduction, NaturalsInduction, TLAPS

(***************************************************************************)
(* Induction over natural numbers and finite sets, on sets of cases.       *)
(***************************************************************************)

LEMMA LeastOf ==
  ASSUME NEW T, T \subseteq Nat, T # {}
  PROVE  \E k \in T : \A j \in T : k <= j
<1>1. PICK k \in T : \A j \in T : ~(<<j, k>> \in OpToRel(<, Nat))
  BY NatLessThanWellFounded, WFMin
<1>2. \A j \in T : ~(j < k)
  BY <1>1 DEF OpToRel
<1> QED  BY <1>2

\* A set of numbers that holds 0 and with each number the next holds all.
LEMMA Numbers ==
  ASSUME NEW G, 0 \in G, \A k \in Nat : k \in G => k + 1 \in G
  PROVE  Nat \subseteq G
<1> DEFINE T == {k \in Nat : k \notin G}
<1> SUFFICES ASSUME T # {} PROVE FALSE
  OBVIOUS
<1>1. PICK k \in T : \A j \in T : k <= j
  BY LeastOf
<1>2. k # 0 /\ k - 1 \in Nat /\ ~(k <= k - 1) /\ (k - 1) + 1 = k
  BY <1>1
<1>3. k - 1 \in G
  BY <1>1, <1>2
<1> QED  BY <1>1, <1>2, <1>3

\* The smallest of some subsets of a finite set.
LEMMA SmallestOf ==
  ASSUME NEW S, IsFiniteSet(S), NEW C, C \subseteq SUBSET S, C # {}
  PROVE  \E T \in C : \A U \in C : Cardinality(T) <= Cardinality(U)
<1> DEFINE N == {Cardinality(T) : T \in C}
<1>1. \A T \in C : IsFiniteSet(T) /\ Cardinality(T) \in Nat
  BY FS_Subset, FS_CardinalityType
<1>2. N \subseteq Nat /\ N # {}
  BY <1>1
<1>3. PICK k \in N : \A j \in N : k <= j
  BY <1>2, LeastOf
<1>4. PICK T \in C : Cardinality(T) = k
  BY <1>3
<1>5. \A U \in C : Cardinality(T) <= Cardinality(U)
  BY <1>3, <1>4
<1> QED  BY <1>4, <1>5

LEMMA Smaller ==
  ASSUME NEW S, IsFiniteSet(S), NEW x \in S
  PROVE  /\ IsFiniteSet(S \ {x}) /\ Cardinality(S \ {x}) \in Nat /\ Cardinality(S) \in Nat
         /\ Cardinality(S \ {x}) = Cardinality(S) - 1 /\ ~(Cardinality(S) <= Cardinality(S \ {x}))
<1>1. IsFiniteSet(S \ {x}) /\ Cardinality(S \ {x}) = Cardinality(S) - 1
  BY FS_RemoveElement
<1>2. Cardinality(S) \in Nat /\ Cardinality(S \ {x}) \in Nat
  BY <1>1, FS_CardinalityType
<1> QED  BY <1>1, <1>2

\* A set of subsets that holds the empty one and with each all with one
\* element more holds the whole set.
LEMMA Subsets ==
  ASSUME NEW S, IsFiniteSet(S), NEW G, {} \in G,
         \A T \in SUBSET S : \A x \in S \ T : T \in G => T \cup {x} \in G
  PROVE  S \in G
<1> DEFINE C == {T \in SUBSET S : T \notin G}
<1> SUFFICES ASSUME C # {} PROVE FALSE
  BY DEF C
<1>1. PICK T \in C : \A U \in C : Cardinality(T) <= Cardinality(U)
  BY SmallestOf
<1>2. PICK x \in T : TRUE
  BY <1>1
<1>3. IsFiniteSet(T)
  BY <1>1, FS_Subset
<1>4. ~(Cardinality(T) <= Cardinality(T \ {x}))
  BY <1>3, Smaller
<1>5. T \ {x} \in G
  BY <1>1, <1>4
<1>6. (T \ {x}) \cup {x} = T /\ T \ {x} \in SUBSET S /\ x \in S \ (T \ {x})
  BY <1>1, <1>2
<1> QED  BY <1>1, <1>5, <1>6

(***************************************************************************)
(* Sums of a function over a finite set.                                   *)
(***************************************************************************)

Picks(S) == CHOOSE x \in S : TRUE
Iter(it, f, s) == IF s = {} THEN 0 ELSE f[Picks(s)] + it[s \ {Picks(s)}]
Sums(f, S) == CHOOSE it : it = [s \in SUBSET S |-> Iter(it, f, s)]
Sum(f, S) == SumFunctionOnSet(f, S)

LEMMA SumUnfolds ==
  ASSUME NEW f, NEW S PROVE Sum(f, S) = Sums(f, S)[S]
BY DEF Sum, Sums, SumFunctionOnSet, FoldFunctionOnSet, MapThenFoldSet, Iter, Picks

LEMMA PicksIn == ASSUME NEW S, S # {} PROVE Picks(S) \in S
BY DEF Picks

\* The recursive definition of a sum has a solution, built up by the size of
\* the subset.
LEMMA SumsExist ==
  ASSUME NEW S, IsFiniteSet(S), NEW f
  PROVE  \E it : it = [s \in SUBSET S |-> Iter(it, f, s)]
<1> DEFINE D(n) == {s \in SUBSET S : Cardinality(s) <= n}
           P(n) == \E it : it = [s \in D(n) |-> Iter(it, f, s)]
           G == {n \in Nat : P(n)}
<1>f. \A s \in SUBSET S : IsFiniteSet(s) /\ Cardinality(s) \in Nat /\ Cardinality(s) <= Cardinality(S)
  BY FS_Subset, FS_CardinalityType
<1>1. P(0)
  <2>1. \A s \in D(0) : s = {}
    BY <1>f, FS_EmptySet
  <2> DEFINE it == [s \in D(0) |-> 0]
  <2>2. it = [s \in D(0) |-> Iter(it, f, s)]
    BY <2>1 DEF Iter
  <2> QED  BY <2>2
<1>2. ASSUME NEW n \in Nat, P(n) PROVE P(n + 1)
  <2>1. PICK it : it = [s \in D(n) |-> Iter(it, f, s)]
    BY <1>2
  <2>2. \A s \in D(n) : s \in D(n + 1)
    BY <1>f
  <2> DEFINE new == [s \in D(n + 1) |-> IF s \in D(n) THEN it[s] ELSE Iter(it, f, s)]
  <2>3. ASSUME NEW s \in D(n + 1), s # {} PROVE s \ {Picks(s)} \in D(n) /\ (s \in D(n) => it[s] = Iter(it, f, s))
    <3>1. Picks(s) \in s /\ s \in SUBSET S
      BY <2>3, PicksIn
    <3>2. Cardinality(s \ {Picks(s)}) = Cardinality(s) - 1
      BY <3>1, <1>f, Smaller
    <3>3. Cardinality(s \ {Picks(s)}) <= n
      BY <3>1, <3>2, <1>f
    <3> QED  BY <2>1, <3>1, <3>3
  <2>4. ASSUME NEW s \in D(n + 1) PROVE new[s] = Iter(new, f, s)
    <3>1. CASE s = {}
      <4>1. s \in D(n)
        BY <3>1, FS_EmptySet
      <4> QED  BY <2>1, <3>1, <4>1 DEF Iter
    <3>2. CASE s # {}
      <4>1. s \ {Picks(s)} \in D(n) /\ s \ {Picks(s)} \in D(n + 1) /\ (s \in D(n) => it[s] = Iter(it, f, s))
        BY <2>2, <2>3, <3>2
      <4>2. new[s \ {Picks(s)}] = it[s \ {Picks(s)}]
        BY <4>1
      <4>3. new[s] = Iter(it, f, s)
        BY <4>1
      <4> QED  BY <3>2, <4>2, <4>3 DEF Iter
    <3> QED  BY <3>1, <3>2
  <2>5. new = [s \in D(n + 1) |-> Iter(new, f, s)]
    BY <2>4
  <2> QED  BY <2>5
<1> HIDE DEF P
<1>3. \A k \in Nat : k \in G => k + 1 \in G
  BY <1>2
<1>4. 0 \in G
  BY <1>1
<1>5. Nat \subseteq G
  BY ONLY <1>3, <1>4, Numbers
<1>6. P(Cardinality(S))
  BY <1>5, FS_CardinalityType
<1>7. D(Cardinality(S)) = SUBSET S
  BY <1>f
<1> QED  BY <1>6, <1>7 DEF P

LEMMA SumsStep ==
  ASSUME NEW S, IsFiniteSet(S), NEW f, NEW T \in SUBSET S
  PROVE  Sums(f, S)[T] = IF T = {} THEN 0 ELSE f[Picks(T)] + Sums(f, S)[T \ {Picks(T)}]
<1>1. Sums(f, S) = [s \in SUBSET S |-> Iter(Sums(f, S), f, s)]
  BY SumsExist DEF Sums
<1>2. Sums(f, S)[T] = Iter(Sums(f, S), f, T)
  BY <1>1
<1> QED  BY <1>2 DEF Iter

\* A sum depends only on the values that it adds up.
LEMMA SumsAgree ==
  ASSUME NEW S, IsFiniteSet(S), NEW R, IsFiniteSet(R), NEW f, NEW g,
         NEW V \in SUBSET (S \cap R), \A x \in V : f[x] = g[x]
  PROVE  Sums(f, S)[V] = Sums(g, R)[V]
<1> DEFINE C == {T \in SUBSET V : Sums(f, S)[T] # Sums(g, R)[T]}
<1> SUFFICES ASSUME C # {} PROVE FALSE
  BY DEF C
<1>0. IsFiniteSet(V)
  BY FS_Subset
<1>1. PICK T \in C : \A U \in C : Cardinality(T) <= Cardinality(U)
  BY <1>0, SmallestOf
<1>2. T \in SUBSET S /\ T \in SUBSET R /\ IsFiniteSet(T)
  BY <1>0, <1>1, FS_Subset
<1>3. T # {}
  BY <1>1, <1>2, SumsStep
<1>4. Picks(T) \in T
  BY <1>3, PicksIn
<1>5. ~(Cardinality(T) <= Cardinality(T \ {Picks(T)}))
  BY <1>2, <1>4, Smaller
<1>6. Sums(f, S)[T \ {Picks(T)}] = Sums(g, R)[T \ {Picks(T)}]
  BY <1>1, <1>5
<1>7. f[Picks(T)] = g[Picks(T)]
  BY <1>1, <1>4
<1> QED  BY <1>1, <1>2, <1>3, <1>6, <1>7, SumsStep

LEMMA SumSame ==
  ASSUME NEW S, IsFiniteSet(S), NEW f, NEW g, \A x \in S : f[x] = g[x]
  PROVE  Sum(f, S) = Sum(g, S)
<1>1. Sums(f, S)[S] = Sums(g, S)[S]
  BY SumsAgree
<1> QED  BY <1>1, SumUnfolds

LEMMA SumEmpty == ASSUME NEW f PROVE Sum(f, {}) = 0
<1>1. IsFiniteSet({})
  BY FS_EmptySet
<1> QED  BY <1>1, SumsStep, SumUnfolds

LEMMA SumPicks ==
  ASSUME NEW S, IsFiniteSet(S), S # {}, NEW f
  PROVE  Sum(f, S) = f[Picks(S)] + Sum(f, S \ {Picks(S)})
<1> DEFINE T == S \ {Picks(S)}
<1>1. IsFiniteSet(T) /\ T \in SUBSET (S \cap T)
  BY FS_Subset
<1>2. Sums(f, S)[T] = Sums(f, T)[T]
  BY <1>1, SumsAgree
<1>3. Sums(f, S)[S] = f[Picks(S)] + Sums(f, S)[T]
  BY SumsStep
<1> QED  BY <1>2, <1>3, SumUnfolds

LEMMA SumType ==
  ASSUME NEW S, IsFiniteSet(S), NEW f, \A x \in S : f[x] \in Int
  PROVE  Sum(f, S) \in Int
<1> DEFINE C == {T \in SUBSET S : Sum(f, T) \notin Int}
<1> SUFFICES ASSUME C # {} PROVE FALSE
  BY DEF C
<1>1. PICK T \in C : \A U \in C : Cardinality(T) <= Cardinality(U)
  BY SmallestOf
<1>2. T # {} /\ IsFiniteSet(T)
  <2>1. Sum(f, {}) \in Int
    BY SumEmpty
  <2> QED  BY <1>1, <2>1, FS_Subset
<1>3. Picks(T) \in T
  BY <1>2, PicksIn
<1>4. ~(Cardinality(T) <= Cardinality(T \ {Picks(T)}))
  BY <1>2, <1>3, Smaller
<1>5. Sum(f, T \ {Picks(T)}) \in Int /\ f[Picks(T)] \in Int
  BY <1>1, <1>3, <1>4
<1>6. Sum(f, T) = f[Picks(T)] + Sum(f, T \ {Picks(T)})
  BY <1>2, SumPicks
<1> QED  BY <1>1, <1>5, <1>6

\* The order in which a sum is added up does not matter.
LEMMA SumRemove ==
  ASSUME NEW S, IsFiniteSet(S), NEW f, \A x \in S : f[x] \in Int, NEW a \in S
  PROVE  Sum(f, S) = f[a] + Sum(f, S \ {a})
<1> DEFINE C == {T \in SUBSET S : \E x \in T : Sum(f, T) # f[x] + Sum(f, T \ {x})}
<1> SUFFICES ASSUME C # {} PROVE FALSE
  BY DEF C
<1>1. PICK T \in C : \A U \in C : Cardinality(T) <= Cardinality(U)
  BY SmallestOf
<1>2. PICK x \in T : Sum(f, T) # f[x] + Sum(f, T \ {x})
  BY <1>1
<1>3. T # {} /\ IsFiniteSet(T) /\ T \subseteq S
  BY <1>1, <1>2, FS_Subset
<1> DEFINE c == Picks(T)
<1>4. c \in T
  BY <1>3, PicksIn
<1>5. Sum(f, T) = f[c] + Sum(f, T \ {c})
  BY <1>3, SumPicks
<1>6. x # c
  BY <1>2, <1>5
<1>7. ~(Cardinality(T) <= Cardinality(T \ {c})) /\ ~(Cardinality(T) <= Cardinality(T \ {x}))
  BY <1>3, <1>4, Smaller
<1> HIDE DEF c
<1>8. T \ {c} \notin C /\ T \ {x} \notin C /\ T \ {c} \in SUBSET S /\ T \ {x} \in SUBSET S
  BY <1>1, <1>3, <1>7
<1>9. Sum(f, T \ {c}) = f[x] + Sum(f, (T \ {c}) \ {x}) /\ Sum(f, T \ {x}) = f[c] + Sum(f, (T \ {x}) \ {c})
  BY <1>4, <1>6, <1>8
<1>10. (T \ {c}) \ {x} = (T \ {x}) \ {c}
  OBVIOUS
<1>11. IsFiniteSet((T \ {x}) \ {c}) /\ \A y \in (T \ {x}) \ {c} : f[y] \in Int
  BY <1>3, FS_Subset
<1>12. Sum(f, (T \ {x}) \ {c}) \in Int /\ f[x] \in Int /\ f[c] \in Int
  BY <1>3, <1>4, <1>11, SumType
<1>13. Sum(f, T) = f[c] + (f[x] + Sum(f, (T \ {x}) \ {c}))
  BY <1>5, <1>9, <1>10
<1>14. f[x] + Sum(f, T \ {x}) = f[x] + (f[c] + Sum(f, (T \ {x}) \ {c}))
  BY <1>9
<1> QED  BY ONLY <1>2, <1>12, <1>13, <1>14

LEMMA SumAdd ==
  ASSUME NEW T, IsFiniteSet(T), NEW x, x \notin T, NEW f, \A y \in T \cup {x} : f[y] \in Int
  PROVE  /\ Sum(f, T \cup {x}) = f[x] + Sum(f, T) /\ Sum(f, T) \in Int /\ f[x] \in Int
         /\ IsFiniteSet(T \cup {x})
<1>1. IsFiniteSet(T \cup {x}) /\ (T \cup {x}) \ {x} = T
  BY FS_AddElement
<1> QED  BY <1>1, SumRemove, SumType

LEMMA SumNat ==
  ASSUME NEW S, IsFiniteSet(S), NEW f, \A x \in S : f[x] \in Nat
  PROVE  Sum(f, S) \in Nat
<1> DEFINE G == {T \in SUBSET S : Sum(f, T) \in Nat}
<1>1. {} \in G
  BY SumEmpty
<1>2. ASSUME NEW T \in SUBSET S, NEW x \in S \ T, T \in G PROVE T \cup {x} \in G
  <2>1. IsFiniteSet(T)
    BY FS_Subset
  <2>a. \A y \in T \cup {x} : f[y] \in Int
    OBVIOUS
  <2>2. Sum(f, T \cup {x}) = f[x] + Sum(f, T)
    BY <2>1, <2>a, SumAdd
  <2> QED  BY <1>2, <2>2
<1>3. S \in G
  BY <1>1, <1>2, Subsets
<1> QED  BY <1>3

LEMMA SumZero ==
  ASSUME NEW S, IsFiniteSet(S), NEW f, \A x \in S : f[x] = 0
  PROVE  Sum(f, S) = 0
<1> DEFINE G == {T \in SUBSET S : Sum(f, T) = 0}
<1>1. {} \in G
  BY SumEmpty
<1>2. ASSUME NEW T \in SUBSET S, NEW x \in S \ T, T \in G PROVE T \cup {x} \in G
  <2>1. IsFiniteSet(T)
    BY FS_Subset
  <2>a. \A y \in T \cup {x} : f[y] \in Int
    OBVIOUS
  <2>2. Sum(f, T \cup {x}) = f[x] + Sum(f, T)
    BY <2>1, <2>a, SumAdd
  <2> QED  BY <1>2, <2>2
<1>3. S \in G
  BY <1>1, <1>2, Subsets
<1> QED  BY <1>3

LEMMA SumPlus ==
  ASSUME NEW S, IsFiniteSet(S), NEW f, NEW g, NEW h,
         \A x \in S : f[x] \in Int /\ g[x] \in Int /\ h[x] = f[x] + g[x]
  PROVE  Sum(h, S) = Sum(f, S) + Sum(g, S)
<1> DEFINE G == {T \in SUBSET S : Sum(h, T) = Sum(f, T) + Sum(g, T)}
<1>1. {} \in G
  BY SumEmpty
<1>2. ASSUME NEW T \in SUBSET S, NEW x \in S \ T, T \in G PROVE T \cup {x} \in G
  <2>1. IsFiniteSet(T)
    BY FS_Subset
  <2>2. Sum(f, T \cup {x}) = f[x] + Sum(f, T) /\ Sum(f, T) \in Int /\ f[x] \in Int
    BY <2>1, SumAdd
  <2>3. Sum(g, T \cup {x}) = g[x] + Sum(g, T) /\ Sum(g, T) \in Int /\ g[x] \in Int
    BY <2>1, SumAdd
  <2>a. \A y \in T \cup {x} : h[y] \in Int
    OBVIOUS
  <2>4. Sum(h, T \cup {x}) = h[x] + Sum(h, T)
    BY <2>1, <2>a, SumAdd
  <2>5. h[x] = f[x] + g[x] /\ Sum(h, T) = Sum(f, T) + Sum(g, T)
    BY <1>2
  <2> QED  BY <2>2, <2>3, <2>4, <2>5
<1>3. S \in G
  BY <1>1, <1>2, Subsets
<1> QED  BY <1>3

LEMMA SumSplit ==
  ASSUME NEW S, IsFiniteSet(S), NEW R \in SUBSET S, NEW f, \A x \in S : f[x] \in Int
  PROVE  Sum(f, S) = Sum(f, R) + Sum(f, S \ R) /\ Sum(f, R) \in Int /\ Sum(f, S \ R) \in Int
<1>0. IsFiniteSet(R) /\ IsFiniteSet(S \ R)
  BY FS_Subset
<1> DEFINE G == {T \in SUBSET R : Sum(f, (S \ R) \cup T) = Sum(f, T) + Sum(f, S \ R)}
<1>1. {} \in G
  <2>1. (S \ R) \cup {} = S \ R /\ Sum(f, S \ R) \in Int
    BY <1>0, SumType
  <2> QED  BY <2>1, SumEmpty
<1>2. ASSUME NEW T \in SUBSET R, NEW x \in R \ T, T \in G PROVE T \cup {x} \in G
  <2>1. IsFiniteSet(T) /\ IsFiniteSet((S \ R) \cup T)
    BY <1>0, FS_Subset
  <2>2. Sum(f, T \cup {x}) = f[x] + Sum(f, T) /\ Sum(f, T) \in Int /\ f[x] \in Int
    BY <2>1, SumAdd
  <2>3. ((S \ R) \cup T) \cup {x} = (S \ R) \cup (T \cup {x})
    OBVIOUS
  <2>4. Sum(f, (S \ R) \cup (T \cup {x})) = f[x] + Sum(f, (S \ R) \cup T)
    <3>1. x \notin (S \ R) \cup T /\ \A y \in ((S \ R) \cup T) \cup {x} : f[y] \in Int
      BY <1>2
    <3> QED  BY <2>1, <2>3, <3>1, SumAdd
  <2>5. Sum(f, S \ R) \in Int
    BY <1>0, SumType
  <2>6. Sum(f, (S \ R) \cup T) = Sum(f, T) + Sum(f, S \ R)
    BY <1>2
  <2> QED  BY <2>2, <2>4, <2>5, <2>6
<1>3. R \in G
  BY <1>0, <1>1, <1>2, Subsets
<1>4. (S \ R) \cup R = S
  OBVIOUS
<1> QED  BY <1>0, <1>3, <1>4, SumType

LEMMA SumChange ==
  ASSUME NEW S, IsFiniteSet(S), NEW a \in S, NEW f, NEW h, NEW v \in Int,
         \A x \in S : f[x] \in Int, \A x \in S \ {a} : h[x] = f[x], h[a] = f[a] + v
  PROVE  Sum(h, S) = Sum(f, S) + v
<1>1. IsFiniteSet(S \ {a})
  BY FS_Subset
<1>2. Sum(f, S \ {a}) = Sum(h, S \ {a}) /\ Sum(f, S \ {a}) \in Int
  BY <1>1, SumSame, SumType
<1>3. \A x \in S : h[x] \in Int
  OBVIOUS
<1>4. Sum(h, S) = h[a] + Sum(h, S \ {a}) /\ Sum(f, S) = f[a] + Sum(f, S \ {a})
  BY <1>3, SumRemove
<1> QED  BY <1>2, <1>4

\* The sum over all objects is the sum over their owners of what each owns.
LEMMA SumByOwner ==
  ASSUME NEW M, IsFiniteSet(M), NEW A, IsFiniteSet(A), NEW own, NEW f, NEW h,
         \A m \in M : f[m] \in Int /\ own[m] \in A,
         \A a \in A : h[a] = Sum(f, {m \in M : own[m] = a})
  PROVE  Sum(h, A) = Sum(f, M)
<1> DEFINE Of(T, a) == {m \in T : own[m] = a}
           H(T) == [a \in A |-> Sum(f, Of(T, a))]
           G == {T \in SUBSET M : Sum(H(T), A) = Sum(f, T)}
<1>1. {} \in G
  <2>1. \A a \in A : Of({}, a) = {}
    OBVIOUS
  <2>2. \A a \in A : H({})[a] = 0
    BY <2>1, SumEmpty
  <2> HIDE DEF H
  <2> QED  BY <2>2, SumZero, SumEmpty
<1>2. ASSUME NEW T \in SUBSET M, NEW x \in M \ T, T \in G PROVE T \cup {x} \in G
  <2>1. IsFiniteSet(T) /\ \A a \in A : IsFiniteSet(Of(T, a))
    <3>1. \A a \in A : Of(T, a) \in SUBSET M
      OBVIOUS
    <3> QED  BY <3>1, FS_Subset
  <2>2. Sum(f, T \cup {x}) = f[x] + Sum(f, T) /\ Sum(f, T) \in Int /\ f[x] \in Int
    BY <2>1, SumAdd
  <2>3. \A a \in A \ {own[x]} : Of(T \cup {x}, a) = Of(T, a)
    OBVIOUS
  <2>4. Of(T \cup {x}, own[x]) = Of(T, own[x]) \cup {x} /\ x \notin Of(T, own[x]) /\ own[x] \in A
    OBVIOUS
  <2>5. \A y \in Of(T, own[x]) \cup {x} : f[y] \in Int
    OBVIOUS
  <2>6. Sum(f, Of(T, own[x]) \cup {x}) = f[x] + Sum(f, Of(T, own[x]))
    BY <2>1, <2>4, <2>5, SumAdd
  <2>7. \A a \in A : H(T)[a] \in Int
    <3>1. \A a \in A : \A y \in Of(T, a) : f[y] \in Int
      OBVIOUS
    <3>2. \A a \in A : Sum(f, Of(T, a)) \in Int
      BY <2>1, <3>1, SumType
    <3> QED  BY <3>2
  <2>8. H(T \cup {x})[own[x]] = H(T)[own[x]] + f[x]
    BY <2>2, <2>4, <2>6, <2>7
  <2>9. \A a \in A \ {own[x]} : H(T \cup {x})[a] = H(T)[a]
    BY <2>3
  <2>10. Sum(H(T), A) = Sum(f, T)
    BY <1>2
  <2> HIDE DEF H
  <2>11. Sum(H(T \cup {x}), A) = Sum(H(T), A) + f[x]
    <3> DEFINE u == H(T)  w == H(T \cup {x})  o == own[x]  v == f[x]
    <3>1. o \in A /\ v \in Int /\ (\A a \in A : u[a] \in Int) /\ (\A a \in A \ {o} : w[a] = u[a]) /\ w[o] = u[o] + v
      BY <2>2, <2>4, <2>7, <2>8, <2>9
    <3> HIDE DEF u, w, o, v
    <3>2. Sum(w, A) = Sum(u, A) + v
      BY <3>1, SumChange
    <3> QED  BY <3>2 DEF u, w, v
  <2> QED  BY <2>2, <2>10, <2>11
<1>3. M \in G
  <2> HIDE DEF H
  <2> QED  BY <1>1, <1>2, Subsets
<1>4. \A a \in A : h[a] = H(M)[a]
  OBVIOUS
<1>5. Sum(h, A) = Sum(H(M), A)
  <2> HIDE DEF H
  <2> QED  BY <1>4, SumSame
<1> QED  BY <1>3, <1>5

(***************************************************************************)
(* The arithmetic of a match.                                              *)
(***************************************************************************)

Pos == Nat \ {0}

LEMMA Mono == ASSUME NEW a \in Nat, NEW b \in Nat, NEW c \in Nat, a <= b PROVE a * c <= b * c
OBVIOUS

LEMMA Cancel == ASSUME NEW a \in Nat, NEW b \in Nat, NEW c \in Pos, a * c <= b * c PROVE a <= b
BY DEF Pos

LEMMA Product == ASSUME NEW a \in Nat, NEW b \in Nat PROVE a * b \in Nat
OBVIOUS

LEMMA Quotient ==
  ASSUME NEW x \in Nat, NEW b \in Pos
  PROVE  x \div b \in Nat /\ (x \div b) * b <= x /\ x < (x \div b) * b + b
BY DEF Pos

LEMMA QuotientMost ==
  ASSUME NEW x \in Nat, NEW b \in Pos, NEW k \in Nat, x <= k * b
  PROVE  x \div b <= k
<1>1. x \div b \in Nat /\ (x \div b) * b <= x
  BY Quotient
<1>2. (x \div b) * b <= k * b
  BY <1>1 DEF Pos
<1> QED  BY <1>1, <1>2, Cancel

LEMMA QuotientLeast ==
  ASSUME NEW x \in Nat, NEW b \in Pos, NEW k \in Nat, k * b <= x
  PROVE  k <= x \div b
<1> DEFINE y == x \div b
<1>1. y \in Nat /\ x < y * b + b
  BY Quotient
<1> HIDE DEF y
<1>2. k * b < (y + 1) * b
  <2>1. (y + 1) * b = y * b + b
    BY <1>1 DEF Pos
  <2>2. k * b \in Nat /\ y * b \in Nat
    BY <1>1 DEF Pos
  <2> QED  BY <1>1, <2>1, <2>2 DEF Pos
<1>3. ASSUME y + 1 <= k PROVE FALSE
  <2>1. (y + 1) * b <= k * b
    BY <1>1, <1>3 DEF Pos
  <2>2. (y + 1) * b \in Nat /\ k * b \in Nat
    BY <1>1 DEF Pos
  <2> QED  BY <1>2, <2>1, <2>2
<1> QED  BY <1>1, <1>3 DEF y

\* What the new order gets for all it has is at least what it asks.
LEMMA NewGets ==
  ASSUME NEW N \in Nat, NEW b \in Pos, NEW q \in Pos, NEW c \in Pos, NEW d \in Pos, d * q <= b * c
  PROVE  (N * d) \div c <= (N * b) \div q
<1> DEFINE z == (N * d) \div c
<1>1. N * d \in Nat /\ N * b \in Nat
  BY DEF Pos
<1>2. z \in Nat /\ z * c <= N * d
  BY <1>1, Quotient
<1> HIDE DEF z
<1>3. (z * c) * q <= (N * d) * q
  BY <1>1, <1>2, Mono, Product DEF Pos
<1>4. (d * q) * N <= (b * c) * N
  BY Mono, Product DEF Pos
<1>5. (z * q) * c = (z * c) * q /\ (N * d) * q = (d * q) * N /\ (b * c) * N = (N * b) * c
  BY <1>2 DEF Pos
<1>6. (z * c) * q \in Nat /\ (N * d) * q \in Nat /\ (N * b) * c \in Nat /\ z * q \in Nat
  BY <1>1, <1>2, Product DEF Pos
<1>7. (z * q) * c <= (N * b) * c
  BY <1>3, <1>4, <1>5, <1>6
<1>8. z * q <= N * b
  BY <1>1, <1>6, <1>7, Cancel
<1> QED  BY <1>1, <1>2, <1>8, QuotientLeast DEF z

\* What the old order gets for that is at least what it asks.
LEMMA OldGets ==
  ASSUME NEW N \in Nat, NEW b \in Pos, NEW q \in Pos
  PROVE  (((N * b) \div q) * q) \div b <= N
<1> DEFINE y == (N * b) \div q
<1>1. N * b \in Nat
  BY DEF Pos
<1>2. y \in Nat /\ y * q <= N * b
  BY <1>1, Quotient
<1> HIDE DEF y
<1>3. y * q \in Nat
  BY <1>2, Product DEF Pos
<1>4. (y * q) \div b <= N
  BY <1>2, <1>3, QuotientMost
<1> QED  BY <1>4 DEF y

\* What the new order gets when it takes the whole old order is at least
\* what it asks for what it pays.
LEMMA NewTakes ==
  ASSUME NEW A \in Nat, NEW b \in Pos, NEW q \in Pos, NEW c \in Pos, NEW d \in Pos, d * q <= b * c
  PROVE  (((A * q) \div b) * d) \div c <= A
<1> DEFINE w == (A * q) \div b
<1>1. A * q \in Nat
  BY DEF Pos
<1>2. w \in Nat /\ w * b <= A * q
  BY <1>1, Quotient
<1> HIDE DEF w
<1>3. (w * b) * c <= (A * q) * c
  BY <1>1, <1>2, Mono, Product DEF Pos
<1>4. (d * q) * w <= (b * c) * w
  BY <1>2, Mono, Product DEF Pos
<1>5. (w * d) * q = (d * q) * w /\ (b * c) * w = (w * b) * c /\ (A * q) * c = (A * c) * q
  BY <1>2 DEF Pos
<1>6. (w * d) * q \in Nat /\ (w * b) * c \in Nat /\ (A * c) * q \in Nat /\ w * d \in Nat /\ A * c \in Nat
  BY <1>2, Product DEF Pos
<1>7. (w * d) * q <= (A * c) * q
  BY <1>3, <1>4, <1>5, <1>6
<1>8. w * d <= A * c
  BY <1>6, <1>7, Cancel
<1>9. (w * d) \div c <= A
  BY <1>6, <1>8, QuotientMost
<1> QED  BY <1>9 DEF w

(***************************************************************************)
(* Orders, what they pay and what is left of them.                         *)
(***************************************************************************)

Order == [num : Nat, seller : Accounts, id : Ids, sell : Symbols, amt : Nat, price : Prices, exp : Int]

\* An order that asks something for what it sells.
Asks(o) == o.amt > 0 /\ Times(o.amt, o.price) > 0

LEMMA PriceType == \A p \in Prices : p[1] \in Pos /\ p[2] \in Pos /\ p = <<p[1], p[2]>>
BY LedgerAssumption DEF Pos

LEMMA TimesType == ASSUME NEW x \in Nat, NEW p \in Prices PROVE Times(x, p) \in Nat /\ Times(0, p) = 0
<1>1. p[1] \in Pos /\ p[2] \in Pos
  BY PriceType
<1>2. x * p[2] \in Nat /\ 0 * p[2] = 0
  BY <1>1 DEF Pos
<1>3. (x * p[2]) \div p[1] \in Nat
  BY <1>1, <1>2, Quotient
<1>4. 0 \div p[1] = 0
  BY <1>1 DEF Pos
<1> QED  BY <1>2, <1>3, <1>4 DEF Times

LEMMA TimesInvType == ASSUME NEW x \in Nat, NEW p \in Prices PROVE Times(x, Inv(p)) \in Nat
<1>1. p[1] \in Pos /\ p[2] \in Pos
  BY PriceType
<1>2. x * p[1] \in Nat
  BY <1>1 DEF Pos
<1>3. (x * p[1]) \div p[2] \in Nat
  BY <1>1, <1>2, Quotient
<1> QED  BY <1>3 DEF Times, Inv

LEMMA CrossPrices ==
  ASSUME NEW o \in Order, NEW n \in Order
  PROVE  /\ Crosses(o, n) => n.price[2] * o.price[2] <= o.price[1] * n.price[1]
         /\ Crosses(o, n) <=> Crosses(n, o)
         /\ ~Crosses(o, o)
<1>1. o.price[1] \in Pos /\ o.price[2] \in Pos /\ n.price[1] \in Pos /\ n.price[2] \in Pos
  BY PriceType DEF Order
<1>2. o.sell \in Symbols /\ n.sell \in Symbols
  BY DEF Order
<1> DEFINE b == o.price[1]  q == o.price[2]  c == n.price[1]  d == n.price[2]
<1>3. Greater(Inv(n.price), o.price) <=> d * q > b * c
  BY DEF Greater, Inv
<1>4. Greater(Inv(o.price), n.price) <=> q * d > c * b
  BY DEF Greater, Inv
<1>5. d * q = q * d /\ b * c = c * b /\ d * q \in Nat /\ b * c \in Nat
  BY <1>1 DEF Pos
<1>6. o.sell = Other(n.sell) <=> n.sell = Other(o.sell)
  BY <1>2 DEF Other, Symbols
<1>7. o.sell # Other(o.sell)
  BY <1>2 DEF Other, Symbols
<1>8. ~(d * q > b * c) => d * q <= b * c
  BY <1>5
<1> HIDE DEF b, q, c, d
<1> QED  BY <1>3, <1>4, <1>5, <1>6, <1>7, <1>8 DEF Crosses, b, q, c, d

\* A match uses up one of the two orders, pays within both, and gives both
\* at least what they ask.
LEMMA PaidFacts ==
  ASSUME NEW n \in Order, NEW o \in Order, Asks(n), Asks(o), Crosses(o, n)
  PROVE  LET p == Paid(n, o)
         IN  /\ p.new \in Nat /\ p.old \in Nat /\ p.new <= n.amt /\ p.old <= o.amt
             /\ p.new = n.amt \/ p.old = o.amt
             /\ p.old >= Times(p.new, n.price) /\ p.old > 0
             /\ p.new >= Times(p.old, o.price) /\ p.new > 0
<1> DEFINE b == o.price[1]  q == o.price[2]  c == n.price[1]  d == n.price[2]  N == n.amt  A == o.amt
           w == (A * q) \div b
           y == (N * b) \div q
<1>1. b \in Pos /\ q \in Pos /\ c \in Pos /\ d \in Pos /\ N \in Nat /\ A \in Nat
  BY PriceType DEF Order
<1>2. d * q <= b * c
  BY CrossPrices
<1>3. Times(o.amt, o.price) = w /\ Times(n.amt, Inv(o.price)) = y
  BY DEF Times, Inv
<1>4. w \in Nat /\ y \in Nat /\ w * b <= A * q
  <2>1. A * q \in Nat /\ N * b \in Nat
    BY <1>1 DEF Pos
  <2> QED  BY <1>1, <2>1, Quotient
<1>5. N > 0 /\ A > 0 /\ w > 0 /\ (N * d) \div c > 0
  BY <1>3 DEF Asks, Times
<1>6. (N * d) \div c <= y
  BY <1>1, <1>2, NewGets
<1>7. (y * q) \div b <= N
  BY <1>1, OldGets
<1>8. (w * d) \div c <= A
  BY <1>1, <1>2, NewTakes
<1>9. (N * d) \div c \in Nat
  BY <1>1, Quotient, Product DEF Pos
<1>10. CASE N <= w
  <2>1. Paid(n, o) = [new |-> N, old |-> y]
    BY <1>3, <1>10 DEF Paid
  <2>2. y <= A
    <3>1. N * b <= w * b
      BY <1>1, <1>4, <1>10 DEF Pos
    <3>2. N * b <= A * q /\ N * b \in Nat
      BY <1>1, <1>4, <3>1 DEF Pos
    <3> QED  BY <1>1, <3>2, QuotientMost
  <2>3. Times(N, n.price) = (N * d) \div c /\ Times(y, o.price) = (y * q) \div b
    BY DEF Times
  <2>4. y > 0
    BY <1>4, <1>5, <1>6, <1>9
  <2> HIDE DEF b, q, c, d, N, A, w, y
  <2>5. (y * q) \div b \in Nat
    BY <1>1, <1>4, Quotient, Product DEF Pos
  <2> QED  BY <1>1, <1>4, <1>5, <1>6, <1>7, <1>9, <2>1, <2>2, <2>3, <2>4, <2>5 DEF N, A
<1>11. CASE ~(N <= w)
  <2>1. Paid(n, o) = [new |-> w, old |-> A]
    BY <1>3, <1>11 DEF Paid
  <2>2. Times(w, n.price) = (w * d) \div c /\ Times(A, o.price) = w
    BY DEF Times
  <2> HIDE DEF b, q, c, d, N, A, w, y
  <2>3. (w * d) \div c \in Nat
    BY <1>1, <1>4, Quotient, Product DEF Pos
  <2> QED  BY <1>1, <1>4, <1>5, <1>8, <1>11, <2>1, <2>2, <2>3 DEF N, A
<1> QED  BY <1>10, <1>11

\* What is left of an order and what is refunded is what it did not pay, and
\* what is left asks for something.
LEMMA FillFacts ==
  ASSUME NEW o \in Order, NEW pays \in Nat, pays <= o.amt
  PROVE  LET f == Fill(o, pays)
         IN  /\ f.rest \in Nat /\ f.refund \in Nat /\ f.rest + f.refund = o.amt - pays
             /\ f.rest # 0 => f.rest > 0 /\ Times(f.rest, o.price) > 0
             /\ pays = o.amt => f.rest = 0
<1> DEFINE rest == o.amt - pays
<1>1. rest \in Nat /\ o.price \in Prices /\ o.amt \in Nat
  BY DEF Order
<1>2. Times(rest, o.price) \in Nat /\ Times(0, o.price) = 0
  BY <1>1, TimesType
<1>3. CASE Times(rest, o.price) = 0
  <2>1. Fill(o, pays) = [rest |-> 0, refund |-> rest]
    BY <1>3 DEF Fill
  <2> QED  BY <1>1, <2>1
<1>4. CASE Times(rest, o.price) # 0
  <2>1. Fill(o, pays) = [rest |-> rest, refund |-> 0]
    BY <1>4 DEF Fill
  <2>2. rest # 0 /\ Times(rest, o.price) > 0
    BY <1>2, <1>4
  <2> QED  BY <1>1, <2>1, <2>2
<1> QED  BY <1>3, <1>4

(***************************************************************************)
(* What accounts and objects hold together.                                *)
(***************************************************************************)

Balances == [Accounts -> [Symbols -> Int]]
Purses   == [Accounts -> [Symbols -> Nat]]

LEMMA AccountsFinite == IsFiniteSet(Accounts)
BY LedgerAssumption, FS_AddElement DEF Accounts

LEMMA OwnedIs == ASSUME NEW bal, NEW s PROVE Owned(bal, s) = Sum([a \in Accounts |-> bal[a][s]], Accounts)
BY DEF Owned, SumFunction, Sum

LEMMA OwnedType == ASSUME NEW bal \in Balances, NEW s \in Symbols PROVE Owned(bal, s) \in Int
<1> DEFINE f == [a \in Accounts |-> bal[a][s]]
<1>1. \A a \in Accounts : f[a] \in Int
  BY DEF Balances
<1> HIDE DEF f
<1>2. Sum(f, Accounts) \in Int
  BY <1>1, AccountsFinite, SumType
<1> QED  BY <1>2, OwnedIs DEF f

LEMMA CreditType ==
  ASSUME NEW bal \in Balances, NEW a \in Accounts, NEW s \in Symbols, NEW x \in Int
  PROVE  /\ Credit(bal, a, s, x) \in Balances
         /\ \A b \in Accounts, t \in Symbols :
              Credit(bal, a, s, x)[b][t] = bal[b][t] + IF b = a /\ t = s THEN x ELSE 0
BY DEF Credit, Balances

LEMMA CreditPurse ==
  ASSUME NEW bal \in Purses, NEW a \in Accounts, NEW s \in Symbols, NEW x \in Int, bal[a][s] + x >= 0
  PROVE  Credit(bal, a, s, x) \in Purses
BY DEF Credit, Purses

\* A change of what one account has.
LEMMA OwnedChange ==
  ASSUME NEW bal \in Balances, NEW new \in Balances, NEW a \in Accounts, NEW s \in Symbols, NEW x \in Int,
         \A b \in Accounts \ {a} : new[b][s] = bal[b][s], new[a][s] = bal[a][s] + x
  PROVE  Owned(new, s) = Owned(bal, s) + x
<1> DEFINE f == [b \in Accounts |-> bal[b][s]]
           h == [b \in Accounts |-> new[b][s]]
<1>1. (\A b \in Accounts : f[b] \in Int) /\ (\A b \in Accounts \ {a} : h[b] = f[b]) /\ h[a] = f[a] + x
  BY DEF Balances
<1> HIDE DEF f, h
<1>2. Sum(h, Accounts) = Sum(f, Accounts) + x
  BY <1>1, AccountsFinite, SumChange
<1> QED  BY <1>2, OwnedIs DEF f, h

LEMMA CreditOwned ==
  ASSUME NEW bal \in Balances, NEW a \in Accounts, NEW s \in Symbols, NEW x \in Int, NEW t \in Symbols
  PROVE  Owned(Credit(bal, a, s, x), t) = Owned(bal, t) + IF t = s THEN x ELSE 0
<1> DEFINE new == Credit(bal, a, s, x)
           y == IF t = s THEN x ELSE 0
<1>1. new \in Balances /\ \A b \in Accounts : new[b][t] = bal[b][t] + IF b = a /\ t = s THEN x ELSE 0
  BY CreditType
<1> HIDE DEF new
<1>2. y \in Int /\ new[a][t] = bal[a][t] + y /\ \A b \in Accounts \ {a} : new[b][t] = bal[b][t]
  BY <1>1 DEF Balances
<1> HIDE DEF y
<1>3. Owned(new, t) = Owned(bal, t) + y
  BY <1>1, <1>2, OwnedChange
<1> QED  BY <1>3 DEF new, y

LEMMA PursesAreBalances == Purses \subseteq Balances
BY DEF Purses, Balances

\* Sums over a set of objects, and over a part and the rest of it.
LEMMA SumParts ==
  ASSUME NEW S, IsFiniteSet(S), NEW R \in SUBSET S, NEW f, NEW g, NEW h,
         DOMAIN f = S, DOMAIN g = R, DOMAIN h = S \ R, \A x \in S : f[x] \in Int,
         \A x \in R : g[x] = f[x], \A x \in S \ R : h[x] = f[x]
  PROVE  /\ SumFunction(f) = SumFunction(g) + SumFunction(h)
         /\ SumFunction(f) \in Int /\ SumFunction(g) \in Int /\ SumFunction(h) \in Int
<1>1. IsFiniteSet(R) /\ IsFiniteSet(S \ R)
  BY FS_Subset
<1>2. Sum(g, R) = Sum(f, R) /\ Sum(h, S \ R) = Sum(f, S \ R)
  BY <1>1, SumSame
<1>3. SumFunction(f) = Sum(f, S) /\ SumFunction(g) = Sum(g, R) /\ SumFunction(h) = Sum(h, S \ R)
  BY DEF SumFunction, Sum
<1>4. Sum(f, S) = Sum(f, R) + Sum(f, S \ R) /\ Sum(f, R) \in Int /\ Sum(f, S \ R) \in Int
  BY SumSplit
<1> QED  BY <1>2, <1>3, <1>4

LEMMA SumSingle ==
  ASSUME NEW x, NEW f, DOMAIN f = {x}, f[x] \in Int
  PROVE  SumFunction(f) = f[x]
<1>1. IsFiniteSet({x}) /\ {x} \ {x} = {}
  BY FS_Singleton
<1>2. Sum(f, {x}) = f[x] + Sum(f, {x} \ {x})
  BY <1>1, SumRemove
<1>3. Sum(f, {x} \ {x}) = 0
  BY <1>1, SumEmpty
<1> QED  BY <1>2, <1>3 DEF SumFunction, Sum

\* Without one object.
LEMMA SumWithout ==
  ASSUME NEW S, IsFiniteSet(S), NEW a \in S, NEW f, NEW h,
         DOMAIN f = S, DOMAIN h = S \ {a}, \A x \in S : f[x] \in Int, \A x \in S \ {a} : h[x] = f[x]
  PROVE  SumFunction(f) = SumFunction(h) + f[a] /\ SumFunction(f) \in Int /\ SumFunction(h) \in Int
<1> DEFINE g == [x \in {a} |-> f[x]]
<1>1. DOMAIN g = {a} /\ g[a] = f[a] /\ f[a] \in Int /\ {a} \in SUBSET S /\ \A x \in {a} : g[x] = f[x]
  OBVIOUS
<1> HIDE DEF g
<1>2. SumFunction(g) = f[a]
  BY <1>1, SumSingle
<1>3. SumFunction(f) = SumFunction(g) + SumFunction(h) /\ SumFunction(f) \in Int /\ SumFunction(h) \in Int
  BY <1>1, SumParts
<1> QED  BY <1>1, <1>2, <1>3

OrdersHold(os, s)      == SumFunction([o \in os |-> InOrder(o, s)])
WithdrawalsHold(ws, s) == SumFunction([w \in ws |-> InWithdrawal(w, s)])
EscrowsHold(es, s)     == SumFunction([e \in es |-> InEscrow(e, s)])
ConversionsHold(cs, s) == SumFunction([c \in cs |-> InConversion(c, s)])

LEMMA OrdersWithout ==
  ASSUME NEW os \in SUBSET Order, IsFiniteSet(os), NEW o \in os, NEW s \in Symbols
  PROVE  /\ OrdersHold(os, s) = OrdersHold(os \ {o}, s) + InOrder(o, s)
         /\ OrdersHold(os, s) \in Int /\ OrdersHold(os \ {o}, s) \in Int
<1> DEFINE f == [p \in os |-> InOrder(p, s)]
           h == [p \in os \ {o} |-> InOrder(p, s)]
<1>1. DOMAIN f = os /\ DOMAIN h = os \ {o} /\ (\A p \in os : f[p] \in Int) /\ \A p \in os \ {o} : h[p] = f[p]
  BY DEF InOrder, Order
<1>2. f[o] = InOrder(o, s)
  OBVIOUS
<1> HIDE DEF f, h
<1>3. SumFunction(f) = SumFunction(h) + f[o] /\ SumFunction(f) \in Int /\ SumFunction(h) \in Int
  BY <1>1, SumWithout
<1> QED  BY <1>2, <1>3 DEF OrdersHold, f, h

LEMMA OrdersWith ==
  ASSUME NEW os \in SUBSET Order, IsFiniteSet(os), NEW o \in Order, o \notin os, NEW s \in Symbols
  PROVE  /\ OrdersHold(os \cup {o}, s) = OrdersHold(os, s) + InOrder(o, s) /\ IsFiniteSet(os \cup {o})
         /\ OrdersHold(os \cup {o}, s) \in Int /\ OrdersHold(os, s) \in Int
<1>1. (os \cup {o}) \ {o} = os /\ os \cup {o} \in SUBSET Order /\ o \in os \cup {o}
  OBVIOUS
<1>2. IsFiniteSet(os \cup {o})
  BY FS_AddElement
<1> QED  BY <1>1, <1>2, OrdersWithout

(***************************************************************************)
(* The best order, by exact fractions and then by age.                     *)
(***************************************************************************)

AtLeast(p, q) == ~Greater(q, p)

LEMMA AtLeastTransitive ==
  ASSUME NEW p \in Prices, NEW q \in Prices, NEW r \in Prices, AtLeast(p, q), AtLeast(q, r)
  PROVE  AtLeast(p, r)
<1> DEFINE a == p[1]  b == p[2]  c == q[1]  d == q[2]  e == r[1]  g == r[2]
<1>1. a \in Pos /\ b \in Pos /\ c \in Pos /\ d \in Pos /\ e \in Pos /\ g \in Pos
  BY PriceType
<1>2. ~(c * b > a * d) /\ ~(e * d > c * g)
  BY DEF AtLeast, Greater
<1>3. AtLeast(p, r) <=> ~(e * b > a * g)
  BY DEF AtLeast, Greater
<1> HIDE DEF a, b, c, d, e, g
<1>4. c * b <= a * d /\ e * d <= c * g
  BY <1>1, <1>2 DEF Pos
<1>5. (c * b) * g <= (a * d) * g /\ (e * d) * b <= (c * g) * b
  BY <1>1, <1>4, Mono, Product DEF Pos
<1>6. (e * b) * d = (e * d) * b /\ (c * g) * b = (c * b) * g /\ (a * d) * g = (a * g) * d
  BY <1>1 DEF Pos
<1>7. (e * b) * d \in Nat /\ (c * b) * g \in Nat /\ (a * g) * d \in Nat /\ e * b \in Nat /\ a * g \in Nat
  BY <1>1, Product DEF Pos
<1>8. (e * b) * d <= (a * g) * d
  BY <1>5, <1>6, <1>7
<1>9. e * b <= a * g
  BY <1>1, <1>7, <1>8, Cancel
<1> QED  BY <1>3, <1>7, <1>9

LEMMA BeforeOrders ==
  ASSUME NEW x \in Order, NEW y \in Order, NEW z \in Order
  PROVE  /\ Before(x, y) /\ Before(y, z) => Before(x, z)
         /\ x.num # y.num => Before(x, y) \/ Before(y, x)
<1> DEFINE G(u, v) == Greater(u.price, v.price)
<1>1. \A u, v, w \in Order : ~G(v, u) /\ ~G(w, v) => ~G(w, u)
  BY AtLeastTransitive DEF AtLeast, Order
<1>2. \A u, v \in Order : G(u, v) => ~G(v, u)
  <2> TAKE u, v \in Order
  <2> DEFINE a == u.price[1]  b == u.price[2]  c == v.price[1]  d == v.price[2]
  <2>1. a \in Pos /\ b \in Pos /\ c \in Pos /\ d \in Pos
    BY PriceType DEF Order
  <2>2. G(u, v) <=> a * d > c * b
    BY DEF Greater
  <2>3. G(v, u) <=> c * b > a * d
    BY DEF Greater
  <2>4. a * d \in Nat /\ c * b \in Nat
    BY <2>1 DEF Pos
  <2> HIDE DEF a, b, c, d, G
  <2> QED  BY <2>2, <2>3, <2>4
<1>3. x.num \in Nat /\ y.num \in Nat /\ z.num \in Nat
  BY DEF Order
<1>4. Before(x, y) <=> G(x, y) \/ (~G(y, x) /\ x.num < y.num)
  BY DEF Before
<1>5. Before(y, z) <=> G(y, z) \/ (~G(z, y) /\ y.num < z.num)
  BY DEF Before
<1>6. Before(x, z) <=> G(x, z) \/ (~G(z, x) /\ x.num < z.num)
  BY DEF Before
<1>7. Before(y, x) <=> G(y, x) \/ (~G(x, y) /\ y.num < x.num)
  BY DEF Before
<1> HIDE DEF G
<1> QED  BY <1>1, <1>2, <1>3, <1>4, <1>5, <1>6, <1>7

Distinct(os) == \A o, p \in os : o.num = p.num => o = p

LEMMA BestIn ==
  ASSUME NEW os \in SUBSET Order, IsFiniteSet(os), os # {}, Distinct(os)
  PROVE  Best(os) \in os
<1> DEFINE B(T) == \E o \in T : \A p \in T \ {o} : Before(o, p)
           G == {T \in SUBSET os : T = {} \/ B(T)}
<1>1. {} \in G
  OBVIOUS
<1>2. ASSUME NEW T \in SUBSET os, NEW x \in os \ T, T \in G PROVE T \cup {x} \in G
  <2>1. CASE T = {}
    <3>1. \A p \in (T \cup {x}) \ {x} : Before(x, p)
      BY <2>1
    <3> QED  BY <3>1
  <2>2. CASE T # {}
    <3>1. PICK o \in T : \A p \in T \ {o} : Before(o, p)
      BY <1>2, <2>2
    <3>2. o \in Order /\ x \in Order /\ o.num # x.num
      BY <1>2 DEF Distinct
    <3>3. CASE Before(o, x)
      <4>1. \A p \in (T \cup {x}) \ {o} : Before(o, p)
        BY <3>1, <3>3
      <4> QED  BY <4>1
    <3>4. CASE Before(x, o)
      <4>1. \A p \in (T \cup {x}) \ {x} : Before(x, p)
        BY <3>1, <3>2, <3>4, BeforeOrders
      <4> QED  BY <4>1
    <3> QED  BY <3>2, <3>3, <3>4, BeforeOrders
  <2> QED  BY <2>1, <2>2
<1>3. os \in G
  <2> HIDE DEF B
  <2> QED  BY <1>1, <1>2, Subsets
<1>4. \E o \in os : \A p \in os \ {o} : Before(o, p)
  BY <1>3
<1> QED  BY <1>4 DEF Best

(***************************************************************************)
(* One match.                                                              *)
(***************************************************************************)

BookOk(os) ==
  /\ os \in SUBSET Order /\ IsFiniteSet(os) /\ Distinct(os)
  /\ \A o \in os : Asks(o)
  /\ \A o, p \in os : ~Crosses(o, p)

AtLimit(fs) == \A f \in fs : f.gets >= Times(f.pays, f.price) /\ f.gets > 0

MatchOk(m) ==
  /\ m.balance \in Purses /\ BookOk(m.orders) /\ AtLimit(m.fills)
  /\ m.new \in Order /\ (m.new.amt # 0 => Asks(m.new))
  /\ \A o \in m.orders : o.num # m.new.num

Worth(m, s) == Owned(m.balance, s) + OrdersHold(m.orders, s) + InOrder(m.new, s)

Looked(m) == m.new.amt = 0 \/ Matching(m.orders, m.new) = {}

LEMMA MatchingFacts ==
  ASSUME NEW os, BookOk(os), NEW n \in Order
  PROVE  /\ Matching(os, n) \in SUBSET os /\ IsFiniteSet(Matching(os, n))
         /\ Matching(os, n) # {} => Best(Matching(os, n)) \in Matching(os, n)
<1>1. Matching(os, n) \in SUBSET os /\ IsFiniteSet(Matching(os, n))
  BY FS_Subset DEF Matching, BookOk
<1>2. Matching(os, n) \in SUBSET Order /\ Distinct(Matching(os, n))
  BY <1>1 DEF BookOk, Distinct
<1> QED  BY <1>1, <1>2, BestIn

LEMMA MatchStep ==
  ASSUME NEW m, MatchOk(m), ~Looked(m)
  PROVE  LET t == MatchOne(m)
         IN  /\ MatchOk(t) /\ \A s \in Symbols : Worth(t, s) = Worth(m, s)
             /\ t.new = [m.new EXCEPT !.amt = t.new.amt]
             /\ t.new.amt # 0 => /\ Matching(t.orders, t.new) \in SUBSET Matching(m.orders, m.new)
                                 /\ Matching(t.orders, t.new) # Matching(m.orders, m.new)
<1> DEFINE n  == m.new
           o  == Best(Matching(m.orders, n))
           p  == Paid(n, o)
           fn == Fill(n, p.new)
           fo == Fill(o, p.old)
           b0 == Credit(m.balance, n.seller, o.sell, p.old)
           b1 == Credit(b0, n.seller, n.sell, fn.refund)
           b3 == Credit(b1, o.seller, n.sell, p.new)
           b2 == Credit(b3, o.seller, o.sell, fo.refund)
           n1 == [n EXCEPT !.amt = fn.rest]
           o1 == [o EXCEPT !.amt = fo.rest]
           os == (m.orders \ {o}) \cup (IF fo.rest = 0 THEN {} ELSE {o1})
           f1 == [pays |-> p.new, gets |-> p.old, price |-> n.price]
           f2 == [pays |-> p.old, gets |-> p.new, price |-> o.price]
           t  == MatchOne(m)
<1>1. t = [balance |-> b2, new |-> n1, orders |-> os, fills |-> m.fills \cup {f1, f2}]
  BY DEF MatchOne, Looked
<1>2. n \in Order /\ Asks(n) /\ BookOk(m.orders) /\ m.balance \in Purses
  BY DEF MatchOk, Looked
<1>3. o \in m.orders /\ o \in Order /\ Asks(o) /\ Crosses(o, n) /\ o.num # n.num
  <2>1. o \in Matching(m.orders, n)
    BY <1>2, MatchingFacts DEF Looked
  <2> QED  BY <1>2, <2>1 DEF Matching, BookOk, MatchOk
<1>4. t.balance = b2 /\ t.new = n1 /\ t.orders = os /\ t.fills = m.fills \cup {f1, f2}
  BY <1>1
<1> HIDE DEF t, o, n
<1>5. /\ p.new \in Nat /\ p.old \in Nat /\ p.new <= n.amt /\ p.old <= o.amt
      /\ p.new = n.amt \/ p.old = o.amt
      /\ p.old >= Times(p.new, n.price) /\ p.old > 0
      /\ p.new >= Times(p.old, o.price) /\ p.new > 0
  BY <1>2, <1>3, PaidFacts
<1> HIDE DEF p
<1>6. /\ fn.rest \in Nat /\ fn.refund \in Nat /\ fn.rest + fn.refund = n.amt - p.new
      /\ fn.rest # 0 => fn.rest > 0 /\ Times(fn.rest, n.price) > 0
      /\ p.new = n.amt => fn.rest = 0
  BY <1>2, <1>5, FillFacts
<1>7. /\ fo.rest \in Nat /\ fo.refund \in Nat /\ fo.rest + fo.refund = o.amt - p.old
      /\ fo.rest # 0 => fo.rest > 0 /\ Times(fo.rest, o.price) > 0
      /\ p.old = o.amt => fo.rest = 0
  BY <1>3, <1>5, FillFacts
<1> HIDE DEF fn, fo
<1>8. n.seller \in Accounts /\ o.seller \in Accounts /\ n.sell \in Symbols /\ o.sell \in Symbols /\ n.sell # o.sell
      /\ n.amt \in Nat /\ o.amt \in Nat
  <2>1. o.sell = Other(n.sell)
    BY <1>3 DEF Crosses
  <2> QED  BY <1>2, <1>3, <2>1 DEF Order, Other, Symbols
<1>9. n1 \in Order /\ n1.amt = fn.rest /\ n1.price = n.price /\ n1.sell = n.sell /\ n1.num = n.num
      /\ (n1.amt # 0 => Asks(n1))
  BY <1>2, <1>6 DEF Order, Asks
<1>10. o1 \in Order /\ o1.amt = fo.rest /\ o1.price = o.price /\ o1.sell = o.sell /\ o1.num = o.num
      /\ (o1.amt # 0 => Asks(o1))
  BY <1>3, <1>7 DEF Order, Asks
<1> HIDE DEF n1, o1
<1>11. BookOk(os)
  <2>1. m.orders \ {o} \in SUBSET Order /\ IsFiniteSet(m.orders \ {o})
    BY <1>2, FS_Subset DEF BookOk
  <2>2. os \in SUBSET Order /\ IsFiniteSet(os)
    <3>1. IsFiniteSet((m.orders \ {o}) \cup {o1}) /\ (m.orders \ {o}) \cup {} = m.orders \ {o}
      BY <2>1, FS_AddElement
    <3>2. os = m.orders \ {o} \/ os = (m.orders \ {o}) \cup {o1}
      OBVIOUS
    <3> QED  BY <2>1, <1>10, <3>1, <3>2
  <2>3. \A x \in os : x \in m.orders \ {o} \/ (x = o1 /\ fo.rest # 0)
    OBVIOUS
  <2>4. \A x \in m.orders \ {o} : x.num # o1.num
    BY <1>2, <1>3, <1>10 DEF BookOk, Distinct
  <2>5. Distinct(os)
    BY <1>2, <2>3, <2>4 DEF BookOk, Distinct
  <2>6. \A x \in os : Asks(x)
    BY <1>2, <1>10, <2>3 DEF BookOk
  <2>7. \A x \in m.orders : ~Crosses(x, o1) /\ ~Crosses(o1, x)
    BY <1>2, <1>3, <1>10 DEF BookOk, Crosses
  <2>8. ~Crosses(o1, o1)
    BY <1>10, CrossPrices
  <2>9. \A x, y \in os : ~Crosses(x, y)
    BY <1>2, <2>3, <2>7, <2>8 DEF BookOk
  <2> HIDE DEF os
  <2> QED  BY <2>2, <2>5, <2>6, <2>9 DEF BookOk
<1>12. b0 \in Purses /\ b1 \in Purses /\ b3 \in Purses /\ b2 \in Purses
  <2>1. \A b \in Purses, a \in Accounts, s \in Symbols, x \in Nat : b[a][s] + x >= 0 /\ x \in Int
    BY DEF Purses
  <2>2. \A b \in Purses, a \in Accounts, s \in Symbols, x \in Nat : Credit(b, a, s, x) \in Purses
    BY <2>1, CreditPurse
  <2>3. b0 \in Purses
    BY <1>2, <1>5, <1>8, <2>2
  <2> HIDE DEF b0
  <2>4. b1 \in Purses
    BY <2>3, <1>6, <1>8, <2>2
  <2> HIDE DEF b1
  <2>5. b3 \in Purses
    BY <2>4, <1>5, <1>8, <2>2
  <2> HIDE DEF b3
  <2>6. b2 \in Purses
    BY <2>5, <1>7, <1>8, <2>2
  <2> QED  BY <2>3, <2>4, <2>5, <2>6
<1>13. AtLimit(m.fills \cup {f1, f2})
  BY <1>5 DEF AtLimit, MatchOk
<1>14. \A x \in os : x.num # n1.num
  BY <1>3, <1>9, <1>10 DEF MatchOk, n
<1>15. MatchOk(t)
  BY <1>4, <1>9, <1>11, <1>12, <1>13, <1>14 DEF MatchOk
<1>16. ASSUME NEW s \in Symbols PROVE Worth(t, s) = Worth(m, s)
  <2>1. Owned(b2, s) = Owned(m.balance, s) + (IF s = o.sell THEN p.old + fo.refund ELSE fn.refund + p.new)
    <3>1. m.balance \in Balances /\ b0 \in Balances /\ b1 \in Balances /\ b3 \in Balances /\ Owned(m.balance, s) \in Int
      BY <1>2, <1>12, PursesAreBalances, OwnedType
    <3>2. Owned(b0, s) = Owned(m.balance, s) + IF s = o.sell THEN p.old ELSE 0
      BY <3>1, <1>5, <1>8, CreditOwned
    <3> HIDE DEF b0
    <3>3. Owned(b1, s) = Owned(b0, s) + IF s = n.sell THEN fn.refund ELSE 0
      BY <3>1, <1>6, <1>8, CreditOwned
    <3> HIDE DEF b1
    <3>4. Owned(b3, s) = Owned(b1, s) + IF s = n.sell THEN p.new ELSE 0
      BY <3>1, <1>5, <1>8, CreditOwned
    <3> HIDE DEF b3
    <3>5. Owned(b2, s) = Owned(b3, s) + IF s = o.sell THEN fo.refund ELSE 0
      BY <3>1, <1>7, <1>8, CreditOwned
    <3> HIDE DEF b2
    <3>6. s = n.sell \/ s = o.sell
      BY <1>8 DEF Symbols
    <3> QED  BY <3>1, <3>2, <3>3, <3>4, <3>5, <3>6, <1>5, <1>6, <1>7, <1>8
  <2>2. /\ OrdersHold(m.orders, s) = OrdersHold(m.orders \ {o}, s) + InOrder(o, s)
        /\ OrdersHold(m.orders, s) \in Int /\ OrdersHold(m.orders \ {o}, s) \in Int
    BY <1>2, <1>3, OrdersWithout DEF BookOk
  <2>3. OrdersHold(os, s) = OrdersHold(m.orders \ {o}, s) + IF s = o.sell THEN fo.rest ELSE 0
    <3>1. CASE fo.rest = 0
      <4>1. os = m.orders \ {o}
        BY <3>1
      <4> QED  BY <4>1, <3>1, <2>2
    <3>2. CASE fo.rest # 0
      <4>1. os = (m.orders \ {o}) \cup {o1} /\ IsFiniteSet(m.orders \ {o}) /\ m.orders \ {o} \in SUBSET Order
        BY <3>2, <1>2, FS_Subset DEF BookOk
      <4>2. o1 \notin m.orders \ {o}
        BY <1>2, <1>3, <1>10 DEF BookOk, Distinct
      <4>3. OrdersHold(os, s) = OrdersHold(m.orders \ {o}, s) + InOrder(o1, s)
        BY <4>1, <4>2, <1>10, OrdersWith
      <4> QED  BY <4>3, <1>10 DEF InOrder
    <3> QED  BY <3>1, <3>2
  <2>4. InOrder(n1, s) = (IF s = n.sell THEN fn.rest ELSE 0) /\ InOrder(n, s) = (IF s = n.sell THEN n.amt ELSE 0)
        /\ InOrder(o, s) = (IF s = o.sell THEN o.amt ELSE 0)
    BY <1>9 DEF InOrder
  <2>5. Worth(t, s) = Owned(b2, s) + OrdersHold(os, s) + InOrder(n1, s)
    BY <1>4 DEF Worth
  <2>6. Worth(m, s) = Owned(m.balance, s) + OrdersHold(m.orders, s) + InOrder(n, s)
    BY DEF Worth, n
  <2>7. Owned(m.balance, s) \in Int
    BY <1>2, PursesAreBalances, OwnedType
  <2>8. s = n.sell \/ s = o.sell
    BY <1>8 DEF Symbols
  <2> HIDE DEF os, b2
  <2>9. CASE s = n.sell
    BY <2>1, <2>2, <2>3, <2>4, <2>5, <2>6, <2>7, <2>9, <1>5, <1>6, <1>8
  <2>10. CASE s = o.sell
    BY <2>1, <2>2, <2>3, <2>4, <2>5, <2>6, <2>7, <2>10, <1>5, <1>7, <1>8
  <2> QED  BY <2>8, <2>9, <2>10
<1>17. n1 = [m.new EXCEPT !.amt = n1.amt]
  BY <1>9 DEF n1, n
<1>18. ASSUME n1.amt # 0
       PROVE  /\ Matching(os, n1) \in SUBSET Matching(m.orders, m.new)
              /\ Matching(os, n1) # Matching(m.orders, m.new)
  <2>1. fo.rest = 0
    BY <1>5, <1>6, <1>7, <1>9, <1>18
  <2>2. os = m.orders \ {o}
    BY <2>1
  <2>3. \A x : Crosses(x, n1) <=> Crosses(x, m.new)
    BY <1>9 DEF Crosses, n
  <2>4. o \in Matching(m.orders, m.new)
    BY <1>3 DEF Matching, n
  <2> QED  BY <2>2, <2>3, <2>4 DEF Matching
<1> HIDE DEF os, b2, f1, f2
<1>19. t.new = [m.new EXCEPT !.amt = t.new.amt]
  BY <1>4, <1>17
<1>20. t.new.amt # 0 => /\ Matching(t.orders, t.new) \in SUBSET Matching(m.orders, m.new)
                        /\ Matching(t.orders, t.new) # Matching(m.orders, m.new)
  BY <1>4, <1>18
<1> QED  BY <1>15, <1>16, <1>19, <1>20 DEF t

(***************************************************************************)
(* The loop of matches.                                                    *)
(***************************************************************************)

Turn(f, k, m) == IF k = 0 THEN m ELSE MatchOne(f[k - 1])

LEMMA LoopExists ==
  ASSUME NEW m
  PROVE  \E f : f = [k \in Nat |-> Turn(f, k, m)]
<1> DEFINE P(n) == \E f : f = [k \in 0 .. n |-> Turn(f, k, m)]
           F(n) == CHOOSE f : f = [k \in 0 .. n |-> Turn(f, k, m)]
           G == {n \in Nat : P(n)}
<1>1. P(0)
  <2> DEFINE f == [k \in 0 .. 0 |-> m]
  <2>1. f = [k \in 0 .. 0 |-> Turn(f, k, m)]
    BY DEF Turn
  <2> QED  BY <2>1
<1>2. ASSUME NEW n \in Nat, P(n) PROVE P(n + 1)
  <2>1. PICK f : f = [k \in 0 .. n |-> Turn(f, k, m)]
    BY <1>2
  <2> DEFINE g == [k \in 0 .. n + 1 |-> IF k = n + 1 THEN MatchOne(f[n]) ELSE f[k]]
  <2>2. ASSUME NEW k \in 0 .. n + 1 PROVE g[k] = Turn(g, k, m)
    <3>1. CASE k = 0
      BY <2>1, <3>1 DEF Turn
    <3>2. CASE k = n + 1
      <4>1. k # 0 /\ k - 1 = n /\ g[k] = MatchOne(f[n]) /\ g[n] = f[n]
        BY <3>2
      <4> QED  BY <4>1 DEF Turn
    <3>3. CASE k # 0 /\ k # n + 1
      <4>1. k \in 0 .. n /\ k - 1 \in 0 .. n + 1 /\ k - 1 # n + 1
        BY <3>3
      <4>2. g[k] = f[k] /\ g[k - 1] = f[k - 1] /\ f[k] = Turn(f, k, m)
        BY <2>1, <3>3, <4>1
      <4> QED  BY <3>3, <4>2 DEF Turn
    <3> QED  BY <3>1, <3>2, <3>3
  <2>3. g = [k \in 0 .. n + 1 |-> Turn(g, k, m)]
    BY <2>2
  <2> QED  BY <2>3
<1> HIDE DEF P
<1>3. Nat \subseteq G
  <2>1. 0 \in G /\ \A n \in Nat : n \in G => n + 1 \in G
    BY <1>1, <1>2
  <2> QED  BY ONLY <2>1, Numbers
<1>4. ASSUME NEW n \in Nat PROVE F(n) = [k \in 0 .. n |-> Turn(F(n), k, m)]
  <2>1. P(n)
    BY <1>3
  <2> QED  BY <2>1 DEF P
<1>5. ASSUME NEW n \in Nat, NEW k \in 0 .. n PROVE F(n)[k] = IF k = 0 THEN m ELSE MatchOne(F(n)[k - 1])
  BY <1>4 DEF Turn
<1> HIDE DEF F
<1> DEFINE H == {k \in Nat : \A n \in Nat : k <= n => F(n + 1)[k] = F(n)[k]}
<1>6. Nat \subseteq H
  <2>1. 0 \in H
    <3> SUFFICES ASSUME NEW n \in Nat PROVE F(n + 1)[0] = F(n)[0]
      OBVIOUS
    <3>1. 0 \in 0 .. n /\ 0 \in 0 .. n + 1 /\ n + 1 \in Nat
      OBVIOUS
    <3> QED  BY <3>1, <1>5
  <2>2. ASSUME NEW k \in Nat, k \in H PROVE k + 1 \in H
    <3> SUFFICES ASSUME NEW n \in Nat, k + 1 <= n PROVE F(n + 1)[k + 1] = F(n)[k + 1]
      OBVIOUS
    <3>1. k + 1 \in 0 .. n /\ k + 1 \in 0 .. n + 1 /\ n + 1 \in Nat /\ k + 1 # 0 /\ (k + 1) - 1 = k /\ k <= n
      OBVIOUS
    <3>2. F(n + 1)[k] = F(n)[k]
      BY <2>2, <3>1
    <3> QED  BY <3>1, <3>2, <1>5
  <2> QED  BY <2>1, <2>2, Numbers
<1> DEFINE g == [k \in Nat |-> F(k)[k]]
<1>7. ASSUME NEW k \in Nat PROVE g[k] = Turn(g, k, m)
  <2>1. CASE k = 0
    BY <1>5, <2>1 DEF Turn
  <2>2. CASE k # 0
    <3>1. k - 1 \in Nat /\ k \in 0 .. k /\ k - 1 <= k - 1 /\ (k - 1) + 1 = k
      BY <2>2
    <3>2. F(k)[k] = MatchOne(F(k)[k - 1])
      BY <3>1, <2>2, <1>5
    <3>3. F(k)[k - 1] = F(k - 1)[k - 1]
      BY <3>1, <1>6
    <3> QED  BY <2>2, <3>1, <3>2, <3>3 DEF Turn
  <2> QED  BY <2>1, <2>2
<1>8. g = [k \in Nat |-> Turn(g, k, m)]
  BY <1>7
<1> QED  BY <1>8

LEMMA LoopTurns ==
  ASSUME NEW n, NEW bal
  PROVE  \E f : /\ ApplyOrder(n, bal) = f[Rounds(n)]
                /\ f[0] = [balance |-> bal, new |-> n, orders |-> orders, fills |-> {}]
                /\ \A k \in Nat : f[k + 1] = MatchOne(f[k])
<1> DEFINE m == [balance |-> bal, new |-> n, orders |-> orders, fills |-> {}]
           f == CHOOSE g : g = [k \in Nat |-> Turn(g, k, m)]
<1>1. ApplyOrder(n, bal) = f[Rounds(n)]
  BY DEF ApplyOrder, Turn
<1> HIDE DEF m
<1>2. f = [k \in Nat |-> Turn(f, k, m)]
  BY LoopExists
<1> HIDE DEF f
<1>3. f[0] = m
  BY <1>2 DEF Turn
<1>4. ASSUME NEW k \in Nat PROVE f[k + 1] = MatchOne(f[k])
  <2>1. k + 1 \in Nat /\ k + 1 # 0 /\ (k + 1) - 1 = k
    OBVIOUS
  <2> QED  BY <1>2, <2>1 DEF Turn
<1> QED  BY <1>1, <1>3, <1>4 DEF m

LEMMA ApplyOrderFacts ==
  ASSUME NEW n, NEW bal, MatchOk([balance |-> bal, new |-> n, orders |-> orders, fills |-> {}])
  PROVE  LET r == ApplyOrder(n, bal)
         IN  /\ MatchOk(r) /\ Looked(r) /\ r.new = [n EXCEPT !.amt = r.new.amt]
             /\ \A s \in Symbols :
                  Worth(r, s) = Worth([balance |-> bal, new |-> n, orders |-> orders, fills |-> {}], s)
<1> DEFINE m == [balance |-> bal, new |-> n, orders |-> orders, fills |-> {}]
           Left(x) == Cardinality(Matching(x.orders, x.new))
<1>0. MatchOk(m) /\ m.new = n /\ m.orders = orders
  OBVIOUS
<1>1. PICK f : /\ ApplyOrder(n, bal) = f[Rounds(n)] /\ f[0] = m
               /\ \A k \in Nat : f[k + 1] = MatchOne(f[k])
  BY LoopTurns
<1>2. Rounds(n) = Left(m)
  BY DEF Rounds
<1> HIDE DEF m
<1> DEFINE Good(x) == /\ MatchOk(x) /\ x.new = [n EXCEPT !.amt = x.new.amt]
                      /\ \A s \in Symbols : Worth(x, s) = Worth(m, s)
           G == {k \in Nat : Good(f[k]) /\ (Looked(f[k]) \/ Left(f[k]) + k <= Rounds(n))}
<1>3. \A x : MatchOk(x) => Left(x) \in Nat /\ (Left(x) = 0 => Looked(x)) /\ IsFiniteSet(Matching(x.orders, x.new))
  <2> TAKE x
  <2> HAVE MatchOk(x)
  <2>1. IsFiniteSet(Matching(x.orders, x.new))
    BY MatchingFacts DEF MatchOk
  <2> QED  BY <2>1, FS_CardinalityType, FS_EmptySet DEF Looked
<1>4. 0 \in G
  <2>1. n \in Order
    BY <1>0 DEF MatchOk
  <2>2. n = [n EXCEPT !.amt = n.amt]
    BY <2>1 DEF Order
  <2>3. Left(m) \in Nat
    BY <1>0, <1>3
  <2> HIDE DEF Left
  <2> QED  BY <1>0, <1>1, <1>2, <2>2, <2>3
<1>5. ASSUME NEW k \in Nat, k \in G PROVE k + 1 \in G
  <2> DEFINE x == f[k]  y == f[k + 1]
  <2>1. Good(x) /\ (Looked(x) \/ Left(x) + k <= Rounds(n)) /\ y = MatchOne(x)
    BY <1>1, <1>5
  <2> HIDE DEF x, y
  <2>2. CASE Looked(x)
    <3>1. y = x
      BY <2>1, <2>2 DEF MatchOne, Looked
    <3> QED  BY <2>1, <2>2, <3>1 DEF x, y
  <2>3. CASE ~Looked(x)
    <3>1. /\ MatchOk(y) /\ \A s \in Symbols : Worth(y, s) = Worth(x, s)
          /\ y.new = [x.new EXCEPT !.amt = y.new.amt]
          /\ y.new.amt # 0 => /\ Matching(y.orders, y.new) \in SUBSET Matching(x.orders, x.new)
                              /\ Matching(y.orders, y.new) # Matching(x.orders, x.new)
      BY <2>1, <2>3, MatchStep
    <3>2. y.new = [n EXCEPT !.amt = y.new.amt]
      <4>1. n \in Order
        BY <1>0 DEF MatchOk
      <4>2. x.new = [n EXCEPT !.amt = x.new.amt]
        BY <2>1
      <4>3. [[n EXCEPT !.amt = x.new.amt] EXCEPT !.amt = y.new.amt] = [n EXCEPT !.amt = y.new.amt]
        BY <4>1 DEF Order
      <4> QED  BY <3>1, <4>2, <4>3
    <3>3. Good(y)
      BY <2>1, <3>1, <3>2
    <3>4. ASSUME y.new.amt # 0 PROVE Left(y) + (k + 1) <= Rounds(n)
      <4>1. IsFiniteSet(Matching(x.orders, x.new)) /\ Left(x) \in Nat /\ Left(y) \in Nat
        BY <1>3, <2>1, <3>1
      <4>2. Left(y) < Left(x)
        BY <3>1, <3>4, <4>1, FS_Subset
      <4>3. Rounds(n) \in Nat
        BY <1>0, <1>2, <1>3
      <4> HIDE DEF Left
      <4> QED  BY <2>1, <2>3, <4>1, <4>2, <4>3
    <3>5. Looked(y) \/ Left(y) + (k + 1) <= Rounds(n)
      BY <3>4 DEF Looked
    <3> HIDE DEF Good, Left
    <3> QED  BY <3>3, <3>5 DEF y
  <2> QED  BY <2>2, <2>3
<1>6. Rounds(n) \in Nat
  BY <1>0, <1>2, <1>3
<1>7. Rounds(n) \in G
  <2> HIDE DEF Good, Left
  <2>1. 0 \in G /\ \A k \in Nat : k \in G => k + 1 \in G
    BY <1>4, <1>5
  <2> HIDE DEF G
  <2>2. Nat \subseteq G
    BY <2>1, Numbers
  <2> QED  BY <1>6, <2>2
<1> DEFINE r == f[Rounds(n)]
<1>8. Good(r) /\ (Looked(r) \/ Left(r) + Rounds(n) <= Rounds(n))
  BY <1>7
<1> HIDE DEF r
<1>9. Looked(r)
  <2>1. Left(r) \in Nat /\ (Left(r) = 0 => Looked(r))
    BY <1>3, <1>8
  <2> HIDE DEF Left
  <2> QED  BY <1>6, <1>8, <2>1
<1>10. ApplyOrder(n, bal) = r
  BY <1>1 DEF r
<1> QED  BY <1>8, <1>9, <1>10 DEF m

(***************************************************************************)
(* The invariant.                                                          *)
(***************************************************************************)

Withdrawal == [from : Accounts, id : Ids, to : Accounts, sym : Symbols, amt : Nat, complete : Int]
Conversion == [owner : Accounts, id : Ids, amt : Nat, date : Int]
Escrow     == [from : Accounts, id : Ids, to : Accounts, agent : Accounts, amt : [Symbols -> Nat], fee : Nat,
               feeSym : Symbols, deadline : Int, expiration : Int,
               toApproved : BOOLEAN, agentApproved : BOOLEAN, disputed : BOOLEAN]

TypeOk ==
  /\ balance \in Purses /\ savings \in Purses /\ supply \in [Symbols -> Int] /\ requests \in [Accounts -> Int]
  /\ withdrawals \in SUBSET Withdrawal /\ IsFiniteSet(withdrawals)
  /\ conversions \in SUBSET Conversion /\ IsFiniteSet(conversions)
  /\ escrows \in SUBSET Escrow /\ IsFiniteSet(escrows)
  /\ now \in Nat

\* the key of an escrow, by_from_id
OneEscrow == \A d, e \in escrows : <<d.from, d.id>> = <<e.from, e.id>> => d = e

Balanced == \A s \in Symbols : supply[s] = Held(s)
Counted  == \A a \in Accounts : requests[a] = Cardinality({w \in withdrawals : w.from = a})

\* the fee of an escrow that both have approved was paid out
FeePaid == \A e \in escrows : Approved(e) => e.fee = 0

IInv == TypeOk /\ OneEscrow /\ FeePaid /\ Balanced /\ Counted /\ BookOk(orders) /\ AtLimit(fills)

Together(b, sv, os, ws, es, cs, s) ==
  Owned(b, s) + Owned(sv, s) + OrdersHold(os, s) + WithdrawalsHold(ws, s) + EscrowsHold(es, s) + ConversionsHold(cs, s)

LEMMA HeldIs == \A s \in Symbols : Held(s) = Together(balance, savings, orders, withdrawals, escrows, conversions, s)
BY DEF Held, Together, OrdersHold, WithdrawalsHold, EscrowsHold, ConversionsHold

LEMMA OrdersSplit ==
  ASSUME NEW os \in SUBSET Order, IsFiniteSet(os), NEW R \in SUBSET os, NEW s \in Symbols
  PROVE  /\ OrdersHold(os, s) = OrdersHold(R, s) + OrdersHold(os \ R, s)
         /\ OrdersHold(os, s) \in Int /\ OrdersHold(R, s) \in Int /\ OrdersHold(os \ R, s) \in Int
<1> DEFINE f == [p \in os |-> InOrder(p, s)]
           g == [p \in R |-> InOrder(p, s)]
           h == [p \in os \ R |-> InOrder(p, s)]
<1>1. DOMAIN f = os /\ DOMAIN g = R /\ DOMAIN h = os \ R /\ (\A p \in os : f[p] \in Int)
      /\ (\A p \in R : g[p] = f[p]) /\ \A p \in os \ R : h[p] = f[p]
  BY DEF InOrder, Order
<1> HIDE DEF f, g, h
<1>2. /\ SumFunction(f) = SumFunction(g) + SumFunction(h)
      /\ SumFunction(f) \in Int /\ SumFunction(g) \in Int /\ SumFunction(h) \in Int
  BY ONLY <1>1, IsFiniteSet(os), R \in SUBSET os, SumParts
<1> QED  BY <1>2 DEF OrdersHold, f, g, h

LEMMA WithdrawalsSplit ==
  ASSUME NEW ws \in SUBSET Withdrawal, IsFiniteSet(ws), NEW R \in SUBSET ws, NEW s \in Symbols
  PROVE  /\ WithdrawalsHold(ws, s) = WithdrawalsHold(R, s) + WithdrawalsHold(ws \ R, s)
         /\ WithdrawalsHold(ws, s) \in Int /\ WithdrawalsHold(R, s) \in Int /\ WithdrawalsHold(ws \ R, s) \in Int
<1> DEFINE f == [p \in ws |-> InWithdrawal(p, s)]
           g == [p \in R |-> InWithdrawal(p, s)]
           h == [p \in ws \ R |-> InWithdrawal(p, s)]
<1>1. DOMAIN f = ws /\ DOMAIN g = R /\ DOMAIN h = ws \ R /\ (\A p \in ws : f[p] \in Int)
      /\ (\A p \in R : g[p] = f[p]) /\ \A p \in ws \ R : h[p] = f[p]
  BY DEF InWithdrawal, Withdrawal
<1> HIDE DEF f, g, h
<1>2. /\ SumFunction(f) = SumFunction(g) + SumFunction(h)
      /\ SumFunction(f) \in Int /\ SumFunction(g) \in Int /\ SumFunction(h) \in Int
  BY ONLY <1>1, IsFiniteSet(ws), R \in SUBSET ws, SumParts
<1> QED  BY <1>2 DEF WithdrawalsHold, f, g, h

LEMMA InEscrowType == ASSUME NEW e \in Escrow, NEW s \in Symbols PROVE InEscrow(e, s) \in Nat
<1>1. e.amt[s] \in Nat /\ e.fee \in Nat
  BY DEF Escrow
<1> QED  BY <1>1 DEF InEscrow

LEMMA EscrowsSplit ==
  ASSUME NEW es \in SUBSET Escrow, IsFiniteSet(es), NEW R \in SUBSET es, NEW s \in Symbols
  PROVE  /\ EscrowsHold(es, s) = EscrowsHold(R, s) + EscrowsHold(es \ R, s)
         /\ EscrowsHold(es, s) \in Int /\ EscrowsHold(R, s) \in Int /\ EscrowsHold(es \ R, s) \in Int
<1> DEFINE f == [p \in es |-> InEscrow(p, s)]
           g == [p \in R |-> InEscrow(p, s)]
           h == [p \in es \ R |-> InEscrow(p, s)]
<1>0. \A p \in es : InEscrow(p, s) \in Int
  BY InEscrowType
<1>1. DOMAIN f = es /\ DOMAIN g = R /\ DOMAIN h = es \ R /\ (\A p \in es : f[p] \in Int)
      /\ (\A p \in R : g[p] = f[p]) /\ \A p \in es \ R : h[p] = f[p]
  BY <1>0
<1> HIDE DEF f, g, h
<1>2. /\ SumFunction(f) = SumFunction(g) + SumFunction(h)
      /\ SumFunction(f) \in Int /\ SumFunction(g) \in Int /\ SumFunction(h) \in Int
  BY ONLY <1>1, IsFiniteSet(es), R \in SUBSET es, SumParts
<1> QED  BY <1>2 DEF EscrowsHold, f, g, h

LEMMA ConversionsSplit ==
  ASSUME NEW cs \in SUBSET Conversion, IsFiniteSet(cs), NEW R \in SUBSET cs, NEW s \in Symbols
  PROVE  /\ ConversionsHold(cs, s) = ConversionsHold(R, s) + ConversionsHold(cs \ R, s)
         /\ ConversionsHold(cs, s) \in Int /\ ConversionsHold(R, s) \in Int /\ ConversionsHold(cs \ R, s) \in Int
<1> DEFINE f == [p \in cs |-> InConversion(p, s)]
           g == [p \in R |-> InConversion(p, s)]
           h == [p \in cs \ R |-> InConversion(p, s)]
<1>1. DOMAIN f = cs /\ DOMAIN g = R /\ DOMAIN h = cs \ R /\ (\A p \in cs : f[p] \in Int)
      /\ (\A p \in R : g[p] = f[p]) /\ \A p \in cs \ R : h[p] = f[p]
  BY DEF InConversion, Conversion
<1> HIDE DEF f, g, h
<1>2. /\ SumFunction(f) = SumFunction(g) + SumFunction(h)
      /\ SumFunction(f) \in Int /\ SumFunction(g) \in Int /\ SumFunction(h) \in Int
  BY ONLY <1>1, IsFiniteSet(cs), R \in SUBSET cs, SumParts
<1> QED  BY <1>2 DEF ConversionsHold, f, g, h

\* One object more or less.
LEMMA OneWithdrawal ==
  ASSUME NEW ws \in SUBSET Withdrawal, IsFiniteSet(ws), NEW w \in Withdrawal, w \notin ws, NEW s \in Symbols
  PROVE  /\ WithdrawalsHold(ws \cup {w}, s) = WithdrawalsHold(ws, s) + InWithdrawal(w, s)
         /\ WithdrawalsHold(ws, s) \in Int /\ InWithdrawal(w, s) \in Nat
<1>1. ws \cup {w} \in SUBSET Withdrawal /\ IsFiniteSet(ws \cup {w}) /\ {w} \in SUBSET (ws \cup {w}) /\ (ws \cup {w}) \ {w} = ws
  BY FS_AddElement
<1>2. InWithdrawal(w, s) \in Nat
  BY DEF InWithdrawal, Withdrawal
<1> DEFINE f == [p \in {w} |-> InWithdrawal(p, s)]
<1>3. DOMAIN f = {w} /\ f[w] \in Int /\ f[w] = InWithdrawal(w, s)
  BY <1>2
<1> HIDE DEF f
<1>4. SumFunction(f) = InWithdrawal(w, s)
  BY <1>3, SumSingle
<1>5. WithdrawalsHold({w}, s) = InWithdrawal(w, s)
  BY <1>4 DEF WithdrawalsHold, f
<1>6. WithdrawalsHold(ws \cup {w}, s) = WithdrawalsHold({w}, s) + WithdrawalsHold((ws \cup {w}) \ {w}, s)
      /\ WithdrawalsHold((ws \cup {w}) \ {w}, s) \in Int
  BY <1>1, WithdrawalsSplit
<1>7. WithdrawalsHold((ws \cup {w}) \ {w}, s) = WithdrawalsHold(ws, s)
  BY <1>1
<1> QED  BY ONLY <1>2, <1>5, <1>6, <1>7

LEMMA AnEscrow ==
  ASSUME NEW es \in SUBSET Escrow, IsFiniteSet(es), NEW e \in Escrow, e \notin es, NEW s \in Symbols
  PROVE  /\ EscrowsHold(es \cup {e}, s) = EscrowsHold(es, s) + InEscrow(e, s)
         /\ EscrowsHold(es, s) \in Int /\ InEscrow(e, s) \in Nat
<1>1. es \cup {e} \in SUBSET Escrow /\ IsFiniteSet(es \cup {e}) /\ {e} \in SUBSET (es \cup {e}) /\ (es \cup {e}) \ {e} = es
  BY FS_AddElement
<1>2. InEscrow(e, s) \in Nat
  BY InEscrowType
<1> DEFINE f == [p \in {e} |-> InEscrow(p, s)]
<1>3. DOMAIN f = {e} /\ f[e] \in Int /\ f[e] = InEscrow(e, s)
  BY <1>2
<1> HIDE DEF f
<1>4. SumFunction(f) = InEscrow(e, s)
  BY <1>3, SumSingle
<1>5. EscrowsHold({e}, s) = InEscrow(e, s)
  BY <1>4 DEF EscrowsHold, f
<1>6. EscrowsHold(es \cup {e}, s) = EscrowsHold({e}, s) + EscrowsHold((es \cup {e}) \ {e}, s)
      /\ EscrowsHold((es \cup {e}) \ {e}, s) \in Int
  BY <1>1, EscrowsSplit
<1>7. EscrowsHold((es \cup {e}) \ {e}, s) = EscrowsHold(es, s)
  BY <1>1
<1> QED  BY ONLY <1>2, <1>5, <1>6, <1>7

LEMMA OneConversion ==
  ASSUME NEW cs \in SUBSET Conversion, IsFiniteSet(cs), NEW c \in Conversion, c \notin cs, NEW s \in Symbols
  PROVE  /\ ConversionsHold(cs \cup {c}, s) = ConversionsHold(cs, s) + InConversion(c, s)
         /\ ConversionsHold(cs, s) \in Int /\ InConversion(c, s) \in Nat
<1>1. cs \cup {c} \in SUBSET Conversion /\ IsFiniteSet(cs \cup {c}) /\ {c} \in SUBSET (cs \cup {c}) /\ (cs \cup {c}) \ {c} = cs
  BY FS_AddElement
<1>2. InConversion(c, s) \in Nat
  BY DEF InConversion, Conversion
<1> DEFINE f == [p \in {c} |-> InConversion(p, s)]
<1>3. DOMAIN f = {c} /\ f[c] \in Int /\ f[c] = InConversion(c, s)
  BY <1>2
<1> HIDE DEF f
<1>4. SumFunction(f) = InConversion(c, s)
  BY <1>3, SumSingle
<1>5. ConversionsHold({c}, s) = InConversion(c, s)
  BY <1>4 DEF ConversionsHold, f
<1>6. ConversionsHold(cs \cup {c}, s) = ConversionsHold({c}, s) + ConversionsHold((cs \cup {c}) \ {c}, s)
      /\ ConversionsHold((cs \cup {c}) \ {c}, s) \in Int
  BY <1>1, ConversionsSplit
<1>7. ConversionsHold((cs \cup {c}) \ {c}, s) = ConversionsHold(cs, s)
  BY <1>1
<1> QED  BY ONLY <1>2, <1>5, <1>6, <1>7

\* The sums that the supply is compared with are numbers.
LEMMA SumTypes ==
  ASSUME IInv, NEW s \in Symbols
  PROVE  /\ Owned(balance, s) \in Int /\ Owned(savings, s) \in Int /\ OrdersHold(orders, s) \in Int
         /\ WithdrawalsHold(withdrawals, s) \in Int /\ EscrowsHold(escrows, s) \in Int /\ ConversionsHold(conversions, s) \in Int
         /\ supply[s] = Together(balance, savings, orders, withdrawals, escrows, conversions, s)
<1>1. Owned(balance, s) \in Int /\ Owned(savings, s) \in Int
  BY PursesAreBalances, OwnedType DEF IInv, TypeOk
<1>2. OrdersHold(orders, s) \in Int
  BY OrdersSplit DEF IInv, BookOk
<1>3. WithdrawalsHold(withdrawals, s) \in Int
  BY WithdrawalsSplit DEF IInv, TypeOk
<1>4. EscrowsHold(escrows, s) \in Int
  BY EscrowsSplit DEF IInv, TypeOk
<1>5. ConversionsHold(conversions, s) \in Int
  BY ConversionsSplit DEF IInv, TypeOk
<1> QED  BY <1>1, <1>2, <1>3, <1>4, <1>5, HeldIs DEF IInv, Balanced

LEMMA HeldNext ==
  \A s \in Symbols : Held(s)' = Together(balance', savings', orders', withdrawals', escrows', conversions', s)
BY DEF Held, Together, OrdersHold, WithdrawalsHold, EscrowsHold, ConversionsHold

\* Crediting one account and symbol after another.
LEMMA CreditSteps ==
  ASSUME NEW bal \in Purses, NEW a \in Accounts, NEW s \in Symbols, NEW x \in Nat
  PROVE  /\ Credit(bal, a, s, x) \in Purses
         /\ bal[a][s] >= x => Credit(bal, a, s, -x) \in Purses
         /\ \A t \in Symbols : /\ Owned(bal, t) \in Int
                               /\ Owned(Credit(bal, a, s, x), t) = Owned(bal, t) + (IF t = s THEN x ELSE 0)
                               /\ Owned(Credit(bal, a, s, -x), t) = Owned(bal, t) + (IF t = s THEN -x ELSE 0)
<1>1. bal \in Balances /\ x \in Int /\ -x \in Int /\ bal[a][s] \in Nat
  BY PursesAreBalances DEF Purses
<1>2. bal[a][s] + x >= 0 /\ (bal[a][s] >= x => bal[a][s] + (-x) >= 0)
  BY <1>1
<1> QED  BY <1>1, <1>2, CreditPurse, CreditOwned, OwnedType

(***************************************************************************)
(* Every operation keeps the invariant.                                    *)
(***************************************************************************)

LEMMA TransferKeeps ==
  ASSUME IInv, NEW a \in Accounts, NEW to \in Accounts, NEW s \in Symbols, NEW x \in Nat, Transfer(a, to, s, x)
  PROVE  IInv'
<1>u. UNCHANGED <<savings, requests, orders, withdrawals, conversions, escrows, supply, now>> /\ fills' = {}
  BY DEF Transfer
<1> DEFINE b == Credit(balance, a, s, -x)
<1>1. b \in Purses /\ balance' = Credit(b, to, s, x) /\ balance \in Purses
  BY CreditSteps DEF Transfer, IInv, TypeOk
<1>2. \A t \in Symbols : Owned(balance, t) \in Int /\ Owned(b, t) = Owned(balance, t) + (IF t = s THEN -x ELSE 0)
  BY <1>1, CreditSteps
<1> HIDE DEF b
<1>3. balance' \in Purses /\ \A t \in Symbols : Owned(balance', t) = Owned(b, t) + (IF t = s THEN x ELSE 0)
  BY <1>1, CreditSteps
<1>4. \A t \in Symbols : Owned(balance', t) = Owned(balance, t)
  BY <1>2, <1>3
<1>5. TypeOk'
  BY <1>u, <1>3 DEF TypeOk, IInv
<1>6. Balanced'
  BY <1>u, <1>4, HeldIs, HeldNext DEF Balanced, IInv, Together
<1> QED  BY <1>u, <1>5, <1>6 DEF IInv, OneEscrow, FeePaid, Counted, BookOk, AtLimit

LEMMA ToSavingsKeeps ==
  ASSUME IInv, NEW a \in Accounts, NEW to \in Accounts, NEW s \in Symbols, NEW x \in Nat, TransferToSavings(a, to, s, x)
  PROVE  IInv'
<1>u. UNCHANGED <<requests, orders, withdrawals, conversions, escrows, supply, now>> /\ fills' = {}
  BY DEF TransferToSavings
<1>1. balance' = Credit(balance, a, s, -x) /\ savings' = Credit(savings, to, s, x) /\ balance \in Purses /\ savings \in Purses
  BY DEF TransferToSavings, IInv, TypeOk
<1>2. balance' \in Purses /\ \A t \in Symbols : Owned(balance, t) \in Int /\ Owned(balance', t) = Owned(balance, t) + (IF t = s THEN -x ELSE 0)
  BY <1>1, CreditSteps DEF TransferToSavings
<1>3. savings' \in Purses /\ \A t \in Symbols : Owned(savings, t) \in Int /\ Owned(savings', t) = Owned(savings, t) + (IF t = s THEN x ELSE 0)
  BY ONLY <1>1, to \in Accounts, s \in Symbols, x \in Nat, CreditSteps
<1>4. \A t \in Symbols : Owned(balance', t) + Owned(savings', t) = Owned(balance, t) + Owned(savings, t)
  BY <1>2, <1>3
<1>5. TypeOk'
  BY <1>u, <1>2, <1>3 DEF TypeOk, IInv
<1>6. Balanced'
  BY <1>u, <1>4, HeldIs, HeldNext DEF Balanced, IInv, Together
<1> QED  BY <1>u, <1>5, <1>6 DEF IInv, OneEscrow, FeePaid, Counted, BookOk, AtLimit

LEMMA FromSavingsKeeps ==
  ASSUME IInv, NEW a \in Accounts, NEW to \in Accounts, NEW s \in Symbols, NEW x \in Nat, NEW id \in Ids,
         TransferFromSavings(a, to, s, x, id)
  PROVE  IInv'
<1> DEFINE w == [from |-> a, id |-> id, to |-> to, sym |-> s, amt |-> x, complete |-> now + Delay]
<1>u. UNCHANGED <<balance, orders, conversions, escrows, supply, now>> /\ fills' = {}
  BY DEF TransferFromSavings
<1>1. savings' = Credit(savings, a, s, -x) /\ savings \in Purses
      /\ withdrawals' = withdrawals \cup {w} /\ requests' = [requests EXCEPT ![a] = @ + 1]
  BY DEF TransferFromSavings, IInv, TypeOk
<1>2. savings' \in Purses /\ \A t \in Symbols : Owned(savings, t) \in Int /\ Owned(savings', t) = Owned(savings, t) + (IF t = s THEN -x ELSE 0)
  BY <1>1, CreditSteps DEF TransferFromSavings
<1>3. w \in Withdrawal /\ w.from = a /\ w.sym = s /\ w.amt = x
  BY LedgerAssumption DEF Withdrawal, IInv, TypeOk
<1>4. w \notin withdrawals
  BY DEF TransferFromSavings
<1> HIDE DEF w
<1>5. withdrawals \in SUBSET Withdrawal /\ IsFiniteSet(withdrawals) /\ requests \in [Accounts -> Int]
  BY DEF IInv, TypeOk
<1>6. withdrawals' \in SUBSET Withdrawal /\ IsFiniteSet(withdrawals')
  BY <1>1, <1>3, <1>5, FS_AddElement
<1>7. \A t \in Symbols : WithdrawalsHold(withdrawals', t) = WithdrawalsHold(withdrawals, t) + (IF t = s THEN x ELSE 0)
                         /\ WithdrawalsHold(withdrawals, t) \in Int
  BY <1>1, <1>3, <1>4, <1>5, OneWithdrawal DEF InWithdrawal
<1>8. TypeOk'
  BY <1>u, <1>1, <1>2, <1>5, <1>6 DEF TypeOk, IInv
<1>9. Balanced'
  <2> SUFFICES ASSUME NEW t \in Symbols PROVE supply'[t] = Held(t)'
    BY DEF Balanced
  <2>1. Owned(savings', t) + WithdrawalsHold(withdrawals', t) = Owned(savings, t) + WithdrawalsHold(withdrawals, t)
    BY <1>2, <1>7
  <2>2. Together(balance', savings', orders', withdrawals', escrows', conversions', t)
          = Together(balance, savings, orders, withdrawals, escrows, conversions, t)
    BY <1>u, <1>2, <1>7, <2>1, SumTypes DEF Together
  <2> QED  BY <1>u, <2>2, SumTypes, HeldNext
<1>10. Counted'
  <2> SUFFICES ASSUME NEW b \in Accounts PROVE requests'[b] = Cardinality({v \in withdrawals' : v.from = b})
    BY DEF Counted
  <2> DEFINE W == {v \in withdrawals : v.from = b}
  <2>1. IsFiniteSet(W) /\ w \notin W /\ requests[b] = Cardinality(W) /\ Cardinality(W) \in Nat
    BY <1>4, <1>5, FS_Subset, FS_CardinalityType DEF IInv, Counted
  <2>2. {v \in withdrawals' : v.from = b} = IF b = a THEN W \cup {w} ELSE W
    BY <1>1, <1>3
  <2>3. Cardinality(W \cup {w}) = Cardinality(W) + 1
    BY <2>1, FS_AddElement
  <2>4. requests'[b] = IF b = a THEN requests[b] + 1 ELSE requests[b]
    BY <1>1, <1>5
  <2> QED  BY <2>1, <2>2, <2>3, <2>4
<1> QED  BY <1>u, <1>8, <1>9, <1>10 DEF IInv, OneEscrow, FeePaid, BookOk, AtLimit

LEMMA CancelSavingsKeeps ==
  ASSUME IInv, NEW w \in withdrawals, CancelTransferFromSavings(w)
  PROVE  IInv'
<1> DEFINE a == w.from  s == w.sym  x == w.amt
<1>u. UNCHANGED <<balance, orders, conversions, escrows, supply, now>> /\ fills' = {}
  BY DEF CancelTransferFromSavings
<1>5. withdrawals \in SUBSET Withdrawal /\ IsFiniteSet(withdrawals) /\ requests \in [Accounts -> Int]
  BY DEF IInv, TypeOk
<1>3. a \in Accounts /\ s \in Symbols /\ x \in Nat
  BY <1>5 DEF Withdrawal
<1>1. savings' = Credit(savings, a, s, x) /\ savings \in Purses
      /\ withdrawals' = withdrawals \ {w} /\ requests' = [requests EXCEPT ![a] = @ - 1]
  BY DEF CancelTransferFromSavings, IInv, TypeOk
<1>2. savings' \in Purses /\ \A t \in Symbols : Owned(savings, t) \in Int /\ Owned(savings', t) = Owned(savings, t) + (IF t = s THEN x ELSE 0)
  BY <1>1, <1>3, CreditSteps
<1>6. withdrawals' \in SUBSET Withdrawal /\ IsFiniteSet(withdrawals') /\ w \notin withdrawals' /\ withdrawals = withdrawals' \cup {w}
  BY <1>1, <1>5, FS_Subset
<1>7. \A t \in Symbols : WithdrawalsHold(withdrawals, t) = WithdrawalsHold(withdrawals', t) + (IF t = s THEN x ELSE 0)
                         /\ WithdrawalsHold(withdrawals', t) \in Int
  <2> TAKE t \in Symbols
  <2>1. w \in Withdrawal
    BY <1>5
  <2>2. WithdrawalsHold(withdrawals' \cup {w}, t) = WithdrawalsHold(withdrawals', t) + InWithdrawal(w, t) /\ WithdrawalsHold(withdrawals', t) \in Int
    BY <1>6, <2>1, OneWithdrawal
  <2> QED  BY <1>6, <2>2 DEF InWithdrawal
<1>8. TypeOk'
  BY <1>u, <1>1, <1>2, <1>3, <1>5, <1>6 DEF TypeOk, IInv
<1>9. Balanced'
  <2> SUFFICES ASSUME NEW t \in Symbols PROVE supply'[t] = Held(t)'
    BY DEF Balanced
  <2>1. Owned(savings', t) + WithdrawalsHold(withdrawals', t) = Owned(savings, t) + WithdrawalsHold(withdrawals, t)
    BY <1>2, <1>3, <1>7
  <2>2. Together(balance', savings', orders', withdrawals', escrows', conversions', t)
          = Together(balance, savings, orders, withdrawals, escrows, conversions, t)
    BY <1>u, <1>2, <1>3, <1>7, <2>1, SumTypes DEF Together
  <2> QED  BY <1>u, <2>2, SumTypes, HeldNext
<1>10. Counted'
  <2> SUFFICES ASSUME NEW b \in Accounts PROVE requests'[b] = Cardinality({v \in withdrawals' : v.from = b})
    BY DEF Counted
  <2> DEFINE W == {v \in withdrawals : v.from = b}
  <2>1. IsFiniteSet(W) /\ requests[b] = Cardinality(W) /\ Cardinality(W) \in Nat
    BY <1>5, FS_Subset, FS_CardinalityType DEF IInv, Counted
  <2>2. {v \in withdrawals' : v.from = b} = IF b = a THEN W \ {w} ELSE W
    BY <1>1
  <2>3. b = a => Cardinality(W \ {w}) = Cardinality(W) - 1
    BY <2>1, FS_RemoveElement
  <2>4. requests'[b] = IF b = a THEN requests[b] - 1 ELSE requests[b]
    BY <1>1, <1>5
  <2> QED  BY <2>1, <2>2, <2>3, <2>4
<1> QED  BY <1>u, <1>8, <1>9, <1>10 DEF IInv, OneEscrow, FeePaid, BookOk, AtLimit

LEMMA MaxFacts ==
  ASSUME NEW S, S \subseteq Nat, IsFiniteSet(S), S # {}
  PROVE  Max(S) \in S /\ \A y \in S : Max(S) >= y
<1> DEFINE B(T) == \E x \in T : \A y \in T : x >= y
           G == {T \in SUBSET S : T = {} \/ B(T)}
<1>1. ASSUME NEW T \in SUBSET S, NEW x \in S \ T, T \in G PROVE T \cup {x} \in G
  <2>1. CASE T = {}
    <3>1. \A y \in T \cup {x} : x >= y
      BY <2>1
    <3> QED  BY <3>1
  <2>2. CASE T # {}
    <3>1. PICK z \in T : \A y \in T : z >= y
      BY <1>1, <2>2
    <3>2. x \in Nat /\ z \in Nat /\ \A y \in T : y \in Nat
      OBVIOUS
    <3>3. CASE z >= x
      <4>1. \A y \in T \cup {x} : z >= y
        BY <3>1, <3>3
      <4> QED  BY <4>1
    <3>4. CASE ~(z >= x)
      <4>1. \A y \in T \cup {x} : x >= y
        BY <3>1, <3>2, <3>4
      <4> QED  BY <4>1
    <3> QED  BY <3>3, <3>4
  <2> QED  BY <2>1, <2>2
<1>2. S \in G
  <2> HIDE DEF B
  <2> QED  BY <1>1, Subsets
<1>3. \E x \in S : \A y \in S : x >= y
  BY <1>2
<1> QED  BY <1>3 DEF Max

LEMMA NewNumFacts ==
  ASSUME BookOk(orders)
  PROVE  NewNum \in Nat /\ \A o \in orders : o.num # NewNum
<1> DEFINE N == {o.num : o \in orders}
           S == {0} \cup N
<1>1. IsFiniteSet(N)
  <2> DEFINE f == [o \in orders |-> o.num]
  <2>1. f \in Surjection(orders, N)
    BY DEF Surjection
  <2> HIDE DEF f, N
  <2> QED  BY <2>1, FS_Surjection DEF BookOk
<1>2. IsFiniteSet(S) /\ S # {}
  <2>1. S = N \cup {0}
    OBVIOUS
  <2> HIDE DEF S, N
  <2>2. IsFiniteSet(N \cup {0})
    BY <1>1, FS_AddElement
  <2> QED  BY <2>1, <2>2
<1>3. S \subseteq Nat /\ \A o \in orders : o.num \in S /\ o.num \in Nat
  BY DEF BookOk, Order
<1> HIDE DEF S
<1>4. Max(S) \in Nat /\ \A y \in S : Max(S) >= y
  BY <1>2, <1>3, MaxFacts
<1>5. NewNum = 1 + Max(S)
  BY DEF NewNum, S
<1> QED  BY <1>3, <1>4, <1>5

LEMMA OrderCreateKeeps ==
  ASSUME IInv, NEW a \in Accounts, NEW s \in Symbols, NEW x \in Pos, NEW p \in Prices, NEW id \in Ids,
         NEW exp \in Int, NEW kill \in BOOLEAN, LimitOrderCreate(a, s, x, p, id, exp, kill)
  PROVE  IInv'
<1> DEFINE n  == [num |-> NewNum, seller |-> a, id |-> id, sell |-> s, amt |-> x, price |-> p, exp |-> exp]
           b  == Credit(balance, a, s, -x)
           m0 == [balance |-> b, new |-> n, orders |-> orders, fills |-> {}]
           m  == ApplyOrder(n, b)
<1>u. UNCHANGED <<savings, requests, withdrawals, conversions, escrows, supply, now>>
  BY DEF LimitOrderCreate
<1>1. balance' = m.balance /\ fills' = m.fills /\ orders' = m.orders \cup (IF m.new.amt = 0 THEN {} ELSE {m.new})
      /\ balance[a][s] >= x /\ Times(x, p) > 0
  BY DEF LimitOrderCreate
<1>2. balance \in Purses /\ BookOk(orders) /\ x \in Nat /\ x > 0
  BY DEF IInv, TypeOk, Pos
<1>3. b \in Purses /\ \A t \in Symbols : Owned(balance, t) \in Int /\ Owned(b, t) = Owned(balance, t) + (IF t = s THEN -x ELSE 0)
  BY <1>1, <1>2, CreditSteps
<1>4. n \in Order /\ n.num = NewNum /\ n.amt = x /\ n.price = p /\ n.sell = s
  BY <1>2, NewNumFacts DEF Order
<1> HIDE DEF b, n
<1>5. MatchOk(m0)
  <2>1. Asks(n)
    BY <1>1, <1>2, <1>4 DEF Asks
  <2>2. AtLimit({})
    BY DEF AtLimit
  <2>3. \A o \in orders : o.num # n.num
    BY <1>2, <1>4, NewNumFacts
  <2> QED  BY <1>2, <1>3, <1>4, <2>1, <2>2, <2>3 DEF MatchOk
<1>6. /\ MatchOk(m) /\ Looked(m) /\ m.new = [n EXCEPT !.amt = m.new.amt]
      /\ \A t \in Symbols : Worth(m, t) = Worth(m0, t)
  BY <1>5, ApplyOrderFacts
<1>7. m0.balance = b /\ m0.orders = orders /\ m0.new = n
  OBVIOUS
<1> HIDE DEF m, m0
<1>8. BookOk(orders')
  <2>1. CASE m.new.amt = 0
    <3>1. orders' = m.orders
      BY <1>1, <2>1
    <3> QED  BY <1>6, <3>1 DEF MatchOk
  <2>2. CASE m.new.amt # 0
    <3>1. orders' = m.orders \cup {m.new}
      BY <1>1, <2>2
    <3>2. m.new \in Order /\ Asks(m.new) /\ BookOk(m.orders) /\ \A o \in m.orders : o.num # m.new.num
      BY <1>6, <2>2 DEF MatchOk
    <3>3. \A o \in m.orders : ~Crosses(o, m.new)
      BY <1>6, <2>2 DEF Looked, Matching
    <3>4. \A o \in m.orders : ~Crosses(m.new, o)
      BY <3>2, <3>3, CrossPrices DEF BookOk
    <3>5. ~Crosses(m.new, m.new)
      BY <3>2, CrossPrices
    <3>6. orders' \in SUBSET Order /\ IsFiniteSet(orders')
      BY <3>1, <3>2, FS_AddElement DEF BookOk
    <3>7. Distinct(orders') /\ (\A o \in orders' : Asks(o)) /\ \A o, q \in orders' : ~Crosses(o, q)
      BY <3>1, <3>2, <3>3, <3>4, <3>5 DEF BookOk, Distinct
    <3> QED  BY <3>6, <3>7 DEF BookOk
  <2> QED  BY <2>1, <2>2
<1>9. TypeOk'
  BY <1>u, <1>1, <1>6 DEF TypeOk, IInv, MatchOk
<1>10. Balanced'
  <2> SUFFICES ASSUME NEW t \in Symbols PROVE supply'[t] = Held(t)'
    BY DEF Balanced
  <2>1. m.balance \in Purses /\ m.orders \in SUBSET Order /\ IsFiniteSet(m.orders) /\ m.new \in Order /\ \A o \in m.orders : o.num # m.new.num
    BY <1>6 DEF MatchOk, BookOk
  <2>2. Owned(m.balance, t) \in Int /\ OrdersHold(m.orders, t) \in Int /\ InOrder(m.new, t) \in Int /\ OrdersHold(orders, t) \in Int
    <3>1. InOrder(m.new, t) \in Int
      BY <2>1 DEF Order, InOrder
    <3> QED  BY <2>1, <3>1, PursesAreBalances, OwnedType, OrdersSplit, SumTypes
  <2>3. OrdersHold(orders', t) = OrdersHold(m.orders, t) + InOrder(m.new, t)
    <3>1. CASE m.new.amt = 0
      <4>1. orders' = m.orders /\ InOrder(m.new, t) = 0
        BY <1>1, <3>1 DEF InOrder
      <4> QED  BY <2>2, <4>1
    <3>2. CASE m.new.amt # 0
      <4>1. orders' = m.orders \cup {m.new} /\ m.new \notin m.orders
        BY <1>1, <2>1, <3>2
      <4> QED  BY <2>1, <4>1, OrdersWith
    <3> QED  BY <3>1, <3>2
  <2>4. Owned(m.balance, t) + OrdersHold(m.orders, t) + InOrder(m.new, t) = Owned(b, t) + OrdersHold(orders, t) + InOrder(n, t)
    BY <1>6, <1>7 DEF Worth
  <2>5. InOrder(n, t) = IF t = s THEN x ELSE 0
    BY <1>4 DEF InOrder
  <2>6. Owned(balance', t) + OrdersHold(orders', t) = Owned(balance, t) + OrdersHold(orders, t)
    BY <1>1, <1>2, <1>3, <2>2, <2>3, <2>4, <2>5
  <2>7. Owned(balance', t) \in Int /\ OrdersHold(orders', t) \in Int
    BY <1>1, <2>2, <2>3
  <2>8. Together(balance', savings', orders', withdrawals', escrows', conversions', t)
          = Together(balance, savings, orders, withdrawals, escrows, conversions, t)
    BY <1>u, <2>6, <2>7, SumTypes DEF Together
  <2> QED  BY <1>u, <2>8, SumTypes, HeldNext
<1>11. AtLimit(fills')
  BY <1>1, <1>6 DEF MatchOk
<1>12. AtLimit(fills)' /\ BookOk(orders)'
  BY <1>8, <1>11 DEF AtLimit, BookOk
<1> QED  BY <1>u, <1>9, <1>10, <1>12 DEF IInv, OneEscrow, FeePaid, Counted

LEMMA BookWithout == ASSUME NEW os, BookOk(os), NEW R PROVE BookOk(os \ R)
BY FS_Subset DEF BookOk, Distinct

LEMMA OrderCancelKeeps ==
  ASSUME IInv, NEW o \in orders, LimitOrderCancel(o)
  PROVE  IInv'
<1>u. UNCHANGED <<savings, requests, withdrawals, conversions, escrows, supply, now>> /\ fills' = {}
  BY DEF LimitOrderCancel
<1>1. balance' = Credit(balance, o.seller, o.sell, o.amt) /\ orders' = orders \ {o} /\ balance \in Purses /\ BookOk(orders)
  BY DEF LimitOrderCancel, IInv, TypeOk
<1>2. o.seller \in Accounts /\ o.sell \in Symbols /\ o.amt \in Nat
  BY <1>1 DEF BookOk, Order
<1>3. balance' \in Purses /\ \A t \in Symbols : Owned(balance, t) \in Int /\ Owned(balance', t) = Owned(balance, t) + (IF t = o.sell THEN o.amt ELSE 0)
  BY <1>1, <1>2, CreditSteps
<1>4. BookOk(orders')
  BY <1>1, BookWithout
<1>5. TypeOk'
  BY <1>u, <1>3 DEF TypeOk, IInv
<1>6. Balanced'
  <2> SUFFICES ASSUME NEW t \in Symbols PROVE supply'[t] = Held(t)'
    BY DEF Balanced
  <2>1. OrdersHold(orders, t) = OrdersHold(orders', t) + InOrder(o, t) /\ OrdersHold(orders', t) \in Int
    BY <1>1, OrdersWithout DEF BookOk
  <2>2. InOrder(o, t) = IF t = o.sell THEN o.amt ELSE 0
    BY DEF InOrder
  <2>3. Owned(balance', t) + OrdersHold(orders', t) = Owned(balance, t) + OrdersHold(orders, t) /\ Owned(balance', t) \in Int
    BY <1>2, <1>3, <2>1, <2>2
  <2>4. Together(balance', savings', orders', withdrawals', escrows', conversions', t)
          = Together(balance, savings, orders, withdrawals, escrows, conversions, t)
    BY <1>u, <2>1, <2>3, SumTypes DEF Together
  <2> QED  BY <1>u, <2>4, SumTypes, HeldNext
<1>7. AtLimit(fills)' /\ BookOk(orders)'
  BY <1>u, <1>4 DEF AtLimit, BookOk
<1> QED  BY <1>u, <1>5, <1>6, <1>7 DEF IInv, OneEscrow, FeePaid, Counted

LEMMA ConvertKeeps ==
  ASSUME IInv, NEW a \in Accounts, NEW x \in Nat, NEW id \in Ids, Convert(a, x, id)
  PROVE  IInv'
<1> DEFINE c == [owner |-> a, id |-> id, amt |-> x, date |-> now + Delay]
<1>u. UNCHANGED <<savings, requests, orders, withdrawals, escrows, supply, now>> /\ fills' = {}
  BY DEF Convert
<1>1. balance' = Credit(balance, a, "D", -x) /\ balance \in Purses /\ conversions' = conversions \cup {c} /\ balance[a]["D"] >= x
  BY DEF Convert, IInv, TypeOk
<1>2. balance' \in Purses /\ \A t \in Symbols : Owned(balance, t) \in Int /\ Owned(balance', t) = Owned(balance, t) + (IF t = "D" THEN -x ELSE 0)
  <2>1. "D" \in Symbols
    BY DEF Symbols
  <2> QED  BY <1>1, <2>1, CreditSteps
<1>3. c \in Conversion /\ c.amt = x
  BY LedgerAssumption DEF Conversion, IInv, TypeOk
<1>4. c \notin conversions
  BY DEF Convert
<1> HIDE DEF c
<1>5. conversions \in SUBSET Conversion /\ IsFiniteSet(conversions)
  BY DEF IInv, TypeOk
<1>6. conversions' \in SUBSET Conversion /\ IsFiniteSet(conversions')
  BY <1>1, <1>3, <1>5, FS_AddElement
<1>7. TypeOk'
  BY <1>u, <1>2, <1>6 DEF TypeOk, IInv
<1>8. Balanced'
  <2> SUFFICES ASSUME NEW t \in Symbols PROVE supply'[t] = Held(t)'
    BY DEF Balanced
  <2>1. ConversionsHold(conversions', t) = ConversionsHold(conversions, t) + InConversion(c, t) /\ ConversionsHold(conversions, t) \in Int
    BY <1>1, <1>3, <1>4, <1>5, OneConversion
  <2>2. InConversion(c, t) = IF t = "D" THEN x ELSE 0
    BY <1>3 DEF InConversion
  <2>3. Owned(balance', t) + ConversionsHold(conversions', t) = Owned(balance, t) + ConversionsHold(conversions, t)
        /\ Owned(balance', t) \in Int /\ ConversionsHold(conversions', t) \in Int
    BY <1>2, <2>1, <2>2
  <2>4. Together(balance', savings', orders', withdrawals', escrows', conversions', t)
          = Together(balance, savings, orders, withdrawals, escrows, conversions, t)
    BY <1>u, <2>1, <2>3, SumTypes DEF Together
  <2> QED  BY <1>u, <2>4, SumTypes, HeldNext
<1> QED  BY <1>u, <1>7, <1>8 DEF IInv, OneEscrow, FeePaid, Counted, BookOk, AtLimit

\* A change of what one account has, in both symbols.
LEMMA PurseChange ==
  ASSUME NEW bal \in Purses, NEW a \in Accounts, NEW v \in [Symbols -> Int],
         \A t \in Symbols : bal[a][t] + v[t] >= 0,
         NEW new, new = [bal EXCEPT ![a] = [t \in Symbols |-> bal[a][t] + v[t]]]
  PROVE  new \in Purses /\ \A t \in Symbols : Owned(bal, t) \in Int /\ Owned(new, t) = Owned(bal, t) + v[t]
<1>1. \A t \in Symbols : v[t] \in Int /\ bal[a][t] + v[t] \in Nat
  BY DEF Purses
<1>2. new \in Purses /\ \A t \in Symbols : new[a][t] = bal[a][t] + v[t] /\ \A b \in Accounts \ {a} : new[b][t] = bal[b][t]
  BY <1>1 DEF Purses
<1>3. bal \in Balances /\ new \in Balances
  BY <1>2, PursesAreBalances
<1>4. ASSUME NEW t \in Symbols PROVE Owned(bal, t) \in Int /\ Owned(new, t) = Owned(bal, t) + v[t]
  <2>1. v[t] \in Int /\ new[a][t] = bal[a][t] + v[t] /\ \A b \in Accounts \ {a} : new[b][t] = bal[b][t]
    BY <1>1, <1>2
  <2>2. Owned(new, t) = Owned(bal, t) + v[t]
    BY ONLY <1>3, <2>1, a \in Accounts, t \in Symbols, OwnedChange
  <2> QED  BY <1>3, <2>2, OwnedType
<1> QED  BY <1>2, <1>4

\* An escrow e is replaced by one with the same key, or removed; the
\* account a gets what is missing.
LEMMA EscrowChange ==
  ASSUME IInv, NEW e \in escrows, NEW d \in Escrow, <<d.from, d.id>> = <<e.from, e.id>>, NEW gone \in BOOLEAN,
         ~gone /\ Approved(d) => d.fee = 0,
         escrows' = (escrows \ {e}) \cup (IF gone THEN {} ELSE {d}),
         balance' \in Purses,
         \A t \in Symbols : Owned(balance', t) = Owned(balance, t) + (InEscrow(e, t) - IF gone THEN 0 ELSE InEscrow(d, t)),
         UNCHANGED <<savings, requests, orders, withdrawals, conversions, supply, now>>, fills' = {}
  PROVE  IInv'
<1>1. escrows \in SUBSET Escrow /\ IsFiniteSet(escrows) /\ e \in Escrow
  BY DEF IInv, TypeOk
<1>2. escrows \ {e} \in SUBSET Escrow /\ IsFiniteSet(escrows \ {e}) /\ (escrows \ {e}) \cup {e} = escrows /\ e \notin escrows \ {e}
  BY <1>1, FS_Subset
<1>3. d \notin escrows \ {e}
  BY DEF IInv, OneEscrow
<1>4. escrows' = IF gone THEN escrows \ {e} ELSE (escrows \ {e}) \cup {d}
  OBVIOUS
<1>5. escrows' \in SUBSET Escrow /\ IsFiniteSet(escrows')
  <2>1. IsFiniteSet((escrows \ {e}) \cup {d}) /\ (escrows \ {e}) \cup {d} \in SUBSET Escrow
    BY <1>2, FS_AddElement
  <2> QED  BY <1>2, <1>4, <2>1
<1>6. TypeOk'
  BY <1>5 DEF TypeOk, IInv
<1>7. OneEscrow'
  BY <1>4 DEF OneEscrow, IInv
<1>8. Balanced'
  <2> SUFFICES ASSUME NEW t \in Symbols PROVE supply'[t] = Held(t)'
    BY DEF Balanced
  <2> DEFINE rest == EscrowsHold(escrows \ {e}, t)
  <2>1. EscrowsHold(escrows, t) = rest + InEscrow(e, t) /\ rest \in Int /\ InEscrow(e, t) \in Nat
    <3>1. EscrowsHold((escrows \ {e}) \cup {e}, t) = rest + InEscrow(e, t) /\ rest \in Int /\ InEscrow(e, t) \in Nat
      BY <1>1, <1>2, AnEscrow
    <3> QED  BY <1>2, <3>1
  <2>2. EscrowsHold((escrows \ {e}) \cup {d}, t) = rest + InEscrow(d, t) /\ InEscrow(d, t) \in Nat
    BY <1>2, <1>3, AnEscrow
  <2> HIDE DEF rest
  <2>3. EscrowsHold(escrows', t) = rest + (IF gone THEN 0 ELSE InEscrow(d, t))
    <3>1. CASE gone
      <4>1. escrows' = escrows \ {e}
        BY <1>4, <3>1
      <4>2. EscrowsHold(escrows', t) = rest
        BY <4>1 DEF rest
      <4> QED  BY <2>1, <3>1, <4>2
    <3>2. CASE ~gone
      <4>1. escrows' = (escrows \ {e}) \cup {d}
        BY <1>4, <3>2
      <4> QED  BY <2>2, <3>2, <4>1
    <3> QED  BY <3>1, <3>2
  <2>4. Owned(balance, t) \in Int
    BY SumTypes
  <2>5. Owned(balance', t) + EscrowsHold(escrows', t) = Owned(balance, t) + EscrowsHold(escrows, t)
        /\ Owned(balance', t) \in Int /\ EscrowsHold(escrows', t) \in Int
    BY <2>1, <2>2, <2>3, <2>4
  <2>6. Together(balance', savings', orders', withdrawals', escrows', conversions', t)
          = Together(balance, savings, orders, withdrawals, escrows, conversions, t)
    BY <2>5, SumTypes DEF Together
  <2> QED  BY <2>6, SumTypes, HeldNext
<1>9. FeePaid'
  BY <1>4 DEF FeePaid, IInv
<1> QED  BY <1>6, <1>7, <1>8, <1>9 DEF IInv, Counted, BookOk, AtLimit

LEMMA EscrowTransferKeeps ==
  ASSUME IInv, NEW a \in Accounts, NEW to \in Accounts, NEW agent \in Accounts, NEW x \in [Symbols -> Nat],
         NEW fee \in Nat, NEW id \in Ids, NEW dl \in Int, NEW ex \in Int,
         EscrowTransfer(a, to, agent, x, fee, id, dl, ex)
  PROVE  IInv'
<1>u. UNCHANGED <<savings, requests, orders, withdrawals, conversions, supply, now>> /\ fills' = {}
  BY DEF EscrowTransfer
<1> DEFINE E(s) == [from |-> a, id |-> id, to |-> to, agent |-> agent, amt |-> x, fee |-> fee, feeSym |-> s,
                    deadline |-> dl, expiration |-> ex,
                    toApproved |-> FALSE, agentApproved |-> FALSE, disputed |-> FALSE]
           Spent(s) == [t \in Symbols |-> x[t] + (IF t = s THEN fee ELSE 0)]
<1>1. PICK s \in Symbols :
        /\ \A t \in Symbols : balance[a][t] >= Spent(s)[t]
        /\ balance' = [balance EXCEPT ![a] = [t \in Symbols |-> balance[a][t] - Spent(s)[t]]]
        /\ escrows' = escrows \cup {E(s)}
  <2>1. balance \in [Accounts -> [Symbols -> Nat]]
    BY DEF IInv, TypeOk, Purses
  <2> QED  BY <2>1 DEF EscrowTransfer
<1> DEFINE d == E(s)
           v == [t \in Symbols |-> - Spent(s)[t]]
<1>2. d \in Escrow /\ d.from = a /\ d.id = id /\ \A t \in Symbols : InEscrow(d, t) = x[t] + (IF t = s THEN fee ELSE 0)
  BY DEF Escrow, InEscrow
<1>3. \A e \in escrows : <<e.from, e.id>> # <<a, id>>
  BY DEF EscrowTransfer
<1>4. balance \in Purses /\ escrows \in SUBSET Escrow /\ IsFiniteSet(escrows)
  BY DEF IInv, TypeOk
<1>5. \A t \in Symbols : balance[a][t] \in Nat /\ x[t] + (IF t = s THEN fee ELSE 0) \in Nat
  BY <1>4 DEF Purses
<1>6. balance' \in Purses /\ \A t \in Symbols : Owned(balance, t) \in Int /\ Owned(balance', t) = Owned(balance, t) + v[t]
  <2>1. v \in [Symbols -> Int] /\ \A t \in Symbols : balance[a][t] + v[t] >= 0 /\ balance[a][t] - Spent(s)[t] = balance[a][t] + v[t]
    BY <1>1, <1>5
  <2>2. balance' = [balance EXCEPT ![a] = [t \in Symbols |-> balance[a][t] + v[t]]]
    BY <1>1, <2>1
  <2> HIDE DEF v
  <2> QED  BY <1>4, <2>1, <2>2, PurseChange
<1>7. \A t \in Symbols : v[t] = - InEscrow(d, t) /\ InEscrow(d, t) \in Nat
  BY <1>2, <1>5
<1> HIDE DEF d, v
<1>8. escrows' = escrows \cup {d} /\ d \notin escrows
  BY <1>1, <1>2, <1>3 DEF d
<1>9. escrows' \in SUBSET Escrow /\ IsFiniteSet(escrows')
  BY <1>2, <1>4, <1>8, FS_AddElement
<1>10. TypeOk'
  BY <1>u, <1>6, <1>9 DEF TypeOk, IInv
<1>11. OneEscrow'
  BY <1>2, <1>3, <1>8 DEF OneEscrow, IInv
<1>12. Balanced'
  <2> SUFFICES ASSUME NEW t \in Symbols PROVE supply'[t] = Held(t)'
    BY DEF Balanced
  <2>1. EscrowsHold(escrows', t) = EscrowsHold(escrows, t) + InEscrow(d, t) /\ EscrowsHold(escrows, t) \in Int
    BY <1>2, <1>4, <1>8, AnEscrow
  <2>2. Owned(balance', t) + EscrowsHold(escrows', t) = Owned(balance, t) + EscrowsHold(escrows, t)
        /\ Owned(balance', t) \in Int /\ EscrowsHold(escrows', t) \in Int
    BY <1>6, <1>7, <2>1
  <2>3. Together(balance', savings', orders', withdrawals', escrows', conversions', t)
          = Together(balance, savings, orders, withdrawals, escrows, conversions, t)
    BY <1>u, <2>1, <2>2, SumTypes DEF Together
  <2> QED  BY <1>u, <2>3, SumTypes, HeldNext
<1>13. FeePaid'
  <2>1. ~Approved(d)
    BY DEF Approved, d
  <2> QED  BY <1>8, <2>1 DEF FeePaid, IInv
<1> QED  BY <1>u, <1>10, <1>11, <1>12, <1>13 DEF IInv, Counted, BookOk, AtLimit

LEMMA EscrowApproveKeeps ==
  ASSUME IInv, NEW e \in escrows, NEW who, NEW approve \in BOOLEAN, EscrowApprove(e, who, approve)
  PROVE  IInv'
<1>u. UNCHANGED <<savings, requests, orders, withdrawals, conversions, supply, now>> /\ fills' = {}
  BY DEF EscrowApprove
<1>1. e \in Escrow /\ balance \in Purses
  BY DEF IInv, TypeOk
<1>2. e.from \in Accounts /\ e.agent \in Accounts /\ e.feeSym \in Symbols /\ e.fee \in Nat /\ e.amt \in [Symbols -> Nat]
  BY <1>1 DEF Escrow
<1>3. \A t \in Symbols : InEscrow(e, t) \in Nat /\ Owned(balance, t) \in Int
  BY <1>1, InEscrowType, SumTypes
<1> DEFINE e1 == [e EXCEPT !.toApproved = @ \/ who = e.to, !.agentApproved = @ \/ who = e.agent]
           e2 == [e1 EXCEPT !.fee = 0]
<1>4. e1 \in Escrow /\ e2 \in Escrow /\ e1.from = e.from /\ e1.id = e.id /\ e2.from = e.from /\ e2.id = e.id
      /\ e1.amt = e.amt /\ e1.fee = e.fee /\ e1.feeSym = e.feeSym /\ e2.amt = e.amt /\ e2.fee = 0 /\ e2.feeSym = e.feeSym
  BY <1>1 DEF Escrow
<1>5. CASE ~approve
  <2>1. balance' = Returned(balance, e) /\ escrows' = (escrows \ {e}) \cup (IF TRUE THEN {} ELSE {e})
    BY <1>5 DEF EscrowApprove
  <2> DEFINE v == [t \in Symbols |-> InEscrow(e, t)]
  <2>2. v \in [Symbols -> Int] /\ \A t \in Symbols : balance[e.from][t] + v[t] >= 0
    BY <1>1, <1>2, <1>3 DEF Purses
  <2>3. balance' = [balance EXCEPT ![e.from] = [t \in Symbols |-> balance[e.from][t] + v[t]]]
    BY <1>1, <1>2, <2>1 DEF Returned, Purses
  <2>4. \A t \in Symbols : v[t] = InEscrow(e, t)
    OBVIOUS
  <2> HIDE DEF v
  <2>5. balance' \in Purses /\ \A t \in Symbols : Owned(balance', t) = Owned(balance, t) + v[t]
    BY <1>1, <1>2, <2>2, <2>3, PurseChange
  <2>6. \A t \in Symbols : Owned(balance', t) = Owned(balance, t) + (InEscrow(e, t) - IF TRUE THEN 0 ELSE InEscrow(e, t))
    BY <1>3, <2>4, <2>5
  <2> QED  BY <1>u, <1>1, <2>1, <2>5, <2>6, EscrowChange
<1>6. CASE approve /\ Approved(e1)
  <2>1. balance' = Credit(balance, e.agent, e.feeSym, e.fee) /\ escrows' = (escrows \ {e}) \cup (IF FALSE THEN {} ELSE {e2})
    BY <1>6 DEF EscrowApprove
  <2> HIDE DEF e1, e2
  <2>2. balance' \in Purses /\ \A t \in Symbols : Owned(balance', t) = Owned(balance, t) + (IF t = e.feeSym THEN e.fee ELSE 0)
    BY <1>1, <1>2, <2>1, CreditSteps
  <2>3. \A t \in Symbols : Owned(balance', t) = Owned(balance, t) + (InEscrow(e, t) - IF FALSE THEN 0 ELSE InEscrow(e2, t))
    BY <1>2, <1>3, <1>4, <2>2 DEF InEscrow
  <2> QED  BY <1>u, <1>4, <2>1, <2>2, <2>3, EscrowChange
<1>7. CASE approve /\ ~Approved(e1)
  <2>1. balance' = balance /\ escrows' = (escrows \ {e}) \cup (IF FALSE THEN {} ELSE {e1})
    BY <1>7 DEF EscrowApprove
  <2> HIDE DEF e1, e2
  <2>2. \A t \in Symbols : Owned(balance', t) = Owned(balance, t) + (InEscrow(e, t) - IF FALSE THEN 0 ELSE InEscrow(e1, t))
    BY <1>2, <1>3, <1>4, <2>1 DEF InEscrow
  <2> QED  BY <1>u, <1>1, <1>4, <1>7, <2>1, <2>2, EscrowChange
<1> QED  BY <1>5, <1>6, <1>7

LEMMA EscrowDisputeKeeps ==
  ASSUME IInv, NEW e \in escrows, EscrowDispute(e)
  PROVE  IInv'
<1>u. UNCHANGED <<balance, savings, requests, orders, withdrawals, conversions, supply, now>> /\ fills' = {}
  BY DEF EscrowDispute
<1>1. e \in Escrow /\ balance \in Purses
  BY DEF IInv, TypeOk
<1> DEFINE d == [e EXCEPT !.disputed = TRUE]
<1>2. d \in Escrow /\ d.from = e.from /\ d.id = e.id /\ d.amt = e.amt /\ d.fee = e.fee /\ d.feeSym = e.feeSym
  BY <1>1 DEF Escrow
<1>3. escrows' = (escrows \ {e}) \cup (IF FALSE THEN {} ELSE {d})
  BY DEF EscrowDispute
<1> HIDE DEF d
<1>4. \A t \in Symbols : InEscrow(e, t) \in Nat /\ Owned(balance, t) \in Int /\ InEscrow(d, t) = InEscrow(e, t)
  BY <1>1, <1>2, InEscrowType, SumTypes DEF InEscrow
<1>5. \A t \in Symbols : Owned(balance', t) = Owned(balance, t) + (InEscrow(e, t) - IF FALSE THEN 0 ELSE InEscrow(d, t))
  BY <1>u, <1>4
<1>6. Approved(d) => d.fee = 0
  BY <1>2 DEF IInv, FeePaid, EscrowDispute
<1> QED  BY <1>u, <1>1, <1>2, <1>3, <1>5, <1>6, EscrowChange

LEMMA EscrowReleaseKeeps ==
  ASSUME IInv, NEW e \in escrows, NEW who, NEW r \in Accounts, NEW x \in [Symbols -> Nat], EscrowRelease(e, who, r, x)
  PROVE  IInv'
<1>u. UNCHANGED <<savings, requests, orders, withdrawals, conversions, supply, now>> /\ fills' = {}
  BY DEF EscrowRelease
<1>1. e \in Escrow /\ balance \in Purses
  BY DEF IInv, TypeOk
<1>2. e.feeSym \in Symbols /\ e.fee \in Nat /\ e.amt \in [Symbols -> Nat]
  BY <1>1 DEF Escrow
<1> DEFINE left == [t \in Symbols |-> e.amt[t] - x[t]]
           d == [e EXCEPT !.amt = left]
           none == \A t \in Symbols : left[t] = 0
<1>3. left \in [Symbols -> Nat] /\ \A t \in Symbols : left[t] = e.amt[t] - x[t] /\ x[t] \in Nat /\ e.amt[t] \in Nat
  BY <1>2 DEF EscrowRelease
<1>4. balance' = [balance EXCEPT ![r] = [t \in Symbols |-> balance[r][t] + x[t]]]
  BY <1>1 DEF EscrowRelease, Purses
<1>5. escrows' = (escrows \ {e}) \cup (IF none THEN {} ELSE {d})
  BY DEF EscrowRelease
<1> HIDE DEF left
<1>6. d \in Escrow /\ d.from = e.from /\ d.id = e.id /\ d.amt = left /\ d.fee = e.fee /\ d.feeSym = e.feeSym
  BY <1>1, <1>3 DEF Escrow
<1> HIDE DEF d
<1>7. balance' \in Purses /\ \A t \in Symbols : Owned(balance, t) \in Int /\ Owned(balance', t) = Owned(balance, t) + x[t]
  <2>1. x \in [Symbols -> Int] /\ \A t \in Symbols : balance[r][t] + x[t] >= 0
    BY <1>1, <1>3 DEF Purses
  <2> QED  BY <1>1, <1>4, <2>1, PurseChange
<1>8. \A t \in Symbols : InEscrow(e, t) = e.amt[t] + (IF e.feeSym = t THEN e.fee ELSE 0)
                         /\ InEscrow(d, t) = left[t] + (IF e.feeSym = t THEN e.fee ELSE 0)
  BY <1>6 DEF InEscrow
<1>9. e.fee = 0
  BY DEF IInv, FeePaid, EscrowRelease, MayRelease
<1>10. none \in BOOLEAN /\ (none => \A t \in Symbols : left[t] = 0)
  OBVIOUS
<1> HIDE DEF none
<1>11. \A t \in Symbols : Owned(balance', t) = Owned(balance, t) + (InEscrow(e, t) - IF none THEN 0 ELSE InEscrow(d, t))
  BY <1>3, <1>7, <1>8, <1>9, <1>10
<1> QED  BY <1>u, <1>5, <1>6, <1>7, <1>9, <1>10, <1>11, EscrowChange

(***************************************************************************)
(* The end of a block.                                                     *)
(***************************************************************************)

LEMMA FeedTimes == ASSUME NEW x \in Nat, NEW p \in FeedPrices PROVE Times(x, p) \in Nat
<1>1. p[1] \in Pos /\ p[2] \in Pos
  BY LedgerAssumption DEF Pos
<1>2. x * p[2] \in Nat
  BY <1>1 DEF Pos
<1>3. (x * p[2]) \div p[1] \in Nat
  BY <1>1, <1>2, Quotient
<1> QED  BY <1>3 DEF Times

\* What is paid to the owners of objects is what the objects hold.
LEMMA PaidToOwners ==
  ASSUME NEW M, IsFiniteSet(M), NEW own, NEW f, NEW h, DOMAIN f = M, DOMAIN h = Accounts,
         \A m \in M : f[m] \in Nat /\ own[m] \in Accounts,
         \A a \in Accounts : h[a] = SumFunction([m \in {k \in M : own[k] = a} |-> f[m]])
  PROVE  (\A a \in Accounts : h[a] \in Nat) /\ Sum(h, Accounts) = SumFunction(f) /\ SumFunction(f) \in Nat
<1>1. ASSUME NEW a \in Accounts PROVE h[a] = Sum(f, {k \in M : own[k] = a}) /\ h[a] \in Nat
  <2> DEFINE K == {k \in M : own[k] = a}
             g == [m \in K |-> f[m]]
  <2>1. IsFiniteSet(K) /\ (\A m \in K : f[m] \in Nat) /\ (\A m \in K : g[m] = f[m]) /\ DOMAIN g = K
    BY FS_Subset
  <2>2. h[a] = SumFunction(g)
    OBVIOUS
  <2> HIDE DEF g, K
  <2>3. SumFunction(g) = Sum(g, K)
    BY <2>1 DEF SumFunction, Sum
  <2>4. Sum(g, K) = Sum(f, K) /\ Sum(f, K) \in Nat
    BY <2>1, SumSame, SumNat
  <2> QED  BY <2>2, <2>3, <2>4 DEF K
<1>2. \A m \in M : f[m] \in Int /\ own[m] \in Accounts
  OBVIOUS
<1>3. \A a \in Accounts : h[a] = Sum(f, {k \in M : own[k] = a})
  BY <1>1
<1>4. Sum(h, Accounts) = Sum(f, M)
  BY <1>2, <1>3, AccountsFinite, SumByOwner
<1>5. Sum(f, M) \in Nat
  BY SumNat
<1>6. Sum(f, M) = SumFunction(f)
  BY DEF SumFunction, Sum
<1> QED  BY <1>1, <1>4, <1>5, <1>6

LEMMA Refunds ==
  ASSUME NEW R \in SUBSET Order, IsFiniteSet(R), NEW s \in Symbols, NEW h,
         h = [a \in Accounts |-> SumFunction([o \in {o \in R : o.seller = a} |-> InOrder(o, s)])]
  PROVE  (\A a \in Accounts : h[a] \in Nat) /\ Sum(h, Accounts) = OrdersHold(R, s) /\ OrdersHold(R, s) \in Nat
<1> DEFINE f == [o \in R |-> InOrder(o, s)]
           own == [o \in R |-> o.seller]
<1>1. \A o \in R : f[o] \in Nat /\ own[o] \in Accounts
  BY DEF InOrder, Order
<1>2. ASSUME NEW a \in Accounts PROVE h[a] = SumFunction([m \in {k \in R : own[k] = a} |-> f[m]])
  <2>1. {k \in R : own[k] = a} = {o \in R : o.seller = a}
    OBVIOUS
  <2>2. [m \in {k \in R : own[k] = a} |-> f[m]] = [o \in {o \in R : o.seller = a} |-> InOrder(o, s)]
    BY <2>1
  <2> QED  BY <2>2
<1>3. DOMAIN f = R /\ DOMAIN h = Accounts
  OBVIOUS
<1> HIDE DEF f, own
<1>4. (\A a \in Accounts : h[a] \in Nat) /\ Sum(h, Accounts) = SumFunction(f) /\ SumFunction(f) \in Nat
  BY ONLY <1>1, <1>2, <1>3, IsFiniteSet(R), PaidToOwners
<1> QED  BY <1>4 DEF OrdersHold, f

LEMMA Withdrawn ==
  ASSUME NEW R \in SUBSET Withdrawal, IsFiniteSet(R), NEW s \in Symbols, NEW h,
         h = [a \in Accounts |-> SumFunction([w \in {w \in R : w.to = a} |-> InWithdrawal(w, s)])]
  PROVE  (\A a \in Accounts : h[a] \in Nat) /\ Sum(h, Accounts) = WithdrawalsHold(R, s) /\ WithdrawalsHold(R, s) \in Nat
<1> DEFINE f == [o \in R |-> InWithdrawal(o, s)]
           own == [o \in R |-> o.to]
<1>1. \A o \in R : f[o] \in Nat /\ own[o] \in Accounts
  BY DEF InWithdrawal, Withdrawal
<1>2. ASSUME NEW a \in Accounts PROVE h[a] = SumFunction([m \in {k \in R : own[k] = a} |-> f[m]])
  <2>1. {k \in R : own[k] = a} = {o \in R : o.to = a}
    OBVIOUS
  <2>2. [m \in {k \in R : own[k] = a} |-> f[m]] = [o \in {o \in R : o.to = a} |-> InWithdrawal(o, s)]
    BY <2>1
  <2> QED  BY <2>2
<1>3. DOMAIN f = R /\ DOMAIN h = Accounts
  OBVIOUS
<1> HIDE DEF f, own
<1>4. (\A a \in Accounts : h[a] \in Nat) /\ Sum(h, Accounts) = SumFunction(f) /\ SumFunction(f) \in Nat
  BY ONLY <1>1, <1>2, <1>3, IsFiniteSet(R), PaidToOwners
<1> QED  BY <1>4 DEF WithdrawalsHold, f

LEMMA Lapses ==
  ASSUME NEW R \in SUBSET Escrow, IsFiniteSet(R), NEW s \in Symbols, NEW h,
         h = [a \in Accounts |-> SumFunction([e \in {e \in R : e.from = a} |-> InEscrow(e, s)])]
  PROVE  (\A a \in Accounts : h[a] \in Nat) /\ Sum(h, Accounts) = EscrowsHold(R, s) /\ EscrowsHold(R, s) \in Nat
<1> DEFINE f == [o \in R |-> InEscrow(o, s)]
           own == [o \in R |-> o.from]
<1>0. \A o \in R : InEscrow(o, s) \in Nat
  BY InEscrowType
<1>1. \A o \in R : f[o] \in Nat /\ own[o] \in Accounts
  BY <1>0 DEF Escrow
<1>2. ASSUME NEW a \in Accounts PROVE h[a] = SumFunction([m \in {k \in R : own[k] = a} |-> f[m]])
  <2>1. {k \in R : own[k] = a} = {o \in R : o.from = a}
    OBVIOUS
  <2>2. [m \in {k \in R : own[k] = a} |-> f[m]] = [o \in {o \in R : o.from = a} |-> InEscrow(o, s)]
    BY <2>1
  <2> QED  BY <2>2
<1>3. DOMAIN f = R /\ DOMAIN h = Accounts
  OBVIOUS
<1> HIDE DEF f, own
<1>4. (\A a \in Accounts : h[a] \in Nat) /\ Sum(h, Accounts) = SumFunction(f) /\ SumFunction(f) \in Nat
  BY ONLY <1>1, <1>2, <1>3, IsFiniteSet(R), PaidToOwners
<1> QED  BY <1>4 DEF EscrowsHold, f

Worths(R, s, price) == SumFunction([c \in R |-> IF s = "F" THEN Times(c.amt, price) ELSE 0])

LEMMA Bought ==
  ASSUME NEW R \in SUBSET Conversion, IsFiniteSet(R), NEW s \in Symbols, NEW price \in FeedPrices, NEW h,
         h = [a \in Accounts |-> SumFunction([c \in {c \in R : c.owner = a} |-> IF s = "F" THEN Times(c.amt, price) ELSE 0])]
  PROVE  (\A a \in Accounts : h[a] \in Nat) /\ Sum(h, Accounts) = Worths(R, s, price) /\ Worths(R, s, price) \in Nat
<1> DEFINE f == [c \in R |-> IF s = "F" THEN Times(c.amt, price) ELSE 0]
           own == [c \in R |-> c.owner]
<1>0. \A c \in R : Times(c.amt, price) \in Nat /\ c.owner \in Accounts
  BY FeedTimes DEF Conversion
<1>1. \A c \in R : f[c] \in Nat /\ own[c] \in Accounts
  BY <1>0
<1>2. ASSUME NEW a \in Accounts PROVE h[a] = SumFunction([m \in {k \in R : own[k] = a} |-> f[m]])
  <2>1. {k \in R : own[k] = a} = {c \in R : c.owner = a}
    OBVIOUS
  <2>2. [m \in {k \in R : own[k] = a} |-> f[m]] = [c \in {c \in R : c.owner = a} |-> IF s = "F" THEN Times(c.amt, price) ELSE 0]
    BY <2>1
  <2> QED  BY <2>2
<1>3. DOMAIN f = R /\ DOMAIN h = Accounts
  OBVIOUS
<1> HIDE DEF f, own
<1>4. (\A a \in Accounts : h[a] \in Nat) /\ Sum(h, Accounts) = SumFunction(f) /\ SumFunction(f) \in Nat
  BY ONLY <1>1, <1>2, <1>3, IsFiniteSet(R), PaidToOwners
<1> QED  BY <1>4 DEF Worths, f

\* The balances after a block, of one symbol.
Credited(new, b, r, c, w, e) ==
  \A a \in Accounts :
    /\ b[a] \in Nat /\ r[a] \in Nat /\ c[a] \in Nat /\ w[a] \in Nat /\ e[a] \in Nat
    /\ new[a] = (IF a = Null THEN 0 ELSE b[a] + r[a]) + c[a] + w[a] + e[a]

LEMMA NewBalances ==
  ASSUME NEW b, NEW r, NEW c, NEW w, NEW e, NEW new, Credited(new, b, r, c, w, e)
  PROVE  /\ \A a \in Accounts : new[a] \in Nat
         /\ Sum(new, Accounts) = ((Sum(b, Accounts) + Sum(r, Accounts)) - (b[Null] + r[Null]))
                                   + Sum(c, Accounts) + Sum(w, Accounts) + Sum(e, Accounts)
<1> DEFINE k0 == [a \in Accounts |-> b[a] + r[a]]
           k  == [a \in Accounts |-> IF a = Null THEN 0 ELSE b[a] + r[a]]
           k1 == [a \in Accounts |-> k[a] + c[a]]
           k2 == [a \in Accounts |-> k1[a] + w[a]]
<1>0. Null \in Accounts
  BY DEF Accounts
<1>1. \A a \in Accounts : b[a] \in Int /\ r[a] \in Int /\ c[a] \in Int /\ w[a] \in Int /\ e[a] \in Int
                          /\ k0[a] \in Int /\ k[a] \in Nat /\ k1[a] \in Nat /\ k2[a] \in Nat
                          /\ k[a] \in Int /\ k1[a] \in Int /\ k2[a] \in Int
  BY DEF Credited
<1>2. \A a \in Accounts : k0[a] = b[a] + r[a] /\ k1[a] = k[a] + c[a] /\ k2[a] = k1[a] + w[a] /\ new[a] = k2[a] + e[a]
  BY DEF Credited
<1>3. \A a \in Accounts : new[a] \in Nat
  BY ONLY Credited(new, b, r, c, w, e) DEF Credited
<1>4. k[Null] = k0[Null] + (- k0[Null]) /\ (\A a \in Accounts \ {Null} : k[a] = k0[a]) /\ - k0[Null] \in Int
      /\ k0[Null] = b[Null] + r[Null]
  BY <1>0, <1>1
<1> HIDE DEF k0, k, k1, k2
<1>5. Sum(k0, Accounts) = Sum(b, Accounts) + Sum(r, Accounts)
  BY ONLY <1>1, <1>2, AccountsFinite, SumPlus
<1>6. Sum(k, Accounts) = Sum(k0, Accounts) + (- k0[Null])
  BY ONLY <1>0, <1>1, <1>4, AccountsFinite, SumChange
<1>7. Sum(k1, Accounts) = Sum(k, Accounts) + Sum(c, Accounts)
  BY ONLY <1>1, <1>2, AccountsFinite, SumPlus
<1>8. Sum(k2, Accounts) = Sum(k1, Accounts) + Sum(w, Accounts)
  BY ONLY <1>1, <1>2, AccountsFinite, SumPlus
<1>9. Sum(new, Accounts) = Sum(k2, Accounts) + Sum(e, Accounts)
  BY ONLY <1>1, <1>2, AccountsFinite, SumPlus
<1>10. Sum(b, Accounts) \in Int /\ Sum(r, Accounts) \in Int /\ Sum(c, Accounts) \in Int /\ Sum(w, Accounts) \in Int
       /\ Sum(e, Accounts) \in Int /\ b[Null] \in Int /\ r[Null] \in Int
  BY <1>0, <1>1, AccountsFinite, SumType
<1> QED  BY ONLY <1>3, <1>4, <1>5, <1>6, <1>7, <1>8, <1>9, <1>10

LEMMA EndBlockKeeps ==
  ASSUME IInv, NEW price \in FeedPrices, EndBlock(price)
  PROVE  IInv'
<1> DEFINE time    == now + 1
           expired == {o \in orders : o.exp < time}
           mature  == {c \in conversions : c.date <= time}
           done    == {w \in withdrawals : w.complete <= time}
           lapsed  == {e \in escrows : ~Approved(e) /\ e.deadline <= time}
           hr(s) == [a \in Accounts |-> SumFunction([o \in {o \in expired : o.seller = a} |-> InOrder(o, s)])]
           hc(s) == [a \in Accounts |-> SumFunction([c \in {c \in mature : c.owner = a} |-> IF s = "F" THEN Times(c.amt, price) ELSE 0])]
           hw(s) == [a \in Accounts |-> SumFunction([w \in {w \in done : w.to = a} |-> InWithdrawal(w, s)])]
           he(s) == [a \in Accounts |-> SumFunction([e \in {e \in lapsed : e.from = a} |-> InEscrow(e, s)])]
<1>1. /\ now' = time /\ orders' = orders \ expired /\ savings' = [savings EXCEPT ![Null] = Nothing]
      /\ conversions' = conversions \ mature /\ withdrawals' = withdrawals \ done /\ escrows' = escrows \ lapsed
      /\ requests' = [a \in Accounts |-> requests[a] - Cardinality({w \in done : w.from = a})]
      /\ fills' = {}
  BY DEF EndBlock
<1>n. Null \in Accounts
  BY DEF Accounts
<1>2. \A a \in Accounts, s \in Symbols : balance'[a][s] =
           (IF a = Null THEN 0 ELSE balance[a][s] + hr(s)[a]) + hc(s)[a] + hw(s)[a] + he(s)[a]
  BY DEF EndBlock
<1>f. balance' = [a \in Accounts |-> balance'[a]] /\ \A a \in Accounts : balance'[a] = [s \in Symbols |-> balance'[a][s]]
  BY DEF EndBlock
<1>3. supply' = [s \in Symbols |-> (supply[s] - (balance[Null][s] + hr(s)[Null] + savings[Null][s]))
           + IF s = "F" THEN SumFunction([c \in mature |-> Times(c.amt, price)])
                        ELSE - SumFunction([c \in mature |-> c.amt])]
  BY <1>n DEF EndBlock
<1>4. /\ expired \in SUBSET orders /\ orders \in SUBSET Order /\ IsFiniteSet(orders)
      /\ mature \in SUBSET conversions /\ conversions \in SUBSET Conversion /\ IsFiniteSet(conversions)
      /\ done \in SUBSET withdrawals /\ withdrawals \in SUBSET Withdrawal /\ IsFiniteSet(withdrawals)
      /\ lapsed \in SUBSET escrows /\ escrows \in SUBSET Escrow /\ IsFiniteSet(escrows)
      /\ balance \in Purses /\ savings \in Purses /\ supply \in [Symbols -> Int] /\ requests \in [Accounts -> Int] /\ now \in Nat
  BY DEF IInv, TypeOk, BookOk
<1> HIDE DEF expired, mature, done, lapsed
<1>5. expired \in SUBSET Order /\ mature \in SUBSET Conversion /\ done \in SUBSET Withdrawal /\ lapsed \in SUBSET Escrow
      /\ IsFiniteSet(expired) /\ IsFiniteSet(mature) /\ IsFiniteSet(done) /\ IsFiniteSet(lapsed)
  BY <1>4, FS_Subset
<1>6. ASSUME NEW s \in Symbols
      PROVE  /\ (\A a \in Accounts : hr(s)[a] \in Nat) /\ Sum(hr(s), Accounts) = OrdersHold(expired, s) /\ OrdersHold(expired, s) \in Nat
             /\ (\A a \in Accounts : hc(s)[a] \in Nat) /\ Sum(hc(s), Accounts) = Worths(mature, s, price) /\ Worths(mature, s, price) \in Nat
             /\ (\A a \in Accounts : hw(s)[a] \in Nat) /\ Sum(hw(s), Accounts) = WithdrawalsHold(done, s) /\ WithdrawalsHold(done, s) \in Nat
             /\ (\A a \in Accounts : he(s)[a] \in Nat) /\ Sum(he(s), Accounts) = EscrowsHold(lapsed, s) /\ EscrowsHold(lapsed, s) \in Nat
  <2>1. (\A a \in Accounts : hr(s)[a] \in Nat) /\ Sum(hr(s), Accounts) = OrdersHold(expired, s) /\ OrdersHold(expired, s) \in Nat
    BY ONLY <1>5, s \in Symbols, Refunds
  <2>2. (\A a \in Accounts : hc(s)[a] \in Nat) /\ Sum(hc(s), Accounts) = Worths(mature, s, price) /\ Worths(mature, s, price) \in Nat
    BY ONLY <1>5, s \in Symbols, price \in FeedPrices, Bought
  <2>3. (\A a \in Accounts : hw(s)[a] \in Nat) /\ Sum(hw(s), Accounts) = WithdrawalsHold(done, s) /\ WithdrawalsHold(done, s) \in Nat
    BY ONLY <1>5, s \in Symbols, Withdrawn
  <2>4. (\A a \in Accounts : he(s)[a] \in Nat) /\ Sum(he(s), Accounts) = EscrowsHold(lapsed, s) /\ EscrowsHold(lapsed, s) \in Nat
    BY ONLY <1>5, s \in Symbols, Lapses
  <2> QED  BY <2>1, <2>2, <2>3, <2>4
<1> HIDE DEF hr, hc, hw, he
<1>7. ASSUME NEW s \in Symbols
      PROVE  /\ \A a \in Accounts : balance'[a][s] \in Nat
             /\ Owned(balance', s) = ((Owned(balance, s) + OrdersHold(expired, s)) - (balance[Null][s] + hr(s)[Null]))
                      + Worths(mature, s, price) + WithdrawalsHold(done, s) + EscrowsHold(lapsed, s)
  <2> DEFINE b == [a \in Accounts |-> balance[a][s]]
             new == [a \in Accounts |-> balance'[a][s]]
             r == hr(s)  c == hc(s)  w == hw(s)  e == he(s)
  <2>1. \A a \in Accounts : b[a] \in Nat /\ r[a] \in Nat /\ c[a] \in Nat /\ w[a] \in Nat /\ e[a] \in Nat
    BY <1>4, <1>6 DEF Purses
  <2>2. \A a \in Accounts : new[a] = (IF a = Null THEN 0 ELSE b[a] + r[a]) + c[a] + w[a] + e[a]
    BY <1>2
  <2>3. Owned(balance, s) = Sum(b, Accounts) /\ Owned(balance', s) = Sum(new, Accounts) /\ b[Null] = balance[Null][s]
        /\ \A a \in Accounts : new[a] = balance'[a][s]
    BY <1>n, OwnedIs
  <2>4. Sum(r, Accounts) = OrdersHold(expired, s) /\ Sum(c, Accounts) = Worths(mature, s, price)
        /\ Sum(w, Accounts) = WithdrawalsHold(done, s) /\ Sum(e, Accounts) = EscrowsHold(lapsed, s) /\ r[Null] = hr(s)[Null]
    BY <1>6
  <2> HIDE DEF b, new, r, c, w, e
  <2>5. /\ \A a \in Accounts : new[a] \in Nat
        /\ Sum(new, Accounts) = ((Sum(b, Accounts) + Sum(r, Accounts)) - (b[Null] + r[Null]))
                                   + Sum(c, Accounts) + Sum(w, Accounts) + Sum(e, Accounts)
    <3>1. Credited(new, b, r, c, w, e)
      BY <2>1, <2>2 DEF Credited
    <3> QED  BY ONLY <3>1, NewBalances
  <2> QED  BY ONLY <2>3, <2>4, <2>5
<1>8. balance' \in Purses
  BY <1>f, <1>7 DEF Purses
<1>9. savings' \in Purses /\ \A s \in Symbols : Owned(savings', s) = Owned(savings, s) - savings[Null][s] /\ savings[Null][s] \in Nat
  <2>1. Nothing \in [Symbols -> Nat] /\ \A s \in Symbols : Nothing[s] = 0
    BY DEF Nothing
  <2>2. savings' \in Purses
    BY <1>1, <1>4, <2>1 DEF Purses
  <2>3. ASSUME NEW s \in Symbols PROVE Owned(savings', s) = Owned(savings, s) - savings[Null][s] /\ savings[Null][s] \in Nat
    <3>1. savings[Null][s] \in Nat /\ savings'[Null][s] = 0 /\ \A a \in Accounts \ {Null} : savings'[a][s] = savings[a][s]
      BY <1>1, <1>4, <1>n, <2>1 DEF Purses
    <3> DEFINE v == - savings[Null][s]
    <3>2. v \in Int /\ savings'[Null][s] = savings[Null][s] + v
      BY <3>1
    <3>3. savings \in Balances /\ savings' \in Balances
      BY <1>4, <2>2, PursesAreBalances
    <3> HIDE DEF v
    <3>4. Owned(savings', s) = Owned(savings, s) + v
      BY ONLY <1>n, <3>1, <3>2, <3>3, s \in Symbols, OwnedChange
    <3>5. Owned(savings, s) \in Int
      BY <3>3, OwnedType
    <3> QED  BY <3>1, <3>4, <3>5 DEF v
  <2> QED  BY <2>2, <2>3
<1>10. BookOk(orders')
  BY <1>1, BookWithout DEF IInv
<1>11. ASSUME NEW s \in Symbols
       PROVE  supply'[s] = (supply[s] - (balance[Null][s] + hr(s)[Null] + savings[Null][s]))
                             + (Worths(mature, s, price) - ConversionsHold(mature, s))
              /\ ConversionsHold(mature, s) \in Int
  <2>1. ConversionsHold(mature, s) \in Int
    BY <1>5, ConversionsSplit
  <2>2. CASE s = "F"
    <3>1. Worths(mature, s, price) = SumFunction([c \in mature |-> Times(c.amt, price)])
      BY <2>2 DEF Worths
    <3>2. ConversionsHold(mature, s) = 0
      <4> DEFINE f == [c \in mature |-> InConversion(c, s)]
      <4>1. \A c \in mature : f[c] = 0
        BY <2>2 DEF InConversion
      <4>2. DOMAIN f = mature
        OBVIOUS
      <4> HIDE DEF f
      <4>3. Sum(f, mature) = 0
        BY <1>5, <4>1, SumZero
      <4> QED  BY <4>2, <4>3 DEF ConversionsHold, f, SumFunction, Sum
    <3>3. Worths(mature, s, price) - 0 = Worths(mature, s, price)
      BY <1>6
    <3> QED  BY <1>3, <2>1, <2>2, <3>1, <3>2, <3>3
  <2>3. CASE s # "F"
    <3>1. s = "D"
      BY <2>3 DEF Symbols
    <3>2. ConversionsHold(mature, s) = SumFunction([c \in mature |-> c.amt])
      BY <3>1 DEF ConversionsHold, InConversion
    <3>3. Worths(mature, s, price) = 0
      <4> DEFINE f == [c \in mature |-> IF s = "F" THEN Times(c.amt, price) ELSE 0]
      <4>1. DOMAIN f = mature /\ \A c \in mature : f[c] = 0
        BY <2>3
      <4> HIDE DEF f
      <4>2. Sum(f, mature) = 0
        BY <1>5, <4>1, SumZero
      <4> QED  BY <4>1, <4>2 DEF Worths, f, SumFunction, Sum
    <3>4. 0 - ConversionsHold(mature, s) = - ConversionsHold(mature, s)
      BY <2>1
    <3> QED  BY <1>3, <2>1, <2>3, <3>2, <3>3, <3>4
  <2> QED  BY <2>2, <2>3
<1>12. ASSUME NEW s \in Symbols PROVE hr(s)[Null] \in Nat /\ balance[Null][s] \in Nat /\ savings[Null][s] \in Nat
  BY <1>4, <1>6, <1>n DEF Purses
<1>13. TypeOk'
  <2>1. supply' \in [Symbols -> Int]
    <3>1. \A s \in Symbols : supply'[s] \in Int
      BY <1>4, <1>6, <1>11, <1>12
    <3>2. supply' = [s \in Symbols |-> supply'[s]]
      BY <1>3
    <3> QED  BY <3>1, <3>2
  <2>2. requests' \in [Accounts -> Int]
    <3>1. \A a \in Accounts : Cardinality({w \in done : w.from = a}) \in Nat
      BY <1>5, FS_Subset, FS_CardinalityType
    <3> QED  BY <1>1, <1>4, <3>1
  <2>3. IsFiniteSet(withdrawals') /\ IsFiniteSet(conversions') /\ IsFiniteSet(escrows')
    BY <1>1, <1>4, FS_Subset
  <2> QED  BY <1>1, <1>4, <1>8, <1>9, <2>1, <2>2, <2>3 DEF TypeOk
<1>14. Balanced'
  <2> SUFFICES ASSUME NEW s \in Symbols PROVE supply'[s] = Held(s)'
    BY DEF Balanced
  <2>1. OrdersHold(orders, s) = OrdersHold(expired, s) + OrdersHold(orders', s) /\ OrdersHold(orders', s) \in Int
    BY <1>1, <1>4, OrdersSplit
  <2>2. WithdrawalsHold(withdrawals, s) = WithdrawalsHold(done, s) + WithdrawalsHold(withdrawals', s) /\ WithdrawalsHold(withdrawals', s) \in Int
    BY <1>1, <1>4, WithdrawalsSplit
  <2>3. EscrowsHold(escrows, s) = EscrowsHold(lapsed, s) + EscrowsHold(escrows', s) /\ EscrowsHold(escrows', s) \in Int
    BY <1>1, <1>4, EscrowsSplit
  <2>4. ConversionsHold(conversions, s) = ConversionsHold(mature, s) + ConversionsHold(conversions', s) /\ ConversionsHold(conversions', s) \in Int
    BY <1>1, <1>4, ConversionsSplit
  <2>5. Held(s)' = Owned(balance', s) + Owned(savings', s) + OrdersHold(orders', s) + WithdrawalsHold(withdrawals', s)
                     + EscrowsHold(escrows', s) + ConversionsHold(conversions', s)
    BY HeldNext DEF Together
  <2>6. supply[s] = Owned(balance, s) + Owned(savings, s) + OrdersHold(orders, s) + WithdrawalsHold(withdrawals, s)
                      + EscrowsHold(escrows, s) + ConversionsHold(conversions, s)
        /\ Owned(balance, s) \in Int /\ Owned(savings, s) \in Int
    BY SumTypes DEF Together
  <2>7. Owned(savings', s) = Owned(savings, s) - savings[Null][s]
    BY <1>9
  <2> QED  BY ONLY <2>1, <2>2, <2>3, <2>4, <2>5, <2>6, <2>7, <1>6, <1>7, <1>11, <1>12, s \in Symbols
<1>15. Counted'
  <2> SUFFICES ASSUME NEW a \in Accounts PROVE requests'[a] = Cardinality({v \in withdrawals' : v.from = a})
    BY DEF Counted
  <2> DEFINE W == {v \in withdrawals : v.from = a}
             D == {v \in done : v.from = a}
  <2>1. {v \in withdrawals' : v.from = a} = W \ D /\ W \cap D = D
    BY <1>1, <1>4
  <2>2. IsFiniteSet(W)
    BY <1>4, FS_Subset
  <2>3. requests'[a] = requests[a] - Cardinality(D) /\ requests[a] = Cardinality(W)
    BY <1>1 DEF IInv, Counted
  <2> HIDE DEF W, D
  <2>4. Cardinality(W \ D) = Cardinality(W) - Cardinality(W \cap D)
    BY <2>2, FS_Difference
  <2> QED  BY <2>1, <2>3, <2>4
<1>16. OneEscrow' /\ FeePaid'
  BY <1>1 DEF OneEscrow, FeePaid, IInv
<1>17. AtLimit(fills)' /\ BookOk(orders)'
  BY <1>1, <1>10 DEF AtLimit, BookOk
<1> QED  BY <1>13, <1>14, <1>15, <1>16, <1>17 DEF IInv

(***************************************************************************)
(* The specification.                                                      *)
(***************************************************************************)

LEMMA InitKeeps == Init => IInv
<1> SUFFICES ASSUME Init PROVE IInv
  OBVIOUS
<1>0. \A f : DOMAIN f = {} => SumFunction(f) = 0
  BY SumEmpty DEF SumFunction, Sum
<1>1. /\ balance = InitBalance /\ savings = [a \in Accounts |-> [s \in Symbols |-> 0]]
      /\ requests = [a \in Accounts |-> 0] /\ orders = {} /\ withdrawals = {} /\ conversions = {} /\ escrows = {}
      /\ supply = [s \in Symbols |-> Owned(InitBalance, s)] /\ now = 0 /\ fills = {}
  BY DEF Init
<1>2. balance \in Purses /\ savings \in Purses
  BY <1>1, LedgerAssumption DEF Purses
<1>3. \A s \in Symbols : Owned(balance, s) \in Int
  BY <1>2, PursesAreBalances, OwnedType
<1>4. ASSUME NEW s \in Symbols PROVE Owned(savings, s) = 0
  <2> DEFINE f == [a \in Accounts |-> savings[a][s]]
  <2>1. \A a \in Accounts : f[a] = 0
    BY <1>1
  <2> HIDE DEF f
  <2>2. Sum(f, Accounts) = 0
    BY ONLY <2>1, AccountsFinite, SumZero
  <2> QED  BY <2>2, OwnedIs DEF f
<1>5. \A s \in Symbols : /\ OrdersHold({}, s) = 0 /\ WithdrawalsHold({}, s) = 0
                         /\ EscrowsHold({}, s) = 0 /\ ConversionsHold({}, s) = 0
  BY <1>0 DEF OrdersHold, WithdrawalsHold, EscrowsHold, ConversionsHold
<1>6. Balanced
  <2> SUFFICES ASSUME NEW s \in Symbols PROVE supply[s] = Held(s)
    BY DEF Balanced
  <2>1. Held(s) = Owned(balance, s) + Owned(savings, s) + OrdersHold({}, s) + WithdrawalsHold({}, s)
                    + EscrowsHold({}, s) + ConversionsHold({}, s)
    BY <1>1, HeldIs DEF Together
  <2>2. supply[s] = Owned(balance, s)
    BY <1>1
  <2> QED  BY ONLY <2>1, <2>2, <1>3, <1>4, <1>5, s \in Symbols
<1>7. Cardinality({}) = 0 /\ IsFiniteSet({})
  BY FS_EmptySet
<1>8. Counted
  <2> SUFFICES ASSUME NEW a \in Accounts PROVE requests[a] = Cardinality({w \in withdrawals : w.from = a})
    BY DEF Counted
  <2>1. {w \in withdrawals : w.from = a} = {}
    BY <1>1
  <2> QED  BY <1>1, <1>7, <2>1
<1>9. TypeOk
  <2>1. supply \in [Symbols -> Int] /\ requests \in [Accounts -> Int]
    BY <1>1, <1>3
  <2> QED  BY <1>1, <1>2, <1>7, <2>1 DEF TypeOk
<1>10. OneEscrow /\ FeePaid /\ BookOk(orders) /\ AtLimit(fills)
  BY <1>1, <1>7 DEF OneEscrow, FeePaid, BookOk, AtLimit, Distinct
<1> QED  BY <1>6, <1>8, <1>9, <1>10 DEF IInv

LEMMA SavingsKeep ==
  ASSUME IInv, NEW a \in Accounts, NEW to \in Accounts, NEW s \in Symbols, NEW x \in Nat,
         TransferToSavings(a, to, s, x) \/ (\E id \in Ids : TransferFromSavings(a, to, s, x, id))
  PROVE  IInv'
BY ToSavingsKeeps, FromSavingsKeeps

LEMMA AnEscrowKeeps ==
  ASSUME IInv, NEW a \in Users, NEW e \in escrows,
         \/ \E approve \in BOOLEAN : EscrowApprove(e, a, approve)
         \/ EscrowDispute(e)
         \/ \E r \in Users, x \in Parts : EscrowRelease(e, a, r, x)
  PROVE  IInv'
<1>1. CASE \E approve \in BOOLEAN : EscrowApprove(e, a, approve)
  BY <1>1, EscrowApproveKeeps
<1>2. CASE EscrowDispute(e)
  BY <1>2, EscrowDisputeKeeps
<1>3. CASE \E r \in Users, x \in Parts : EscrowRelease(e, a, r, x)
  <2>1. PICK r \in Users, x \in Parts : EscrowRelease(e, a, r, x)
    BY <1>3
  <2>2. r \in Accounts /\ x \in [Symbols -> Nat]
    BY DEF Accounts, Parts
  <2> QED  BY <2>1, <2>2, EscrowReleaseKeeps
<1> QED  BY <1>1, <1>2, <1>3

LEMMA OperationKeeps ==
  ASSUME IInv, NEW a \in Users, Operation(a)
  PROVE  IInv'
<1>1. a \in Accounts /\ Users \subseteq Accounts /\ Amounts \subseteq Pos /\ Amounts \subseteq Nat
      /\ MaxTime \in Int /\ now \in Int
  BY LedgerAssumption DEF Accounts, Pos, IInv, TypeOk
<1>2. CASE \E to \in Accounts, s \in Symbols, x \in Amounts : Transfer(a, to, s, x)
  BY <1>1, <1>2, TransferKeeps
<1>3. CASE \E to \in Accounts, s \in Symbols, x \in Amounts :
             TransferToSavings(a, to, s, x) \/ (\E id \in Ids : TransferFromSavings(a, to, s, x, id))
  BY <1>1, <1>3, SavingsKeep
<1>4. CASE \E w \in withdrawals : w.from = a /\ CancelTransferFromSavings(w)
  BY <1>4, CancelSavingsKeeps
<1>5. CASE \E s \in Symbols, x \in Amounts, p \in Prices, id \in Ids, exp \in now + 1 .. MaxTime, f \in BOOLEAN :
             LimitOrderCreate(a, s, x, p, id, exp, f)
  <2>1. PICK s \in Symbols, x \in Amounts, p \in Prices, id \in Ids, exp \in now + 1 .. MaxTime, f \in BOOLEAN :
             LimitOrderCreate(a, s, x, p, id, exp, f)
    BY <1>5
  <2>2. exp \in Int /\ x \in Pos
    BY <1>1
  <2> QED  BY <1>1, <2>1, <2>2, OrderCreateKeeps
<1>6. CASE \E o \in orders : o.seller = a /\ LimitOrderCancel(o)
  BY <1>6, OrderCancelKeeps
<1>7. CASE \E x \in Amounts, id \in Ids : Convert(a, x, id)
  BY <1>1, <1>7, ConvertKeeps
<1>8. CASE \E to, agent \in Users, x \in Parts, fee \in 0 .. 1, id \in Ids, d, e \in now + 1 .. MaxTime :
             EscrowTransfer(a, to, agent, x, fee, id, d, e)
  <2>1. PICK to, agent \in Users, x \in Parts, fee \in 0 .. 1, id \in Ids, d, e \in now + 1 .. MaxTime :
             EscrowTransfer(a, to, agent, x, fee, id, d, e)
    BY <1>8
  <2>2. d \in Int /\ e \in Int /\ fee \in Nat /\ to \in Accounts /\ agent \in Accounts
    BY <1>1
  <2>3. x \in [Symbols -> Nat]
    BY DEF Parts
  <2> QED  BY <1>1, <2>1, <2>2, <2>3, EscrowTransferKeeps
<1>9. CASE \E e \in escrows : \/ \E approve \in BOOLEAN : EscrowApprove(e, a, approve)
                              \/ a \in {e.from, e.to} /\ EscrowDispute(e)
                              \/ \E r \in Users, x \in Parts : EscrowRelease(e, a, r, x)
  BY <1>9, AnEscrowKeeps
<1> QED  BY <1>2, <1>3, <1>4, <1>5, <1>6, <1>7, <1>8, <1>9 DEF Operation

LEMMA NextKeeps == IInv /\ [Next]_vars => IInv'
<1> SUFFICES ASSUME IInv, [Next]_vars PROVE IInv'
  OBVIOUS
<1>1. CASE \E a \in Users : Operation(a)
  BY <1>1, OperationKeeps
<1>2. CASE \E p \in FeedPrices : EndBlock(p)
  BY <1>2, EndBlockKeeps
<1>3. CASE UNCHANGED vars
  BY <1>3 DEF vars, IInv, TypeOk, OneEscrow, FeePaid, Balanced, Counted, Held
<1> QED  BY <1>1, <1>2, <1>3 DEF Next

LEMMA InvariantHolds == Spec => []IInv
BY InitKeeps, NextKeeps, PTL DEF Spec

\* The accounting of validate_invariants (database.cpp) for any number of
\* accounts, any prices of orders and of the feed, any amounts and delays:
\* through matching with its rounding, refunds of orders, delayed withdrawals
\* from savings, escrows in any stage, burning and conversions, the supply of
\* each symbol is exactly what accounts and objects hold, no balance is
\* negative, and savings_withdraw_requests counts the objects.
THEOREM SupplyAlwaysMatches == Spec => []SupplyMatches
<1>1. IInv => SupplyMatches
  <2> SUFFICES ASSUME IInv PROVE SupplyMatches
    OBVIOUS
  <2>1. \A a \in Accounts, s \in Symbols : balance[a][s] >= 0 /\ savings[a][s] >= 0
    BY DEF IInv, TypeOk, Purses
  <2> QED  BY <2>1 DEF IInv, Balanced, Counted, SupplyMatches
<1> QED  BY <1>1, InvariantHolds, PTL

\* After apply_order has gone through the book the new order crosses none that
\* stays in it, and neither matching nor fill_order leaves an order whose
\* price asks nothing for the rest of it, whatever the prices and amounts.
THEOREM BookStaysUncrossed == Spec => []BookUncrossed
<1>1. IInv => BookUncrossed
  BY DEF IInv, BookOk, Asks, BookUncrossed
<1> QED  BY <1>1, InvariantHolds, PTL

\* match gives both sides at least what their own limit price asks for what
\* they pay, for all prices and amounts, although it computes only at the
\* price of the older order and rounds down; and neither pays for nothing.
THEOREM TradesStayAtLimit == Spec => []TradesAtLimit
<1>1. IInv => TradesAtLimit
  BY DEF IInv, AtLimit, TradesAtLimit
<1> QED  BY <1>1, InvariantHolds, PTL
=============================================================================
