-------------------------- MODULE PendingPool_proofs --------------------------
(***************************************************************************)
(* Proofs about PendingPool for any set of transactions, whatever they     *)
(* need and exclude, any expirations, sizes and limits.                    *)
(***************************************************************************)
EXTENDS PendingPool, SequenceTheorems, TLAPS

(***************************************************************************)
(* Lemmas about the elements of sequences.                                 *)
(***************************************************************************)

LEMMA SetOfEmpty ==
  ASSUME NEW S
  PROVE  <<>> \in Seq(S) /\ ToSet(<<>>) = {} /\ Len(<<>>) = 0
BY DEF ToSet

LEMMA SetOfSeq ==
  ASSUME NEW S, NEW s \in Seq(S)
  PROVE  /\ ToSet(s) = {s[i] : i \in 1 .. Len(s)}
         /\ ToSet(s) \subseteq S /\ Len(s) \in Nat
         /\ \A i \in 1 .. Len(s) : s[i] \in S
BY DEF ToSet

LEMMA SetOfAppend ==
  ASSUME NEW S, NEW s \in Seq(S), NEW x \in S
  PROVE  /\ Append(s, x) \in Seq(S) /\ ToSet(Append(s, x)) = ToSet(s) \cup {x}
         /\ Len(Append(s, x)) = Len(s) + 1
         /\ \A i \in 1 .. Len(s) : Append(s, x)[i] = s[i]
         /\ Append(s, x)[Len(s) + 1] = x
<1>1. /\ Append(s, x) \in Seq(S) /\ Len(Append(s, x)) = Len(s) + 1 /\ Len(s) \in Nat
      /\ \A i \in 1 .. Len(s) : Append(s, x)[i] = s[i]
      /\ Append(s, x)[Len(s) + 1] = x
  BY AppendProperties, LenProperties
<1>2. ToSet(Append(s, x)) = {Append(s, x)[i] : i \in 1 .. Len(s) + 1}
  BY <1>1, SetOfSeq
<1>3. ToSet(s) = {s[i] : i \in 1 .. Len(s)}
  BY SetOfSeq
<1>4. 1 .. Len(s) + 1 = (1 .. Len(s)) \cup {Len(s) + 1}
  BY <1>1
<1> QED  BY <1>1, <1>2, <1>3, <1>4

LEMMA SetOfTail ==
  ASSUME NEW S, NEW s \in Seq(S), s # <<>>
  PROVE  /\ Tail(s) \in Seq(S) /\ Head(s) \in S
         /\ ToSet(s) = {Head(s)} \cup ToSet(Tail(s))
<1>1. /\ Head(s) \in S /\ Tail(s) \in Seq(S) /\ Len(Tail(s)) = Len(s) - 1
      /\ Len(s) \in Nat /\ Len(s) > 0 /\ Head(s) = s[1]
      /\ \A i \in 1 .. Len(s) - 1 : Tail(s)[i] = s[i + 1]
  BY HeadTailProperties, EmptySeq, LenProperties
<1>2. ToSet(s) = {s[i] : i \in 1 .. Len(s)} /\ ToSet(Tail(s)) = {Tail(s)[i] : i \in 1 .. Len(s) - 1}
  BY <1>1, SetOfSeq
<1>3. ASSUME NEW x \in ToSet(s), x # Head(s)
      PROVE  x \in ToSet(Tail(s))
  <2>1. PICK i \in 1 .. Len(s) : x = s[i]
    BY <1>2
  <2>2. i # 1 /\ i - 1 \in 1 .. Len(s) - 1
    BY <1>1, <1>3, <2>1
  <2>3. Tail(s)[i - 1] = x
    BY <1>1, <2>1, <2>2
  <2> QED  BY <1>2, <2>2, <2>3
<1>4. ASSUME NEW x \in ToSet(Tail(s))
      PROVE  x \in ToSet(s)
  <2>1. PICK i \in 1 .. Len(s) - 1 : x = Tail(s)[i]
    BY <1>2
  <2>2. i + 1 \in 1 .. Len(s) /\ x = s[i + 1]
    BY <1>1, <2>1
  <2> QED  BY <1>2, <2>2
<1>5. Head(s) \in ToSet(s)
  BY <1>1, <1>2
<1> QED  BY <1>1, <1>3, <1>4, <1>5

LEMMA SetOfConcat ==
  ASSUME NEW S, NEW s \in Seq(S), NEW t \in Seq(S)
  PROVE  s \o t \in Seq(S) /\ ToSet(s \o t) = ToSet(s) \cup ToSet(t)
<1>1. /\ s \o t \in Seq(S) /\ Len(s \o t) = Len(s) + Len(t) /\ Len(s) \in Nat /\ Len(t) \in Nat
      /\ \A i \in 1 .. Len(s) + Len(t) :
            (s \o t)[i] = IF i <= Len(s) THEN s[i] ELSE t[i - Len(s)]
  BY ConcatProperties, LenProperties
<1>2. /\ ToSet(s) = {s[i] : i \in 1 .. Len(s)} /\ ToSet(t) = {t[i] : i \in 1 .. Len(t)}
      /\ ToSet(s \o t) = {(s \o t)[i] : i \in 1 .. Len(s) + Len(t)}
  BY <1>1, SetOfSeq
<1>3. ASSUME NEW x \in ToSet(t)
      PROVE  x \in ToSet(s \o t)
  <2>1. PICK i \in 1 .. Len(t) : x = t[i]
    BY <1>2
  <2>2. Len(s) + i \in 1 .. Len(s) + Len(t) /\ (s \o t)[Len(s) + i] = x
    BY <1>1, <2>1
  <2> QED  BY <1>2, <2>2
<1>4. ASSUME NEW x \in ToSet(s)
      PROVE  x \in ToSet(s \o t)
  <2>1. PICK i \in 1 .. Len(s) : x = s[i]
    BY <1>2
  <2>2. i \in 1 .. Len(s) + Len(t) /\ (s \o t)[i] = x
    BY <1>1, <2>1
  <2> QED  BY <1>2, <2>2
<1>5. ASSUME NEW x \in ToSet(s \o t)
      PROVE  x \in ToSet(s) \cup ToSet(t)
  <2>1. PICK i \in 1 .. Len(s) + Len(t) : x = (s \o t)[i]
    BY <1>2
  <2>2. CASE i <= Len(s)
    BY <1>1, <1>2, <2>1, <2>2
  <2>3. CASE i > Len(s)
    <3>1. i - Len(s) \in 1 .. Len(t) /\ x = t[i - Len(s)]
      BY <1>1, <2>1, <2>3
    <3> QED  BY <1>2, <3>1
  <2> QED  BY <1>1, <2>2, <2>3
<1> QED  BY <1>1, <1>3, <1>4, <1>5

(***************************************************************************)
(* Lemmas about chains.                                                    *)
(***************************************************************************)

\* The first k blocks.
LEMMA Beginning ==
  ASSUME NEW ch \in Seq(Block), NEW k \in 0 .. Len(ch)
  PROVE  /\ SubSeq(ch, 1, k) \in Seq(Block) /\ Len(SubSeq(ch, 1, k)) = k
         /\ \A i \in 1 .. k : SubSeq(ch, 1, k)[i] = ch[i]
<1>1. Len(ch) \in Nat /\ \A i \in 1 .. k : ch[i] \in Block
  BY LenProperties, ElementOfSeq
<1> QED  BY <1>1, SubSeqProperties

\* Chains that agree on k blocks have the same beginning of k blocks.
LEMMA SameBeginning ==
  ASSUME NEW c \in Seq(Block), NEW d \in Seq(Block), NEW k \in 0 .. Len(c), k <= Len(d),
         \A i \in 1 .. k : c[i] = d[i]
  PROVE  SubSeq(c, 1, k) = SubSeq(d, 1, k)
<1>1. k \in 0 .. Len(d) /\ Len(c) \in Nat /\ Len(d) \in Nat
  BY LenProperties
<1>2. /\ SubSeq(c, 1, k) \in Seq(Block) /\ Len(SubSeq(c, 1, k)) = k
      /\ \A i \in 1 .. k : SubSeq(c, 1, k)[i] = c[i]
  BY Beginning
<1>3. /\ SubSeq(d, 1, k) \in Seq(Block) /\ Len(SubSeq(d, 1, k)) = k
      /\ \A i \in 1 .. k : SubSeq(d, 1, k)[i] = d[i]
  BY <1>1, Beginning
<1> QED  BY <1>2, <1>3, SeqEqual

LEMMA BlockFields ==
  ASSUME NEW b \in Block
  PROVE  b.txs \in Seq(Tx) /\ b.time \in Nat
BY DEF Block

LEMMA ChainTxsType ==
  ASSUME NEW ch \in Seq(Block)
  PROVE  ChainTxs(ch) \subseteq Tx
<1>1. ASSUME NEW n \in 1 .. Len(ch)
      PROVE  ToSet(ch[n].txs) \subseteq Tx
  BY ElementOfSeq, BlockFields, SetOfSeq
<1> QED  BY <1>1 DEF ChainTxs

\* Any prefix of an applicable chain is one.
LEMMA ChainOkBeginning ==
  ASSUME NEW ch \in Seq(Block), ChainOk(ch), NEW k \in 1 .. Len(ch)
  PROVE  ChainOk(SubSeq(ch, 1, k))
<1> DEFINE c == SubSeq(ch, 1, k)
<1>1. Len(ch) \in Nat
  BY LenProperties
<1>2. c \in Seq(Block) /\ Len(c) = k /\ \A i \in 1 .. k : c[i] = ch[i]
  BY <1>1, Beginning
<1>3. ASSUME NEW n \in 2 .. k
      PROVE  BlockOk(SubSeq(c, 1, n - 1), c[n])
  <2>1. SubSeq(c, 1, n - 1) = SubSeq(ch, 1, n - 1)
    <3>1. n - 1 \in 0 .. Len(c) /\ n - 1 <= Len(ch) /\ \A i \in 1 .. n - 1 : c[i] = ch[i]
      BY <1>1, <1>2, <1>3
    <3> HIDE DEF c
    <3> QED  BY <3>1, <1>2, SameBeginning
  <2>2. BlockOk(SubSeq(ch, 1, n - 1), ch[n])
    BY <1>1, <1>3 DEF ChainOk
  <2>3. c[n] = ch[n]
    BY <1>2, <1>3
  <2> HIDE DEF c
  <2> QED  BY <2>1, <2>2, <2>3
<1>4. Len(c) > 0 /\ c[1] = Genesis
  BY <1>2 DEF ChainOk
<1> QED  BY <1>2, <1>3, <1>4 DEF ChainOk

LEMMA ChainAppend ==
  ASSUME NEW ch \in Seq(Block), NEW b \in Block
  PROVE  /\ Append(ch, b) \in Seq(Block) /\ Len(Append(ch, b)) = Len(ch) + 1
         /\ ChainTxs(Append(ch, b)) = ChainTxs(ch) \cup ToSet(b.txs)
         /\ \A k \in 0 .. Len(ch) : SubSeq(Append(ch, b), 1, k) = SubSeq(ch, 1, k)
         /\ ChainOk(ch) /\ BlockOk(ch, b) => ChainOk(Append(ch, b))
<1> DEFINE c == Append(ch, b)
<1>1. /\ c \in Seq(Block) /\ Len(c) = Len(ch) + 1 /\ Len(ch) \in Nat
      /\ \A i \in 1 .. Len(ch) : c[i] = ch[i]
      /\ c[Len(ch) + 1] = b
  BY SetOfAppend, LenProperties
<1> HIDE DEF c
<1>2. ChainTxs(c) = ChainTxs(ch) \cup ToSet(b.txs)
  <2>1. 1 .. Len(c) = (1 .. Len(ch)) \cup {Len(ch) + 1}
    BY <1>1
  <2> QED  BY <1>1, <2>1 DEF ChainTxs
<1>3. ASSUME NEW k \in 0 .. Len(ch)
      PROVE  SubSeq(c, 1, k) = SubSeq(ch, 1, k)
  <2>1. k \in 0 .. Len(c) /\ k <= Len(ch) /\ \A i \in 1 .. k : c[i] = ch[i]
    BY <1>1
  <2> QED  BY <1>1, <2>1, SameBeginning
<1>4. ASSUME ChainOk(ch), BlockOk(ch, b)
      PROVE  ChainOk(c)
  <2>1. ASSUME NEW n \in 2 .. Len(c)
        PROVE  BlockOk(SubSeq(c, 1, n - 1), c[n])
    <3>1. SubSeq(c, 1, n - 1) = SubSeq(ch, 1, n - 1)
      BY <1>1, <1>3, n - 1 \in 0 .. Len(ch)
    <3>2. CASE n = Len(ch) + 1
      <4>1. SubSeq(ch, 1, n - 1) = ch
        BY <1>1, <3>2, SubSeqFull
      <4> QED  BY <4>1, <3>1, <3>2, <1>1, <1>4
    <3>3. CASE n \in 2 .. Len(ch)
      <4>1. BlockOk(SubSeq(ch, 1, n - 1), ch[n]) /\ c[n] = ch[n]
        BY <3>3, <1>1, <1>4 DEF ChainOk
      <4> QED  BY <3>1, <4>1
    <3> QED  BY <3>2, <3>3, <1>1
  <2>2. Len(c) > 0 /\ c[1] = Genesis
    BY <1>1, <1>4 DEF ChainOk
  <2> QED  BY <1>1, <2>1, <2>2 DEF ChainOk
<1> QED  BY <1>1, <1>2, <1>3, <1>4 DEF c

LEMMA ChainFront ==
  ASSUME NEW ch \in Seq(Block), Len(ch) > 1
  PROVE  /\ Front(ch) = SubSeq(ch, 1, Len(ch) - 1)
         /\ Front(ch) \in Seq(Block) /\ Len(Front(ch)) = Len(ch) - 1
         /\ Last(ch) \in Block
         /\ ChainTxs(ch) = ChainTxs(Front(ch)) \cup ToSet(Last(ch).txs)
         /\ \A k \in 0 .. Len(ch) - 1 : SubSeq(Front(ch), 1, k) = SubSeq(ch, 1, k)
         /\ ChainOk(ch) => ChainOk(Front(ch))
<1> DEFINE c == SubSeq(ch, 1, Len(ch) - 1)
<1>1. /\ Len(ch) \in Nat /\ Len(ch) - 1 \in 0 .. Len(ch) /\ Len(ch) - 1 \in 1 .. Len(ch)
      /\ Front(ch) = c /\ Last(ch) = ch[Len(ch)] /\ ch[Len(ch)] \in Block
  BY LenProperties, ElementOfSeq DEF Front, Last
<1>2. c \in Seq(Block) /\ Len(c) = Len(ch) - 1 /\ \A i \in 1 .. Len(ch) - 1 : c[i] = ch[i]
  BY <1>1, Beginning
<1>3. ChainOk(ch) => ChainOk(c)
  BY <1>1, ChainOkBeginning
<1> HIDE DEF c
<1>4. ChainTxs(ch) = ChainTxs(c) \cup ToSet(Last(ch).txs)
  <2>1. 1 .. Len(ch) = (1 .. Len(c)) \cup {Len(ch)}
    BY <1>1, <1>2
  <2> QED  BY <1>1, <1>2, <2>1 DEF ChainTxs
<1>5. ASSUME NEW k \in 0 .. Len(ch) - 1
      PROVE  SubSeq(c, 1, k) = SubSeq(ch, 1, k)
  <2>1. k \in 0 .. Len(c) /\ k <= Len(ch) /\ \A i \in 1 .. k : c[i] = ch[i]
    BY <1>1, <1>2
  <2> QED  BY <1>2, <2>1, SameBeginning
<1> QED  BY <1>1, <1>2, <1>3, <1>4, <1>5 DEF c

\* A chain of k blocks of another contains only transactions of it.
LEMMA TxsOfBeginning ==
  ASSUME NEW ch \in Seq(Block), NEW k \in 0 .. Len(ch)
  PROVE  ChainTxs(SubSeq(ch, 1, k)) \subseteq ChainTxs(ch)
<1>1. /\ Len(SubSeq(ch, 1, k)) = k /\ Len(ch) \in Nat
      /\ \A i \in 1 .. k : SubSeq(ch, 1, k)[i] = ch[i]
  BY Beginning, LenProperties
<1> QED  BY <1>1 DEF ChainTxs

LEMMA AllApplyAppend ==
  ASSUME NEW ch \in Seq(Block), NEW txs \in Seq(Tx), NEW t \in Tx,
         AllApply(ch, txs),
         Applies(t, HeadTime(ch), Dedupe(ch) \cup ToSet(txs), ChainTxs(ch) \cup ToSet(txs))
  PROVE  AllApply(ch, Append(txs, t))
<1> DEFINE a == Append(txs, t)
<1>1. /\ Len(a) = Len(txs) + 1 /\ Len(txs) \in Nat
      /\ \A i \in 1 .. Len(txs) : a[i] = txs[i]
      /\ a[Len(txs) + 1] = t
  BY SetOfAppend, LenProperties
<1> HIDE DEF a
<1> DEFINE Before(s, n) == {s[m] : m \in 1 .. n - 1}
           Ok(s, n) == Applies(s[n], HeadTime(ch), Dedupe(ch) \cup Before(s, n),
                               ChainTxs(ch) \cup Before(s, n))
<1>2. ASSUME NEW n \in 1 .. Len(a)
      PROVE  Ok(a, n)
  <2>1. Before(a, n) = Before(txs, n)
    <3>1. \A m \in 1 .. n - 1 : a[m] = txs[m]
      BY <1>1
    <3> QED  BY <3>1
  <2>2. CASE n = Len(txs) + 1
    <3>1. Before(txs, n) = ToSet(txs)
      <4>1. n - 1 = Len(txs)
        BY <1>1, <2>2
      <4> QED  BY <4>1, SetOfSeq
    <3> HIDE DEF Before
    <3> QED  BY <1>1, <2>1, <2>2, <3>1
  <2>3. CASE n \in 1 .. Len(txs)
    <3>1. Ok(txs, n)
      BY <2>3 DEF AllApply
    <3>2. a[n] = txs[n]
      BY <1>1, <2>3
    <3> HIDE DEF Before
    <3> QED  BY <2>1, <3>1, <3>2
  <2> QED  BY <1>1, <2>2, <2>3
<1> QED  BY <1>2 DEF AllApply, a

\* On a chain of applicable blocks no transaction is repeated: it was either
\* still in the transaction index, or expired.
LEMMA NoneRepeated ==
  ASSUME NEW ch \in Seq(Block), ChainOk(ch),
         NEW i \in 1 .. Len(ch), NEW j \in 1 .. Len(ch), i <= j,
         NEW m \in 1 .. Len(ch[i].txs), NEW n \in 1 .. Len(ch[j].txs),
         i = j => m < n,
         ch[i].txs[m] = ch[j].txs[n]
  PROVE  FALSE
<1>0. j # 1
  <2>1. ch[1].txs = <<>>
    BY DEF ChainOk, Genesis
  <2> QED  BY <2>1, SetOfEmpty
<1> DEFINE p == SubSeq(ch, 1, j - 1)
           t == ch[j].txs[n]
           before == {ch[j].txs[k] : k \in 1 .. n - 1}
<1>1. Len(ch) \in Nat /\ j \in 2 .. Len(ch) /\ ch[j] \in Block /\ ch[i] \in Block
  BY <1>0, LenProperties, ElementOfSeq
<1>2. BlockOk(p, ch[j])
  BY <1>1 DEF ChainOk
<1>3. Applies(t, HeadTime(p), Dedupe(p) \cup before, ChainTxs(p) \cup before)
  BY <1>2 DEF BlockOk, AllApply
<1>4. t \notin Dedupe(p) /\ t \notin before /\ HeadTime(p) < Expiry[t]
  BY <1>3 DEF Applies
<1>5. ch[i].txs \in Seq(Tx) /\ ch[j].txs \in Seq(Tx) /\ t \in Tx
  BY <1>1, BlockFields, ElementOfSeq
<1>6. CASE i < j
  <2>1. /\ Len(p) = j - 1 /\ p \in Seq(Block)
        /\ \A k \in 1 .. j - 1 : p[k] = ch[k]
    BY <1>1, j - 1 \in 0 .. Len(ch), Beginning
  <2>2. HeadTime(p) \in Nat
    <3>1. p[Len(p)] \in Block
      BY <2>1, <1>1, ElementOfSeq
    <3> QED  BY <3>1, BlockFields DEF HeadTime
  <2>3. t \in ToSet(ch[i].txs)
    BY <1>5, SetOfSeq
  <2>4. i \in 1 .. Len(p) /\ p[i] = ch[i]
    BY <2>1, <1>1, <1>6
  <2> HIDE DEF p, t
  <2>5. t \in ChainTxs(p)
    BY <2>3, <2>4 DEF ChainTxs
  <2>6. HeadTime(p) <= Expiry[t]
    BY <1>4, <1>5, <2>2, TxAssumption
  <2> QED  BY <1>4, <2>5, <2>6 DEF Dedupe
<1>7. CASE i = j
  <2>1. m \in 1 .. n - 1 /\ ch[j].txs[m] = t
    BY <1>7, <1>5, LenProperties
  <2> QED  BY <2>1, <1>4
<1> QED  BY <1>6, <1>7, <1>1

(***************************************************************************)
(* The invariant.                                                          *)
(***************************************************************************)

LEMMA InitOk == Init => IInv
<1> SUFFICES ASSUME Init PROVE IInv
  OBVIOUS
<1>1. Genesis \in Block
  BY SetOfEmpty DEF Genesis, Block
<1>2. chain \in Seq(Block) /\ Len(chain) = 1 /\ chain[1] = Genesis
  BY <1>1 DEF Init
<1>3. TypeOK
  BY <1>2, SetOfEmpty DEF Init, TypeOK, NoGen
<1>4. ChainOk(chain)
  BY <1>2 DEF ChainOk
<1>5. NothingLost /\ AppliedIsPending
  BY SetOfEmpty DEF Init, NothingLost, AppliedIsPending
<1> QED  BY <1>3, <1>4, <1>5 DEF Init, IInv, SwitchOk, GenOk

\* What a push does first: the pending transactions are waiting, the session
\* is gone.
LEMMA PutAsideTypes ==
  ASSUME TypeOK, PutAside
  PROVE  /\ todo' \in Seq(Tx) /\ pending' \in Seq(Tx) /\ applied' \in Seq(Tx)
         /\ session' \in BOOLEAN /\ phantom' \in Nat /\ culled' \subseteq Tx
         /\ todo' = pending
         /\ ToSet(applied') = {} /\ ToSet(pending') = {}
BY SetOfEmpty DEF TypeOK, PutAside

LEMMA PushTransactionOk ==
  ASSUME IInv, NEW t \in Tx, PushTransaction(t)
  PROVE  IInv'
<1>1. CASE CanApply(t)
  <2>1. /\ applied' = Append(applied, t) /\ pending' = Append(pending, t)
        /\ owed' = owed \cup {t} /\ session' = TRUE
        /\ UNCHANGED <<chain, phantom, todo, late, pc, old, fork, gen, culled, delayed>>
        /\ pc = "idle"
    BY <1>1 DEF PushTransaction
  <2>2. applied \in Seq(Tx) /\ pending \in Seq(Tx)
    BY DEF IInv, TypeOK
  <2>3. /\ applied' \in Seq(Tx) /\ pending' \in Seq(Tx)
        /\ ToSet(applied') = ToSet(applied) \cup {t}
        /\ ToSet(pending') = ToSet(pending) \cup {t}
    BY <2>1, <2>2, SetOfAppend
  <2>4. TypeOK'
    BY <2>1, <2>3 DEF IInv, TypeOK
  <2>5. NothingLost' /\ AppliedIsPending'
    BY <2>1, <2>3 DEF IInv, NothingLost, AppliedIsPending
  <2> QED  BY <2>1, <2>4, <2>5 DEF IInv, SwitchOk, GenOk
<1>2. CASE ~ CanApply(t)
  <2>1. /\ session' = TRUE
        /\ UNCHANGED <<chain, applied, phantom, pending, todo, late, pc, old, fork, gen, owed, culled, delayed>>
        /\ pc = "idle"
    BY <1>2 DEF PushTransaction
  <2>2. TypeOK'
    BY <2>1 DEF IInv, TypeOK
  <2> QED  BY <2>1, <2>2 DEF IInv, SwitchOk, GenOk, NothingLost, AppliedIsPending
<1> QED  BY <1>1, <1>2

LEMMA BlocksAreBlocks == Blocks \subseteq Block
<1>1. ASSUME NEW s \in BoundedSeq(Tx, MaxBlockTxs)
      PROVE  s \in Seq(Tx)
  <2>1. PICK m \in 0 .. MaxBlockTxs : s \in [1 .. m -> Tx]
    BY DEF BoundedSeq, SeqOf
  <2>2. m \in Nat
    BY LimitsAssumption
  <2> QED  BY <2>1, <2>2, SeqDef
<1>2. Times \subseteq Nat
  BY LimitsAssumption DEF Times
<1> QED  BY <1>1, <1>2 DEF Blocks, Block

LEMMA PushExtendsOk ==
  ASSUME IInv, NEW b \in Blocks, PushExtends(b)
  PROVE  IInv'
<1>1. chain \in Seq(Block) /\ b \in Block
  BY BlocksAreBlocks DEF IInv, TypeOK
<1>2. chain' = Append(chain, b) /\ BlockOk(chain, b) /\ ChainOk(chain)
  BY DEF IInv, PushExtends
<1>3. /\ chain' \in Seq(Block) /\ ChainOk(chain')
      /\ ChainTxs(chain') = ChainTxs(chain) \cup ToSet(b.txs)
  BY <1>1, <1>2, ChainAppend
<1>4. /\ todo' \in Seq(Tx) /\ pending' \in Seq(Tx) /\ applied' \in Seq(Tx)
      /\ session' \in BOOLEAN /\ phantom' \in Nat /\ culled' \subseteq Tx
      /\ todo' = pending
      /\ ToSet(applied') = {} /\ ToSet(pending') = {}
  BY PutAsideTypes DEF IInv, PushExtends
<1>5. b.txs \in Seq(Tx) /\ ToSet(b.txs) \subseteq Tx
  BY <1>1, BlockFields, SetOfSeq
<1>6. TypeOK'
  BY <1>3, <1>4, <1>5 DEF IInv, TypeOK, PushExtends
<1>7. NothingLost'
  <2>1. todo = <<>> /\ owed' = owed \cup ToSet(b.txs)
    BY DEF IInv, PushExtends
  <2>2. owed \subseteq ChainTxs(chain) \cup ToSet(pending)
    BY <2>1, SetOfEmpty DEF IInv, NothingLost
  <2> QED  BY <1>3, <1>4, <2>1, <2>2 DEF NothingLost
<1>8. AppliedIsPending'
  BY <1>4 DEF AppliedIsPending
<1> QED  BY <1>3, <1>6, <1>7, <1>8 DEF IInv, SwitchOk, GenOk, PushExtends

\* The pending transactions of an idle node are all it owes beside the chain.
LEMMA IdleOwes ==
  ASSUME IInv, pc = "idle"
  PROVE  owed \subseteq ChainTxs(chain) \cup ToSet(pending)
BY SetOfEmpty DEF IInv, NothingLost

LEMMA PushNoChangeOk ==
  ASSUME IInv, PushNoChange
  PROVE  IInv'
<1>1. /\ todo' \in Seq(Tx) /\ pending' \in Seq(Tx) /\ applied' \in Seq(Tx)
      /\ session' \in BOOLEAN /\ phantom' \in Nat /\ culled' \subseteq Tx
      /\ todo' = pending
      /\ ToSet(applied') = {} /\ ToSet(pending') = {}
  BY PutAsideTypes DEF IInv, PushNoChange
<1>2. TypeOK'
  BY <1>1 DEF IInv, TypeOK, PushNoChange
<1>3. NothingLost' /\ AppliedIsPending'
  BY <1>1, IdleOwes DEF NothingLost, AppliedIsPending, PushNoChange
<1> QED  BY <1>2, <1>3 DEF IInv, SwitchOk, GenOk, PushNoChange

LEMMA PushSwitchOk ==
  ASSUME IInv, NEW k \in 1 .. Len(chain) - 1, PushSwitch(k)
  PROVE  IInv'
<1>1. /\ todo' \in Seq(Tx) /\ pending' \in Seq(Tx) /\ applied' \in Seq(Tx)
      /\ session' \in BOOLEAN /\ phantom' \in Nat /\ culled' \subseteq Tx
      /\ todo' = pending
      /\ ToSet(applied') = {} /\ ToSet(pending') = {}
  BY PutAsideTypes DEF IInv, PushSwitch
<1>2. /\ pc = "idle" /\ pc' = "pop" /\ old' = chain /\ fork' = k /\ chain' = chain
      /\ UNCHANGED <<late, gen, owed, delayed>>
  BY DEF PushSwitch
<1>3. chain \in Seq(Block) /\ Len(chain) \in Nat
  BY LenProperties DEF IInv, TypeOK
<1>4. TypeOK'
  BY <1>1, <1>2, <1>3 DEF IInv, TypeOK
<1>5. NothingLost' /\ AppliedIsPending'
  BY <1>1, <1>2, IdleOwes DEF NothingLost, AppliedIsPending
<1>6. SwitchOk'
  BY <1>2, <1>3 DEF SwitchOk, IInv
<1> QED  BY <1>2, <1>4, <1>5, <1>6 DEF IInv, GenOk

LEMMA PopBlockOk ==
  ASSUME IInv, PopBlock
  PROVE  IInv'
<1>1. /\ pc \in {"pop", "unpop"} /\ todo' = Last(chain).txs \o todo /\ chain' = Front(chain)
      /\ UNCHANGED <<session, applied, phantom, pending, late, old, fork, gen, owed, culled, delayed>>
  BY DEF PopBlock
<1>2. /\ chain \in Seq(Block) /\ Len(chain) \in Nat /\ old \in Seq(Block) /\ Len(old) \in Nat
      /\ fork \in 1 .. Len(chain) /\ fork < Len(chain) /\ ChainOk(chain) /\ ChainOk(old)
      /\ fork < Len(old) /\ SubSeq(chain, 1, fork) = SubSeq(old, 1, fork)
  BY <1>1, LenProperties DEF IInv, TypeOK, SwitchOk
<1>3. /\ chain' \in Seq(Block) /\ Len(chain') = Len(chain) - 1
      /\ Last(chain) \in Block /\ ChainOk(chain')
      /\ ChainTxs(chain) = ChainTxs(chain') \cup ToSet(Last(chain).txs)
      /\ SubSeq(chain', 1, fork) = SubSeq(chain, 1, fork)
  BY <1>1, <1>2, ChainFront
<1>4. todo' \in Seq(Tx) /\ ToSet(todo') = ToSet(Last(chain).txs) \cup ToSet(todo)
  BY <1>1, <1>3, BlockFields, SetOfConcat DEF IInv, TypeOK
<1>5. /\ pc' \in {"pop", "unpop", "apply", "restore"}
      /\ pc' \in {"pop", "unpop"} => Len(chain) - 1 > fork
      /\ pc' = "restore" => fork = Len(chain) - 1
  BY <1>1, <1>2 DEF PopBlock
<1>6. TypeOK'
  BY <1>1, <1>3, <1>4, <1>5 DEF IInv, TypeOK
<1>7. NothingLost'
  BY <1>1, <1>3, <1>4 DEF IInv, NothingLost
<1>8. SwitchOk'
  BY <1>1, <1>2, <1>3, <1>5 DEF SwitchOk
<1> QED  BY <1>1, <1>3, <1>5, <1>6, <1>7, <1>8 DEF IInv, GenOk, AppliedIsPending

LEMMA PopThrowsOk ==
  ASSUME IInv, PopThrows
  PROVE  IInv'
<1>1. TypeOK'
  BY DEF IInv, TypeOK, PopThrows
<1> QED  BY <1>1 DEF IInv, SwitchOk, GenOk, NothingLost, AppliedIsPending, PopThrows

LEMMA ApplyForkOk ==
  ASSUME IInv, NEW b \in Blocks, ApplyFork(b)
  PROVE  IInv'
<1>1. chain \in Seq(Block) /\ b \in Block /\ Len(chain) \in Nat
  BY BlocksAreBlocks, LenProperties DEF IInv, TypeOK
<1>2. /\ chain' = Append(chain, b) /\ BlockOk(chain, b) /\ ChainOk(chain)
      /\ pc = "apply" /\ pc' \in {"retry", "apply"} /\ owed' = owed \cup ToSet(b.txs)
      /\ UNCHANGED <<session, applied, phantom, pending, todo, late, old, fork, gen, culled, delayed>>
  BY DEF IInv, ApplyFork
<1>3. /\ chain' \in Seq(Block) /\ ChainOk(chain') /\ Len(chain') = Len(chain) + 1
      /\ ChainTxs(chain') = ChainTxs(chain) \cup ToSet(b.txs)
      /\ \A k \in 0 .. Len(chain) : SubSeq(chain', 1, k) = SubSeq(chain, 1, k)
  BY <1>1, <1>2, ChainAppend
<1>4. b.txs \in Seq(Tx) /\ ToSet(b.txs) \subseteq Tx
  BY <1>1, BlockFields, SetOfSeq
<1>5. TypeOK'
  BY <1>2, <1>3, <1>4 DEF IInv, TypeOK
<1>6. NothingLost'
  BY <1>2, <1>3 DEF IInv, NothingLost
<1>7. SwitchOk'
  <2>1. /\ ChainOk(old) /\ fork \in 1 .. Len(chain) /\ fork < Len(old)
        /\ SubSeq(chain, 1, fork) = SubSeq(old, 1, fork)
    BY <1>2 DEF IInv, SwitchOk
  <2>2. fork \in 0 .. Len(chain) /\ fork \in 1 .. Len(chain')
    BY <1>1, <1>3, <2>1
  <2>3. SubSeq(chain', 1, fork) = SubSeq(old, 1, fork)
    BY <1>3, <2>1, <2>2
  <2> QED  BY <1>2, <2>1, <2>2, <2>3 DEF SwitchOk
<1> QED  BY <1>2, <1>3, <1>5, <1>6, <1>7 DEF IInv, GenOk, AppliedIsPending

LEMMA ApplyForkThrowsOk ==
  ASSUME IInv, ApplyForkThrows
  PROVE  IInv'
<1>1. TypeOK'
  BY DEF IInv, TypeOK, ApplyForkThrows
<1>2. Len(chain) \in Nat
  BY LenProperties DEF IInv, TypeOK
<1>3. SwitchOk'
  BY <1>2 DEF IInv, SwitchOk, ApplyForkThrows
<1> QED  BY <1>1, <1>3 DEF IInv, GenOk, NothingLost, AppliedIsPending, ApplyForkThrows

LEMMA RestoreOldOk ==
  ASSUME IInv, RestoreOld
  PROVE  IInv'
<1>1. /\ pc = "restore" /\ pc' = "retry" /\ chain' = old
      /\ UNCHANGED <<session, applied, phantom, pending, todo, late, old, fork, gen, owed, culled, delayed>>
  BY DEF RestoreOld
<1>2. /\ ChainOk(old) /\ fork = Len(chain) /\ fork \in 1 .. Len(chain) /\ fork < Len(old)
      /\ SubSeq(chain, 1, fork) = SubSeq(old, 1, fork)
      /\ chain \in Seq(Block) /\ old \in Seq(Block) /\ Len(chain) \in Nat /\ Len(old) \in Nat
  BY <1>1, LenProperties DEF IInv, TypeOK, SwitchOk
<1>3. ChainTxs(chain) \subseteq ChainTxs(old)
  <2>1. chain = SubSeq(old, 1, fork)
    BY <1>2, SubSeqFull
  <2>2. fork \in 0 .. Len(old)
    BY <1>2
  <2> QED  BY <2>1, <2>2, <1>2, TxsOfBeginning
<1>4. TypeOK'
  BY <1>1, <1>2 DEF IInv, TypeOK
<1>5. NothingLost'
  BY <1>1, <1>3 DEF IInv, NothingLost
<1> QED  BY <1>1, <1>2, <1>4, <1>5 DEF IInv, SwitchOk, GenOk, AppliedIsPending

\* One step of the restorer, whatever becomes of the transaction.
LEMMA RetryTypes ==
  ASSUME IInv, NEW t \in Tx, Retry(t)
  PROVE  todo' \in Seq(Tx) /\ ToSet(todo) = {t} \cup ToSet(todo') /\ pc = "retry"
BY SetOfTail DEF IInv, TypeOK, Retry

LEMMA RetryKnownOk ==
  ASSUME IInv, NEW t \in Tx, RetryKnown(t)
  PROVE  IInv'
<1>1. /\ todo' \in Seq(Tx) /\ ToSet(todo) = {t} \cup ToSet(todo') /\ pc = "retry"
      /\ UNCHANGED <<chain, session, applied, phantom, pending, late, pc, old, fork, gen, owed, culled, delayed>>
  BY RetryTypes DEF RetryKnown
<1>2. t \in ChainTxs(chain) \cup ToSet(pending)
  BY DEF RetryKnown, Known, Dedupe, IInv, AppliedIsPending
<1>3. TypeOK'
  BY <1>1 DEF IInv, TypeOK
<1>4. NothingLost'
  BY <1>1, <1>2 DEF IInv, NothingLost
<1> QED  BY <1>1, <1>3, <1>4 DEF IInv, SwitchOk, GenOk, AppliedIsPending

LEMMA RetryAppliesOk ==
  ASSUME IInv, NEW t \in Tx, RetryApplies(t)
  PROVE  IInv'
<1>1. /\ todo' \in Seq(Tx) /\ ToSet(todo) = {t} \cup ToSet(todo') /\ pc = "retry"
      /\ UNCHANGED <<chain, phantom, late, pc, old, fork, gen, owed, culled, delayed>>
      /\ session' = TRUE /\ applied' = Append(applied, t) /\ pending' = Append(pending, t)
  BY RetryTypes DEF RetryApplies
<1>2. /\ applied' \in Seq(Tx) /\ ToSet(applied') = ToSet(applied) \cup {t}
      /\ pending' \in Seq(Tx) /\ ToSet(pending') = ToSet(pending) \cup {t}
  BY <1>1, SetOfAppend DEF IInv, TypeOK
<1>3. TypeOK'
  BY <1>1, <1>2 DEF IInv, TypeOK
<1>4. NothingLost' /\ AppliedIsPending'
  BY <1>1, <1>2 DEF IInv, NothingLost, AppliedIsPending
<1> QED  BY <1>1, <1>3, <1>4 DEF IInv, SwitchOk, GenOk

LEMMA RetryFailsOk ==
  ASSUME IInv, NEW t \in Tx, RetryFails(t)
  PROVE  IInv'
<1>1. /\ todo' \in Seq(Tx) /\ ToSet(todo) = {t} \cup ToSet(todo') /\ pc = "retry"
      /\ UNCHANGED <<chain, applied, phantom, pending, late, pc, old, fork, gen, delayed>>
      /\ session' = TRUE /\ owed' = owed \ {t} /\ culled' = culled \cup {t}
  BY RetryTypes DEF RetryFails
<1>2. TypeOK'
  BY <1>1 DEF IInv, TypeOK
<1>3. NothingLost' /\ AppliedIsPending'
  BY <1>1 DEF IInv, NothingLost, AppliedIsPending
<1> QED  BY <1>1, <1>2, <1>3 DEF IInv, SwitchOk, GenOk

LEMMA PostponeOk ==
  ASSUME IInv, NEW t \in Tx, Postpone(t)
  PROVE  IInv'
<1>1. /\ todo' \in Seq(Tx) /\ ToSet(todo) = {t} \cup ToSet(todo') /\ pc = "retry"
      /\ UNCHANGED <<chain, session, applied, phantom, pc, old, fork, gen, owed, culled>>
      /\ late' = TRUE /\ delayed' = TRUE /\ pending' = Append(pending, t)
  BY RetryTypes DEF Postpone
<1>2. pending' \in Seq(Tx) /\ ToSet(pending') = ToSet(pending) \cup {t}
  BY <1>1, SetOfAppend DEF IInv, TypeOK
<1>3. TypeOK'
  BY <1>1, <1>2 DEF IInv, TypeOK
<1>4. NothingLost' /\ AppliedIsPending'
  BY <1>1, <1>2 DEF IInv, NothingLost, AppliedIsPending
<1> QED  BY <1>1, <1>3, <1>4 DEF IInv, SwitchOk, GenOk

LEMMA RetryDoneOk ==
  ASSUME IInv, RetryDone
  PROVE  IInv'
<1>1. TypeOK'
  BY SetOfEmpty DEF IInv, TypeOK, RetryDone
<1> QED  BY <1>1 DEF IInv, SwitchOk, GenOk, NothingLost, AppliedIsPending, RetryDone

LEMMA GenerateOk ==
  ASSUME IInv, NEW when \in Times, Generate(when)
  PROVE  IInv'
<1>1. /\ pc = "idle" /\ pc' = "generate" /\ Now < when
      /\ gen' = [NoGen EXCEPT !.when = when, !.linked = (phantom = 0)]
      /\ todo' = pending /\ session' = TRUE /\ applied' = <<>> /\ phantom' = 0
      /\ UNCHANGED <<chain, pending, late, old, fork, owed, culled, delayed>>
  BY DEF Generate
<1>2. when \in Nat
  BY LimitsAssumption DEF Times
<1>3. /\ gen' \in [when : Nat, txs : Seq(Tx), used : Nat, postponed : Nat, linked : BOOLEAN]
      /\ gen'.when = when /\ gen'.txs = <<>> /\ gen'.linked = (phantom = 0)
  BY <1>1, <1>2, SetOfEmpty DEF NoGen
<1>4. TypeOK'
  BY <1>1, <1>3, SetOfEmpty DEF IInv, TypeOK
<1>5. GenOk'
  <2>1. AllApply(chain, <<>>)
    BY SetOfEmpty DEF AllApply
  <2>2. gen'.linked => HeadTime(chain) < gen'.when
    BY <1>1, <1>3 DEF Now
  <2> QED  BY <1>1, <1>3, <2>1, <2>2 DEF GenOk
<1>6. NothingLost' /\ AppliedIsPending'
  BY <1>1, IdleOwes, SetOfEmpty DEF NothingLost, AppliedIsPending
<1> QED  BY <1>1, <1>4, <1>5, <1>6 DEF IInv, SwitchOk

\* While a block is generated the chain and the pending transactions stay,
\* and the transactions still to be considered are pending.
LEMMA GenKeeps ==
  ASSUME IInv, pc = "generate",
         UNCHANGED <<chain, session, phantom, pending, late, pc, old, fork, owed, culled, delayed>>,
         todo' \in Seq(Tx), ToSet(todo') \subseteq ToSet(todo),
         applied' \in Seq(Tx), ToSet(applied') \subseteq ToSet(pending),
         gen' \in [when : Nat, txs : Seq(Tx), used : Nat, postponed : Nat, linked : BOOLEAN],
         gen'.txs = applied', gen'.linked = gen.linked, gen'.when = gen.when,
         AllApply(chain, applied')
  PROVE  IInv'
<1>1. TypeOK'
  BY DEF IInv, TypeOK
<1>2. GenOk'
  BY DEF IInv, GenOk
<1>3. NothingLost'
  BY DEF IInv, NothingLost, GenOk
<1>4. AppliedIsPending'
  BY DEF AppliedIsPending
<1> QED  BY <1>1, <1>2, <1>3, <1>4 DEF IInv, SwitchOk

LEMMA GenFacts ==
  ASSUME IInv, pc = "generate"
  PROVE  /\ applied \in Seq(Tx) /\ ToSet(applied) \subseteq ToSet(pending)
         /\ gen \in [when : Nat, txs : Seq(Tx), used : Nat, postponed : Nat, linked : BOOLEAN]
         /\ gen.txs = applied /\ AllApply(chain, applied) /\ todo \in Seq(Tx)
         /\ chain \in Seq(Block) /\ phantom = 0 /\ ToSet(todo) \subseteq ToSet(pending)
         /\ gen.linked => HeadTime(chain) < gen.when
BY DEF IInv, TypeOK, GenOk, AppliedIsPending

LEMMA GenBreakOk ==
  ASSUME IInv, GenBreak
  PROVE  IInv'
<1>1. /\ pc = "generate" /\ todo' = <<>>
      /\ UNCHANGED <<chain, session, applied, phantom, pending, late, pc, old, fork, gen, owed, culled, delayed>>
  BY DEF GenBreak
<1>2. todo' \in Seq(Tx) /\ ToSet(todo') \subseteq ToSet(todo)
  BY <1>1, SetOfEmpty
<1> QED  BY <1>1, <1>2, GenFacts, GenKeeps

LEMMA GenSkipOk ==
  ASSUME IInv, NEW t \in Tx, GenSkip(t)
  PROVE  IInv'
<1>1. /\ pc = "generate" /\ todo # <<>> /\ todo' = Tail(todo)
      /\ UNCHANGED <<chain, session, applied, phantom, pending, late, pc, old, fork, gen, owed, culled, delayed>>
  BY DEF GenSkip, Consider
<1>2. todo' \in Seq(Tx) /\ ToSet(todo') \subseteq ToSet(todo)
  BY <1>1, GenFacts, SetOfTail
<1> QED  BY <1>1, <1>2, GenFacts, GenKeeps

LEMMA GenPostponeOk ==
  ASSUME IInv, NEW t \in Tx, GenPostpone(t)
  PROVE  IInv'
<1>1. /\ pc = "generate" /\ todo # <<>> /\ todo' = Tail(todo)
      /\ gen' = [gen EXCEPT !.postponed = @ + 1]
      /\ UNCHANGED <<chain, session, applied, phantom, pending, late, pc, old, fork, owed, culled, delayed>>
  BY DEF GenPostpone, Consider
<1>2. todo' \in Seq(Tx) /\ ToSet(todo') \subseteq ToSet(todo)
  BY <1>1, GenFacts, SetOfTail
<1>3. /\ gen' \in [when : Nat, txs : Seq(Tx), used : Nat, postponed : Nat, linked : BOOLEAN]
      /\ gen'.txs = gen.txs /\ gen'.linked = gen.linked /\ gen'.when = gen.when
  BY <1>1, GenFacts
<1> QED  BY <1>1, <1>2, <1>3, GenFacts, GenKeeps

LEMMA GenIncludeOk ==
  ASSUME IInv, NEW t \in Tx, GenInclude(t)
  PROVE  IInv'
<1>1. /\ pc = "generate" /\ todo # <<>> /\ todo' = Tail(todo) /\ t = Head(todo)
      /\ gen' = [gen EXCEPT !.txs = Append(@, t), !.used = @ + Size[t]]
      /\ applied' = Append(applied, t) /\ CanApply(t)
      /\ UNCHANGED <<chain, session, phantom, pending, late, pc, old, fork, owed, culled, delayed>>
  BY DEF GenInclude, Consider
<1>2. todo' \in Seq(Tx) /\ ToSet(todo) = {t} \cup ToSet(todo')
  BY <1>1, GenFacts, SetOfTail
<1>3. applied' \in Seq(Tx) /\ ToSet(applied') = ToSet(applied) \cup {t}
  BY <1>1, GenFacts, SetOfAppend
<1>4. /\ gen' \in [when : Nat, txs : Seq(Tx), used : Nat, postponed : Nat, linked : BOOLEAN]
      /\ gen'.txs = applied' /\ gen'.linked = gen.linked /\ gen'.when = gen.when
  <2>1. Size[t] \in Nat /\ gen.used \in Nat /\ gen.txs = applied
    BY <1>1, GenFacts, TxAssumption
  <2>2. gen.used + Size[t] \in Nat /\ Append(gen.txs, t) = applied' /\ Append(gen.txs, t) \in Seq(Tx)
    BY <1>1, <1>3, <2>1
  <2>3. gen \in [when : Nat, txs : Seq(Tx), used : Nat, postponed : Nat, linked : BOOLEAN]
    BY <1>1, GenFacts
  <2> QED  BY <1>1, <2>2, <2>3
<1>5. AllApply(chain, applied')
  <2>1. Applies(t, HeadTime(chain), Dedupe(chain) \cup ToSet(applied), ChainTxs(chain) \cup ToSet(applied))
    BY <1>1, GenFacts DEF CanApply, Now, Known
  <2> QED  BY <1>1, <2>1, GenFacts, AllApplyAppend
<1>6. ToSet(applied') \subseteq ToSet(pending)
  BY <1>1, <1>2, <1>3, GenFacts
<1> QED  BY <1>1, <1>2, <1>3, <1>4, <1>5, <1>6, GenKeeps

LEMMA NoGenType ==
  NoGen \in [when : Nat, txs : Seq(Tx), used : Nat, postponed : Nat, linked : BOOLEAN]
BY SetOfEmpty DEF NoGen

LEMMA GenThrowsOk ==
  ASSUME IInv, GenThrows
  PROVE  IInv'
<1>1. TypeOK'
  BY NoGenType, GenFacts DEF IInv, TypeOK, GenThrows
<1> QED  BY <1>1 DEF IInv, SwitchOk, GenOk, NothingLost, AppliedIsPending, GenThrows

\* A block generated on the head of the chain can be applied.
LEMMA GeneratedApplies ==
  ASSUME IInv, pc = "generate", gen.linked
  PROVE  BlockOk(chain, Generated) /\ Generated \in Block
BY GenFacts DEF BlockOk, Generated, Block

LEMMA GenPushOk ==
  ASSUME IInv, GenPush
  PROVE  IInv'
<1>1. /\ pc = "generate" /\ todo = <<>> /\ PutAside /\ pc' = "retry" /\ gen' = NoGen
      /\ UNCHANGED <<late, old, fork, owed, delayed>>
  BY DEF GenPush
<1>2. /\ todo' \in Seq(Tx) /\ pending' \in Seq(Tx) /\ applied' \in Seq(Tx)
      /\ session' \in BOOLEAN /\ phantom' \in Nat /\ culled' \subseteq Tx
      /\ todo' = pending
      /\ ToSet(applied') = {} /\ ToSet(pending') = {}
  BY <1>1, PutAsideTypes DEF IInv
<1>3. owed \subseteq ChainTxs(chain) \cup ToSet(pending)
  BY <1>1, SetOfEmpty DEF IInv, NothingLost
<1>4. /\ chain' \in Seq(Block) /\ ChainOk(chain')
      /\ ChainTxs(chain) \subseteq ChainTxs(chain')
  <2>1. CASE gen.linked /\ BlockOk(chain, Generated)
    <3>1. chain' = Append(chain, Generated)
      BY <2>1 DEF GenPush
    <3>2. Generated \in Block
      BY <1>1, <2>1, GeneratedApplies
    <3>3. chain \in Seq(Block) /\ ChainOk(chain)
      BY DEF IInv, TypeOK
    <3> QED  BY <2>1, <3>1, <3>2, <3>3, ChainAppend
  <2>2. CASE ~ (gen.linked /\ BlockOk(chain, Generated))
    BY <2>2 DEF GenPush, IInv, TypeOK
  <2> QED  BY <2>1, <2>2
<1>5. TypeOK'
  BY <1>1, <1>2, <1>4, NoGenType DEF IInv, TypeOK
<1>6. NothingLost' /\ AppliedIsPending'
  BY <1>1, <1>2, <1>3, <1>4 DEF NothingLost, AppliedIsPending
<1> QED  BY <1>1, <1>4, <1>5, <1>6 DEF IInv, SwitchOk, GenOk

LEMMA StutterOk ==
  ASSUME IInv, UNCHANGED vars
  PROVE  IInv'
<1>1. TypeOK'
  BY DEF IInv, TypeOK, vars
<1> QED  BY <1>1 DEF IInv, SwitchOk, GenOk, NothingLost, AppliedIsPending, vars

LEMMA NextOk ==
  ASSUME IInv, [Next]_vars
  PROVE  IInv'
<1>1. ASSUME NEW t \in Tx, PushTransaction(t) PROVE IInv'
  BY <1>1, PushTransactionOk
<1>2. ASSUME NEW t \in Tx,
             RetryKnown(t) \/ RetryApplies(t) \/ RetryFails(t) \/ Postpone(t)
      PROVE  IInv'
  BY <1>2, RetryKnownOk, RetryAppliesOk, RetryFailsOk, PostponeOk
<1>3. ASSUME NEW t \in Tx, GenSkip(t) \/ GenPostpone(t) \/ GenInclude(t)
      PROVE  IInv'
  BY <1>3, GenSkipOk, GenPostponeOk, GenIncludeOk
<1>4. ASSUME NEW b \in Blocks, PushExtends(b) \/ ApplyFork(b)
      PROVE  IInv'
  BY <1>4, PushExtendsOk, ApplyForkOk
<1>5. ASSUME NEW k \in 1 .. Len(chain) - 1, PushSwitch(k) PROVE IInv'
  BY <1>5, PushSwitchOk
<1>6. ASSUME PushNoChange \/ PopBlock \/ PopThrows \/ ApplyForkThrows \/ RestoreOld \/ RetryDone
      PROVE  IInv'
  BY <1>6, PushNoChangeOk, PopBlockOk, PopThrowsOk, ApplyForkThrowsOk, RestoreOldOk, RetryDoneOk
<1>7. ASSUME NEW when \in Times, Generate(when) PROVE IInv'
  BY <1>7, GenerateOk
<1>8. ASSUME GenBreak \/ GenThrows \/ GenPush PROVE IInv'
  BY <1>8, GenBreakOk, GenThrowsOk, GenPushOk
<1>9. CASE UNCHANGED vars
  BY <1>9, StutterOk
<1> QED  BY <1>1, <1>2, <1>3, <1>4, <1>5, <1>6, <1>7, <1>8, <1>9 DEF Next

(***************************************************************************)
(* The theorems.                                                           *)
(***************************************************************************)

\* The inductive invariant: the chain is made of blocks that were applicable,
\* a switch of forks keeps the common part, the block being generated can be
\* applied, and every transaction taken is somewhere.
THEOREM Invariance == Spec => []IInv
<1>1. Init => IInv
  BY InitOk
<1>2. IInv /\ [Next]_vars => IInv'
  BY NextOk
<1> QED  BY <1>1, <1>2, PTL DEF Spec

\* Chain, pool and control of push_block and generate_block have their types.
THEOREM TypeCorrect == Spec => []TypeOK
<1>1. IInv => TypeOK
  BY DEF IInv
<1> QED  BY <1>1, Invariance, PTL

\* No transaction is ever on the chain twice, although expired transactions
\* leave the transaction index.
THEOREM NoDoubleInclusionAlways == Spec => []NoDoubleInclusion
<1>1. ASSUME IInv PROVE NoDoubleInclusion
  <2>1. chain \in Seq(Block) /\ ChainOk(chain) /\ Len(chain) \in Nat
    BY <1>1, LenProperties DEF IInv, TypeOK
  <2>2. SUFFICES ASSUME NEW i \in 1 .. Len(chain), NEW j \in 1 .. Len(chain),
                        NEW m \in 1 .. Len(chain[i].txs), NEW n \in 1 .. Len(chain[j].txs),
                        chain[i].txs[m] = chain[j].txs[n], ~ (i = j /\ m = n)
                 PROVE  FALSE
    BY DEF NoDoubleInclusion
  <2>3. chain[i].txs \in Seq(Tx) /\ chain[j].txs \in Seq(Tx)
    BY <2>1, ElementOfSeq, BlockFields
  <2>4. Len(chain[i].txs) \in Nat /\ Len(chain[j].txs) \in Nat
    BY <2>3, LenProperties
  <2>5. CASE i < j \/ (i = j /\ m < n)
    <3>1. i <= j /\ (i = j => m < n)
      BY <2>1, <2>5
    <3> QED  BY <2>1, <2>2, <3>1, NoneRepeated
  <2>6. CASE j < i \/ (i = j /\ n < m)
    <3>1. j <= i /\ (j = i => n < m)
      BY <2>1, <2>6
    <3> QED  BY <2>1, <2>2, <3>1, NoneRepeated
  <2> QED  BY <2>1, <2>2, <2>4, <2>5, <2>6
<1> QED  BY <1>1, Invariance, PTL

\* A transaction the node has taken is on the chain, pending or waiting to
\* be tried again until it was tried and failed.
THEOREM NothingLostAlways == Spec => []NothingLost
<1>1. IInv => NothingLost
  BY DEF IInv
<1> QED  BY <1>1, Invariance, PTL

\* What the pending session has applied is pending.
THEOREM AppliedIsPendingAlways == Spec => []AppliedIsPending
<1>1. IInv => AppliedIsPending
  BY DEF IInv
<1> QED  BY <1>1, Invariance, PTL

\* A block generated on the head of the chain is always applied by the push
\* that follows.
THEOREM ProducedBlockAppliesAlways == Spec => ProducedBlockApplies
<1>1. IInv /\ [Next]_vars => [(GenPush /\ gen.linked) => chain' = Append(chain, Generated)]_vars
  <2> SUFFICES ASSUME IInv, GenPush, gen.linked PROVE chain' = Append(chain, Generated)
    OBVIOUS
  <2>1. pc = "generate"
    BY DEF GenPush
  <2>2. BlockOk(chain, Generated)
    BY <2>1, GeneratedApplies
  <2> QED  BY <2>2 DEF GenPush
<1> QED  BY <1>1, Invariance, PTL DEF Spec, ProducedBlockApplies
(***************************************************************************)
(* Nothing is given up needlessly.  Transactions are tried in an order in  *)
(* which each stands after the ones it needs, so that one given up because *)
(* of a missing one depends on another that was given up in the same push. *)
(***************************************************************************)

LEMMA NeedsMetEmpty ==
  ASSUME NEW base
  PROVE  NeedsMet(<<>>, base)
BY DEF NeedsMet

LEMMA NeedsMetMore ==
  ASSUME NEW s, NEW base, NEW more, base \subseteq more, NeedsMet(s, base)
  PROVE  NeedsMet(s, more)
BY DEF NeedsMet

LEMMA NeedsMetHead ==
  ASSUME NEW s \in Seq(Tx), s # <<>>, NEW base, NeedsMet(s, base)
  PROVE  Needs[Head(s)] \subseteq base
<1>1. 1 \in 1 .. Len(s) /\ Head(s) = s[1]
  BY EmptySeq, LenProperties, HeadTailProperties
<1>2. {s[m] : m \in 1 .. 1 - 1} = {}
  OBVIOUS
<1> QED  BY <1>1, <1>2 DEF NeedsMet

LEMMA NeedsMetTail ==
  ASSUME NEW s \in Seq(Tx), s # <<>>, NEW base, NeedsMet(s, base)
  PROVE  NeedsMet(Tail(s), base \cup {Head(s)})
<1>1. /\ Len(Tail(s)) = Len(s) - 1 /\ Len(s) \in Nat /\ Head(s) = s[1]
      /\ \A i \in 1 .. Len(s) - 1 : Tail(s)[i] = s[i + 1]
  BY EmptySeq, LenProperties, HeadTailProperties
<1> DEFINE q == Tail(s)
<1>2. ASSUME NEW n \in 1 .. Len(q)
      PROVE  Needs[q[n]] \subseteq (base \cup {Head(s)}) \cup {q[m] : m \in 1 .. n - 1}
  <2>1. q[n] = s[n + 1] /\ n + 1 \in 1 .. Len(s)
    BY <1>1
  <2>2. Needs[q[n]] \subseteq base \cup {s[m] : m \in 1 .. (n + 1) - 1}
    BY <2>1 DEF NeedsMet
  <2>3. ASSUME NEW m \in 1 .. (n + 1) - 1
        PROVE  s[m] \in {Head(s)} \cup {q[i] : i \in 1 .. n - 1}
    <3>1. CASE m = 1
      BY <1>1, <3>1
    <3>2. CASE m # 1
      <4>1. m - 1 \in 1 .. n - 1 /\ m - 1 \in 1 .. Len(s) - 1 /\ (m - 1) + 1 = m
        BY <1>1, <3>2
      <4>2. q[m - 1] = s[m]
        BY <1>1, <4>1
      <4> QED  BY <4>1, <4>2
    <3> QED  BY <3>1, <3>2
  <2> HIDE DEF q
  <2> QED  BY <2>2, <2>3
<1> QED  BY <1>2 DEF NeedsMet

LEMMA NeedsMetAppend ==
  ASSUME NEW s \in Seq(Tx), NEW t \in Tx, NEW base, NeedsMet(s, base),
         Needs[t] \subseteq base \cup ToSet(s)
  PROVE  NeedsMet(Append(s, t), base)
<1> DEFINE a == Append(s, t)
<1>1. /\ Len(a) = Len(s) + 1 /\ Len(s) \in Nat /\ a[Len(s) + 1] = t
      /\ \A i \in 1 .. Len(s) : a[i] = s[i]
      /\ ToSet(s) = {s[i] : i \in 1 .. Len(s)}
  BY SetOfAppend, SetOfSeq
<1> HIDE DEF a
<1>2. ASSUME NEW n \in 1 .. Len(a)
      PROVE  Needs[a[n]] \subseteq base \cup {a[m] : m \in 1 .. n - 1}
  <2>1. \A m \in 1 .. n - 1 : a[m] = s[m]
    BY <1>1
  <2>2. {a[m] : m \in 1 .. n - 1} = {s[m] : m \in 1 .. n - 1}
    BY <2>1
  <2>3. CASE n = Len(s) + 1
    <3>1. n - 1 = Len(s) /\ a[n] = t
      BY <1>1, <2>3
    <3> QED  BY <1>1, <2>2, <3>1
  <2>4. CASE n \in 1 .. Len(s)
    <3>1. a[n] = s[n]
      BY <1>1, <2>4
    <3>2. Needs[s[n]] \subseteq base \cup {s[m] : m \in 1 .. n - 1}
      BY <2>4 DEF NeedsMet
    <3> QED  BY <2>2, <3>1, <3>2
  <2> QED  BY <1>1, <2>3, <2>4
<1> QED  BY <1>2 DEF NeedsMet, a

\* The transactions of a popped block stand before those that needed them.
LEMMA NeedsMetConcat ==
  ASSUME NEW p \in Seq(Tx), NEW s \in Seq(Tx), NEW base,
         NeedsMet(p, base), NeedsMet(s, base \cup ToSet(p))
  PROVE  NeedsMet(p \o s, base)
<1> DEFINE c == p \o s
<1>1. /\ Len(c) = Len(p) + Len(s) /\ Len(p) \in Nat /\ Len(s) \in Nat
      /\ \A i \in 1 .. Len(p) + Len(s) :
            c[i] = IF i <= Len(p) THEN p[i] ELSE s[i - Len(p)]
      /\ ToSet(p) = {p[i] : i \in 1 .. Len(p)}
  BY ConcatProperties, LenProperties, SetOfSeq
<1> HIDE DEF c
<1>2. ASSUME NEW n \in 1 .. Len(c)
      PROVE  Needs[c[n]] \subseteq base \cup {c[m] : m \in 1 .. n - 1}
  <2>1. CASE n <= Len(p)
    <3>1. c[n] = p[n] /\ n \in 1 .. Len(p) /\ \A m \in 1 .. n - 1 : c[m] = p[m]
      BY <1>1, <2>1
    <3>2. Needs[p[n]] \subseteq base \cup {p[m] : m \in 1 .. n - 1}
      BY <3>1 DEF NeedsMet
    <3> QED  BY <3>1, <3>2
  <2>2. CASE n > Len(p)
    <3> DEFINE k == n - Len(p)
    <3>1. c[n] = s[k] /\ k \in 1 .. Len(s) /\ k \in Nat
      BY <1>1, <2>2
    <3>2. Needs[s[k]] \subseteq (base \cup ToSet(p)) \cup {s[m] : m \in 1 .. k - 1}
      BY <3>1 DEF NeedsMet
    <3>3. ASSUME NEW m \in 1 .. Len(p)
          PROVE  p[m] \in {c[i] : i \in 1 .. n - 1}
      <4>1. m \in 1 .. n - 1 /\ c[m] = p[m]
        BY <1>1, <2>2
      <4> QED  BY <4>1
    <3>4. ASSUME NEW m \in 1 .. k - 1
          PROVE  s[m] \in {c[i] : i \in 1 .. n - 1}
      <4>1. /\ Len(p) + m \in 1 .. n - 1 /\ Len(p) + m \in 1 .. Len(p) + Len(s)
            /\ ~ (Len(p) + m <= Len(p)) /\ (Len(p) + m) - Len(p) = m
        BY <1>1, <2>2
      <4>2. c[Len(p) + m] = s[m]
        BY <1>1, <4>1
      <4> QED  BY <4>1, <4>2
    <3> HIDE DEF k
    <3> QED  BY <1>1, <3>1, <3>2, <3>3, <3>4
  <2> QED  BY <1>1, <2>1, <2>2
<1> QED  BY <1>2 DEF NeedsMet, c

\* The block on top of an applicable chain needs only what comes before.
LEMMA NeedsMetBlock ==
  ASSUME NEW ch \in Seq(Block), ChainOk(ch), Len(ch) > 1
  PROVE  NeedsMet(Last(ch).txs, ChainTxs(Front(ch)))
<1>1. Len(ch) \in 2 .. Len(ch) /\ Last(ch) = ch[Len(ch)] /\ Front(ch) = SubSeq(ch, 1, Len(ch) - 1)
  BY LenProperties, ChainFront DEF Last
<1>2. BlockOk(Front(ch), Last(ch))
  BY <1>1 DEF ChainOk
<1> QED  BY <1>2 DEF BlockOk, AllApply, Applies, NeedsMet

\* What is hopeless cannot be applied.
LEMMA HopelessCannot ==
  ASSUME NEW t, Hopeless(t)
  PROVE  ~ CanApply(t)
BY DEF Hopeless, CanApply, Applies

\* A push that has put the pending transactions aside starts afresh.
LEMMA CullFresh ==
  ASSUME TypeOK, PutAside, CullInv, delayed' = delayed, ChainTxs(chain) \subseteq ChainTxs(chain')
  PROVE  CullInv'
<1> SUFFICES ASSUME ~ delayed
             PROVE  /\ NeedsMet(pending', ChainTxs(chain'))
                    /\ pending' = <<>> /\ applied' = <<>> /\ culled' = {}
                    /\ NeedsMet(todo', ChainTxs(chain') \cup ToSet(applied') \cup culled')
  BY DEF CullInv
<1>1. pending' = <<>> /\ applied' = <<>> /\ culled' = {} /\ todo' = pending
  BY DEF PutAside
<1>2. NeedsMet(pending, ChainTxs(chain))
  BY DEF CullInv
<1>3. NeedsMet(pending, ChainTxs(chain') \cup ToSet(applied') \cup culled')
  BY <1>2, NeedsMetMore
<1> QED  BY <1>1, <1>3, NeedsMetEmpty

\* A step of a switch of forks leaves the pending transactions aside.
LEMMA CullSwitch ==
  ASSUME CullInv, pc \in {"pop", "apply", "unpop", "restore"},
         UNCHANGED <<applied, pending, culled, delayed>>,
         ~ delayed => NeedsMet(todo', ChainTxs(chain'))
  PROVE  CullInv'
<1> SUFFICES ASSUME ~ delayed PROVE CullInv'
  BY DEF CullInv
<1>1. pending' = <<>> /\ applied' = <<>> /\ culled' = {}
  BY DEF CullInv
<1>2. NeedsMet(todo', ChainTxs(chain') \cup ToSet(applied') \cup culled')
  BY NeedsMetMore
<1> QED  BY <1>1, <1>2, NeedsMetEmpty DEF CullInv

\* During a switch everything that waits needs only what is on the chain or
\* waits before it.
LEMMA SwitchNeeds ==
  ASSUME CullInv, ~ delayed, pc \in {"pop", "apply", "unpop", "restore"}
  PROVE  NeedsMet(todo, ChainTxs(chain))
<1>1. applied = <<>> /\ culled = {}
  BY DEF CullInv
<1>2. ToSet(applied) = {}
  BY <1>1, SetOfEmpty
<1>3. ChainTxs(chain) \cup ToSet(applied) \cup culled = ChainTxs(chain)
  BY <1>1, <1>2
<1>4. NeedsMet(todo, ChainTxs(chain) \cup ToSet(applied) \cup culled)
  BY DEF CullInv
<1> QED  BY <1>3, <1>4

LEMMA PopBlockCull ==
  ASSUME IInv, CullInv, PopBlock
  PROVE  CullInv'
<1>1. /\ pc \in {"pop", "unpop"} /\ todo' = Last(chain).txs \o todo /\ chain' = Front(chain)
      /\ UNCHANGED <<applied, pending, culled, delayed>>
  BY DEF PopBlock
<1>2. /\ chain \in Seq(Block) /\ Len(chain) > 1 /\ ChainOk(chain) /\ todo \in Seq(Tx)
  BY <1>1, LenProperties DEF IInv, TypeOK, SwitchOk
<1>3. /\ ChainTxs(chain) = ChainTxs(chain') \cup ToSet(Last(chain).txs) /\ Last(chain).txs \in Seq(Tx)
      /\ NeedsMet(Last(chain).txs, ChainTxs(chain'))
  BY <1>1, <1>2, ChainFront, NeedsMetBlock, BlockFields
<1>4. ASSUME ~ delayed PROVE NeedsMet(todo', ChainTxs(chain'))
  <2>1. NeedsMet(todo, ChainTxs(chain))
    BY <1>1, <1>4, SwitchNeeds
  <2> QED  BY <1>1, <1>2, <1>3, <2>1, NeedsMetConcat
<1> QED  BY <1>1, <1>4, CullSwitch

LEMMA ForkStepsCull ==
  ASSUME IInv, CullInv,
         \/ PopThrows \/ ApplyForkThrows \/ RestoreOld
         \/ \E b \in Blocks : ApplyFork(b)
  PROVE  CullInv'
<1>1. ASSUME pc \in {"pop", "apply", "unpop", "restore"},
             UNCHANGED <<applied, pending, culled, delayed, todo>>,
             ChainTxs(chain) \subseteq ChainTxs(chain')
      PROVE  CullInv'
  <2>1. ASSUME ~ delayed PROVE NeedsMet(todo', ChainTxs(chain'))
    <3>1. NeedsMet(todo, ChainTxs(chain))
      BY <1>1, <2>1, SwitchNeeds
    <3>2. NeedsMet(todo, ChainTxs(chain'))
      BY <1>1, <3>1, NeedsMetMore
    <3> QED  BY <1>1, <3>2
  <2> QED  BY <1>1, <2>1, CullSwitch
<1>2. CASE PopThrows \/ ApplyForkThrows
  BY <1>1, <1>2 DEF PopThrows, ApplyForkThrows
<1>3. CASE RestoreOld
  <2>1. pc = "restore" /\ chain' = old /\ UNCHANGED <<applied, pending, culled, delayed, todo>>
    BY <1>3 DEF RestoreOld
  <2>2. /\ chain \in Seq(Block) /\ old \in Seq(Block) /\ fork = Len(chain) /\ fork \in 0 .. Len(old)
        /\ SubSeq(chain, 1, fork) = SubSeq(old, 1, fork)
    BY <2>1, LenProperties DEF IInv, TypeOK, SwitchOk
  <2>3. chain = SubSeq(old, 1, fork)
    BY <2>2, SubSeqFull
  <2>4. ChainTxs(chain) \subseteq ChainTxs(old)
    BY <2>2, <2>3, TxsOfBeginning
  <2> QED  BY <1>1, <2>1, <2>4
<1>4. ASSUME NEW b \in Blocks, ApplyFork(b) PROVE CullInv'
  <2>1. pc = "apply" /\ chain' = Append(chain, b) /\ UNCHANGED <<applied, pending, culled, delayed, todo>>
    BY <1>4 DEF ApplyFork
  <2>2. chain \in Seq(Block) /\ b \in Block
    BY BlocksAreBlocks DEF IInv, TypeOK
  <2>3. ChainTxs(chain) \subseteq ChainTxs(chain')
    BY <2>1, <2>2, ChainAppend
  <2> QED  BY <1>1, <2>1, <2>3
<1> QED  BY <1>2, <1>3, <1>4

LEMMA PushCull ==
  ASSUME IInv, CullInv,
         \/ PushNoChange \/ GenPush
         \/ \E b \in Blocks : PushExtends(b)
         \/ \E k \in 1 .. Len(chain) - 1 : PushSwitch(k)
  PROVE  CullInv'
<1>0. TypeOK /\ chain \in Seq(Block)
  BY DEF IInv, TypeOK
<1>1. CASE PushNoChange
  BY <1>0, <1>1, CullFresh DEF PushNoChange
<1>2. CASE GenPush
  <2>1. PutAside /\ delayed' = delayed /\ pc = "generate"
    BY <1>2 DEF GenPush
  <2>2. CASE gen.linked /\ BlockOk(chain, Generated)
    <3>1. chain' = Append(chain, Generated)
      BY <1>2, <2>2 DEF GenPush
    <3>2. Generated \in Block
      BY <2>1, <2>2, GeneratedApplies
    <3>3. ChainTxs(chain) \subseteq ChainTxs(chain')
      BY <1>0, <3>1, <3>2, ChainAppend
    <3> QED  BY <1>0, <2>1, <3>3, CullFresh
  <2>3. CASE ~ (gen.linked /\ BlockOk(chain, Generated))
    <3>1. chain' = chain
      BY <1>2, <2>3 DEF GenPush
    <3> QED  BY <1>0, <2>1, <3>1, CullFresh
  <2> QED  BY <2>2, <2>3
<1>3. ASSUME NEW b \in Blocks, PushExtends(b) PROVE CullInv'
  <2>1. PutAside /\ delayed' = delayed /\ chain' = Append(chain, b) /\ b \in Block
    BY <1>3, BlocksAreBlocks DEF PushExtends
  <2>2. ChainTxs(chain) \subseteq ChainTxs(chain')
    BY <1>0, <2>1, ChainAppend
  <2> QED  BY <1>0, <2>1, <2>2, CullFresh
<1>4. ASSUME NEW k \in 1 .. Len(chain) - 1, PushSwitch(k) PROVE CullInv'
  <2>1. PutAside /\ delayed' = delayed /\ chain' = chain
    BY <1>4 DEF PushSwitch
  <2> QED  BY <1>0, <2>1, CullFresh
<1> QED  BY <1>1, <1>2, <1>3, <1>4

LEMMA PushTransactionCull ==
  ASSUME IInv, CullInv, NEW t \in Tx, PushTransaction(t)
  PROVE  CullInv'
<1> SUFFICES ASSUME ~ delayed PROVE NeedsMet(pending', ChainTxs(chain'))
  BY DEF PushTransaction, CullInv
<1>1. NeedsMet(pending, ChainTxs(chain)) /\ chain' = chain /\ pending \in Seq(Tx)
  BY DEF CullInv, PushTransaction, IInv, TypeOK
<1>2. CASE CanApply(t)
  <2>1. pending' = Append(pending, t)
    BY <1>2 DEF PushTransaction
  <2>2. Needs[t] \subseteq ChainTxs(chain) \cup ToSet(pending)
    BY <1>2 DEF CanApply, Applies, IInv, AppliedIsPending
  <2> QED  BY <1>1, <2>1, <2>2, NeedsMetAppend
<1>3. CASE ~ CanApply(t)
  BY <1>1, <1>3 DEF PushTransaction
<1> QED  BY <1>2, <1>3

\* The transaction at the front needs only what is done or was given up.
LEMMA RetryNeeds ==
  ASSUME IInv, CullInv, ~ delayed, NEW t \in Tx, Retry(t)
  PROVE  LET base == ChainTxs(chain) \cup ToSet(applied) \cup culled
         IN Needs[t] \subseteq base /\ NeedsMet(todo', base \cup {t})
<1> DEFINE base == ChainTxs(chain) \cup ToSet(applied) \cup culled
<1>1. pc = "retry" /\ todo # <<>> /\ t = Head(todo) /\ todo' = Tail(todo) /\ todo \in Seq(Tx)
  BY DEF Retry, IInv, TypeOK
<1>2. NeedsMet(todo, base)
  BY <1>1 DEF CullInv
<1> HIDE DEF base
<1>3. Needs[t] \subseteq base /\ NeedsMet(todo', base \cup {t})
  BY <1>1, <1>2, NeedsMetHead, NeedsMetTail
<1> QED  BY <1>3 DEF base

LEMMA RetryKnownCull ==
  ASSUME IInv, CullInv, NEW t \in Tx, RetryKnown(t)
  PROVE  CullInv'
<1> DEFINE base == ChainTxs(chain) \cup ToSet(applied) \cup culled
<1>1. /\ Retry(t) /\ pc = "retry" /\ t \in base
      /\ UNCHANGED <<chain, applied, phantom, pending, pc, culled, delayed>>
  BY DEF RetryKnown, Retry, Known, Dedupe
<1> SUFFICES ASSUME ~ delayed
             PROVE  NeedsMet(todo', base) /\ \A x \in culled : Hopeless(x)'
  BY <1>1 DEF CullInv
<1>2. NeedsMet(todo', base \cup {t})
  BY <1>1, RetryNeeds
<1>3. base \cup {t} = base
  BY <1>1
<1>4. \A x \in culled : Hopeless(x)
  BY <1>1 DEF CullInv
<1>5. \A x \in culled : Hopeless(x)'
  BY <1>1, <1>4 DEF Hopeless, Now
<1> HIDE DEF base
<1> QED  BY <1>2, <1>3, <1>5

LEMMA RetryAppliesCull ==
  ASSUME IInv, CullInv, NEW t \in Tx, RetryApplies(t)
  PROVE  CullInv'
<1> DEFINE base == ChainTxs(chain) \cup ToSet(applied) \cup culled
<1>1. /\ Retry(t) /\ pc = "retry" /\ CanApply(t)
      /\ UNCHANGED <<chain, phantom, pc, culled, delayed>>
      /\ applied' = Append(applied, t) /\ pending' = Append(pending, t)
      /\ applied \in Seq(Tx) /\ pending \in Seq(Tx)
  BY DEF RetryApplies, Retry, IInv, TypeOK
<1>2. ToSet(applied') = ToSet(applied) \cup {t}
  BY <1>1, SetOfAppend
<1> SUFFICES ASSUME ~ delayed
             PROVE  /\ NeedsMet(pending', ChainTxs(chain))
                    /\ NeedsMet(todo', ChainTxs(chain) \cup ToSet(applied') \cup culled)
                    /\ \A x \in culled : Hopeless(x)'
  BY <1>1 DEF CullInv
<1>3. NeedsMet(pending', ChainTxs(chain))
  <2>1. Needs[t] \subseteq ChainTxs(chain) \cup ToSet(pending)
    BY <1>1 DEF CanApply, Applies, IInv, AppliedIsPending
  <2>2. NeedsMet(pending, ChainTxs(chain))
    BY DEF CullInv
  <2> QED  BY <1>1, <2>1, <2>2, NeedsMetAppend
<1>4. NeedsMet(todo', ChainTxs(chain) \cup ToSet(applied') \cup culled)
  <2>1. NeedsMet(todo', base \cup {t})
    BY <1>1, RetryNeeds
  <2>2. base \cup {t} = ChainTxs(chain) \cup ToSet(applied') \cup culled
    BY <1>2
  <2> HIDE DEF base
  <2> QED  BY <2>1, <2>2
<1>5. t \notin culled
  BY <1>1, HopelessCannot DEF CullInv
<1>6. ASSUME NEW x \in culled PROVE Hopeless(x)'
  <2>1. Hopeless(x)
    BY <1>1 DEF CullInv
  <2> QED  BY <1>1, <1>2, <1>5, <2>1 DEF Hopeless, Now
<1> QED  BY <1>3, <1>4, <1>6

LEMMA RetryFailsCull ==
  ASSUME IInv, CullInv, NEW t \in Tx, RetryFails(t)
  PROVE  CullInv'
<1> DEFINE base == ChainTxs(chain) \cup ToSet(applied) \cup culled
<1>1. /\ Retry(t) /\ pc = "retry" /\ t \notin Known /\ ~ CanApply(t)
      /\ UNCHANGED <<chain, applied, phantom, pending, pc, delayed>>
      /\ culled' = culled \cup {t}
  BY DEF RetryFails, Retry
<1> SUFFICES ASSUME ~ delayed
             PROVE  /\ NeedsMet(todo', ChainTxs(chain) \cup ToSet(applied) \cup culled')
                    /\ \A x \in culled' : Hopeless(x)'
  BY <1>1 DEF CullInv
<1>2. Needs[t] \subseteq base /\ NeedsMet(todo', base \cup {t})
  BY <1>1, RetryNeeds
<1>3. NeedsMet(todo', ChainTxs(chain) \cup ToSet(applied) \cup culled')
  <2>1. base \cup {t} = ChainTxs(chain) \cup ToSet(applied) \cup culled'
    BY <1>1
  <2> HIDE DEF base
  <2> QED  BY <1>2, <2>1
<1>4. Hopeless(t)
  BY <1>1, <1>2 DEF CanApply, Applies, Hopeless
<1>5. \A x \in culled' : Hopeless(x)
  BY <1>1, <1>4 DEF CullInv
<1>6. \A x \in culled' : Hopeless(x)'
  BY <1>1, <1>5 DEF Hopeless, Now
<1> QED  BY <1>3, <1>6

LEMMA CullNext ==
  ASSUME IInv, CullInv, [Next]_vars
  PROVE  CullInv'
<1>1. ASSUME NEW t \in Tx,
             PushTransaction(t) \/ RetryKnown(t) \/ RetryApplies(t) \/ RetryFails(t)
      PROVE  CullInv'
  BY <1>1, PushTransactionCull, RetryKnownCull, RetryAppliesCull, RetryFailsCull
<1>2. ASSUME NEW t \in Tx, Postpone(t) PROVE CullInv'
  BY <1>2 DEF Postpone, CullInv
<1>3. ASSUME UNCHANGED <<chain, pending, delayed>>, pc' \in {"idle", "generate"}
      PROVE  CullInv'
  BY <1>3 DEF CullInv
<1>4. ASSUME NEW t \in Tx, GenSkip(t) \/ GenPostpone(t) \/ GenInclude(t) PROVE CullInv'
  BY <1>3, <1>4 DEF GenSkip, GenPostpone, GenInclude, Consider
<1>5. ASSUME NEW when \in Times, Generate(when) PROVE CullInv'
  BY <1>3, <1>5 DEF Generate
<1>6. CASE RetryDone \/ GenBreak \/ GenThrows
  BY <1>3, <1>6 DEF RetryDone, GenBreak, GenThrows
<1>7. CASE \/ PushNoChange \/ GenPush
           \/ \E b \in Blocks : PushExtends(b)
           \/ \E k \in 1 .. Len(chain) - 1 : PushSwitch(k)
  BY <1>7, PushCull
<1>8. CASE \/ PopThrows \/ ApplyForkThrows \/ RestoreOld
           \/ \E b \in Blocks : ApplyFork(b)
  BY <1>8, ForkStepsCull
<1>9. CASE PopBlock
  BY <1>9, PopBlockCull
<1>10. CASE UNCHANGED vars
  BY <1>10 DEF vars, CullInv, Hopeless, Now
<1> QED  BY <1>1, <1>2, <1>4, <1>5, <1>6, <1>7, <1>8, <1>9, <1>10 DEF Next

\* Until the time limit strikes for the first time, whatever a push gives up
\* still cannot be applied when it ends: the order in which popped and
\* pending transactions are tried again never costs one its chance.
THEOREM NoNeedlessCullAlways == Spec => []NoNeedlessCull
<1>1. Init => CullInv
  BY NeedsMetEmpty DEF Init, CullInv
<1>2. IInv /\ CullInv /\ [Next]_vars => CullInv'
  BY CullNext
<1>3. CullInv => NoNeedlessCull
  BY HopelessCannot DEF CullInv, NoNeedlessCull
<1> QED  BY <1>1, <1>2, <1>3, Invariance, PTL DEF Spec
=============================================================================
