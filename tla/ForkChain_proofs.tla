--------------------------- MODULE ForkChain_proofs ---------------------------
(***************************************************************************)
(* Proofs about ForkChain for every tree of blocks, whatever blocks fail,  *)
(* every undo limit and every set of checkpoints; then, without            *)
(* checkpoints and redelivery, about the block log, what is irreversible,  *)
(* failed switches and replays; and about ForkWatch, which chain is        *)
(* followed when all blocks can be applied.                                *)
(***************************************************************************)
EXTENDS ForkWatch, SequenceTheorems, FiniteSetTheorems, WellFoundedInduction, TLAPS

(***************************************************************************)
(* Lemmas about blocks and their prefixes.                                 *)
(***************************************************************************)

LEMMA ChainIsSeq ==
  ASSUME NEW b \in Chains
  PROVE  /\ b \in Seq(Headers) /\ Num(b) \in Nat
         /\ b # <<>> => b \in Blocks /\ Num(b) > 0
         /\ b \in Blocks => Num(b) > 0
         /\ Num(b) = 0 <=> b = <<>>
<1>1. b \in Seq(Headers) /\ Len(b) \in Nat
  BY BlocksAssumption, EmptySeq, LenProperties DEF Chains
<1>2. Len(b) = 0 <=> b = <<>>
  BY <1>1, EmptySeq
<1>3. b \in Blocks => Len(b) > 0
  BY BlocksAssumption DEF Num
<1> QED  BY <1>1, <1>2, <1>3 DEF Chains, Num

LEMMA PrefixIsChain ==
  ASSUME NEW b \in Chains, NEW n \in 0 .. Num(b)
  PROVE  /\ Prefix(b, n) \in Chains /\ Num(Prefix(b, n)) = n
         /\ n > 0 => Prefix(b, n) \in Blocks
<1>1. b \in Seq(Headers) /\ Len(b) \in Nat
  BY ChainIsSeq DEF Num
<1>2. SubSeq(b, 1, n) \in Seq(Headers) /\ Len(SubSeq(b, 1, n)) = n
  BY <1>1, SubSeqProperties DEF Num
<1>3. CASE n = 0
  <2>1. SubSeq(b, 1, n) = <<>>
    BY <1>2, <1>3, EmptySeq
  <2> QED  BY <2>1, <1>3, <1>2 DEF Prefix, Chains, Num
<1>4. CASE n > 0
  <2>1. b \in Blocks
    BY <1>4, ChainIsSeq, <1>1 DEF Num
  <2>2. Prefix(b, n) \in Blocks
    BY <2>1, <1>4, BlocksAssumption DEF Num
  <2> QED  BY <2>2, <1>2, <1>4 DEF Prefix, Chains, Num
<1> QED  BY <1>3, <1>4

LEMMA PrefixFull ==
  ASSUME NEW b \in Chains
  PROVE  Prefix(b, Num(b)) = b
<1>1. b \in Seq(Headers) /\ Len(b) \in Nat
  BY ChainIsSeq DEF Num
<1> QED  BY <1>1, SubSeqFull DEF Prefix, Num

LEMMA PrefixOfPrefix ==
  ASSUME NEW b \in Chains, NEW n \in 0 .. Num(b), NEW m \in 0 .. n
  PROVE  Prefix(Prefix(b, n), m) = Prefix(b, m)
<1>1. b \in Seq(Headers) /\ Len(b) \in Nat
  BY ChainIsSeq DEF Num
<1>2. /\ Prefix(b, n) \in Seq(Headers) /\ Len(Prefix(b, n)) = n
      /\ \A i \in 1 .. n : Prefix(b, n)[i] = b[i]
  BY <1>1, SubSeqProperties DEF Prefix, Num
<1>3. /\ Prefix(b, m) \in Seq(Headers) /\ Len(Prefix(b, m)) = m
      /\ \A i \in 1 .. m : Prefix(b, m)[i] = b[i]
  BY <1>1, SubSeqProperties DEF Prefix, Num
<1>4. /\ Prefix(Prefix(b, n), m) \in Seq(Headers) /\ Len(Prefix(Prefix(b, n), m)) = m
      /\ \A i \in 1 .. m : Prefix(Prefix(b, n), m)[i] = Prefix(b, n)[i]
  BY <1>2, SubSeqProperties DEF Prefix, Num
<1> QED  BY <1>2, <1>3, <1>4, SeqEqual

LEMMA SubSeqOfSeq ==
  ASSUME NEW S, NEW s \in Seq(S), NEW m \in 1 .. Len(s) + 1, NEW n \in m - 1 .. Len(s)
  PROVE  /\ SubSeq(s, m, n) \in Seq(S) /\ Len(SubSeq(s, m, n)) = n - m + 1
         /\ \A i \in 1 .. n - m + 1 : SubSeq(s, m, n)[i] = s[m + i - 1]
<1>1. Len(s) \in Nat /\ \A i \in m .. n : s[i] \in S
  BY ElementOfSeq, LenProperties
<1> QED  BY <1>1, SubSeqProperties

\* A block and the block before it.
LEMMA PrevIsChain ==
  ASSUME NEW b \in Chains, b # <<>>
  PROVE  /\ Prev(b) \in Chains /\ Num(Prev(b)) = Num(b) - 1 /\ Num(b) > 0
         /\ Prev(b) = Prefix(b, Num(b) - 1)
         /\ \A m \in 0 .. Num(b) - 1 : Prefix(Prev(b), m) = Prefix(b, m)
<1>1. Num(b) \in Nat /\ Num(b) > 0
  BY ChainIsSeq
<1>2. Prev(b) = Prefix(b, Num(b) - 1)
  BY DEF Prev, Num
<1> QED  BY <1>1, <1>2, PrefixIsChain, PrefixOfPrefix

\* fetch_branch_from always has a point to stop at: two blocks have at least
\* the zero id in common.
LEMMA ForkPointExists ==
  ASSUME NEW a \in Blocks, NEW h \in Blocks
  PROVE  /\ ForkPoint(a, h) \in Nat
         /\ ForkPoint(a, h) < Num(a) /\ ForkPoint(a, h) < Num(h)
         /\ Prefix(a, ForkPoint(a, h)) = Prefix(h, ForkPoint(a, h))
         /\ \A m \in ForkPoint(a, h) + 1 .. Num(h) - 1 :
              m < Num(a) => Prefix(a, m) # Prefix(h, m)
<1> DEFINE Common == {n \in 0 .. Num(h) : n < Num(a) /\ n < Num(h) /\ Prefix(a, n) = Prefix(h, n)}
           T == {k \in Nat : \E n \in Common : k = Num(h) - n}
           P(n) == /\ n < Num(a) /\ n < Num(h)
                   /\ Prefix(a, n) = Prefix(h, n)
                   /\ \A m \in n + 1 .. Num(h) - 1 : m < Num(a) => Prefix(a, m) # Prefix(h, m)
<1>1. /\ a \in Chains /\ h \in Chains
      /\ Num(a) \in Nat /\ Num(h) \in Nat /\ Num(a) > 0 /\ Num(h) > 0
  BY ChainIsSeq DEF Chains
<1>2. Prefix(a, 0) = <<>> /\ Prefix(h, 0) = <<>>
  BY <1>1, PrefixIsChain, ChainIsSeq
<1>3. 0 \in Common
  BY <1>1, <1>2
<1>4. T \subseteq Nat /\ T # {}
  BY <1>1, <1>3
<1>5. PICK x \in T : \A y \in T : ~ (<<y, x>> \in OpToRel(<, Nat))
  BY <1>4, NatLessThanWellFounded, WFMin
<1>6. \A y \in T : ~ (y < x)
  BY <1>4, <1>5 DEF OpToRel
<1>7. PICK n \in Common : x = Num(h) - n
  OBVIOUS
<1>8. ASSUME NEW m \in n + 1 .. Num(h) - 1, m < Num(a), Prefix(a, m) = Prefix(h, m)
      PROVE  FALSE
  <2>1. m \in Common
    BY <1>1, <1>7, <1>8
  <2>2. Num(h) - m \in T /\ Num(h) - m < x
    BY <2>1, <1>1, <1>7, <1>8
  <2> QED  BY <2>2, <1>6
<1>9. n \in 0 .. Num(h) /\ P(n)
  BY <1>7, <1>8
<1>10. ForkPoint(a, h) \in 0 .. Num(h) /\ P(ForkPoint(a, h))
  BY <1>9 DEF ForkPoint
<1> QED  BY <1>10, <1>1

\* What is found for the block log is a block.
LEMMA MainBlockType ==
  ASSUME index \subseteq Blocks, NEW fh \in Chains, NEW n \in Nat, n > 0
  PROVE  MainBlock(n, fh) \in Chains
<1> DEFINE there == {b \in index : Num(b) = n}
<1>1. Cardinality(there) = 1 => there # {}
  BY FS_EmptySet
<1>2. Cardinality(there) = 1 => (CHOOSE b \in there : TRUE) \in Blocks
  BY <1>1
<1>3. n <= Num(fh) => Prefix(fh, n) \in Chains
  BY PrefixIsChain, ChainIsSeq
<1> QED  BY <1>2, <1>3, ChainIsSeq DEF MainBlock, Chains

\* The push returns or throws.
LEMMA ReturnType ==
  ASSUME NEW idx \in SUBSET Blocks, NEW orp, NEW fh \in Chains, Return(idx, orp, fh)
  PROVE  /\ pc' = "idle" /\ mode' = "direct" /\ target' \in Chains /\ old' \in Chains
         /\ fork' \in Nat /\ skipUndo' = FALSE
         /\ index' \subseteq Blocks /\ orphan' \subseteq Blocks /\ fhead' \in Chains
  BY DEF Return, NoLocals, Chains

\* The block being applied.
LEMMA CurType ==
  ASSUME TypeOK, LocalsOk, pc = "apply"
  PROVE  /\ Cur \in Blocks /\ CurForkHead \in Chains
         /\ mode = "direct" => Cur = target /\ CurForkHead = fhead
         /\ mode = "switch" => Cur = Prefix(target, Num(head) + 1) /\ CurForkHead = Cur
         /\ mode = "restore" => Cur = Prefix(old, Num(head) + 1) /\ CurForkHead = Cur
<1>1. head \in Chains /\ target \in Chains /\ old \in Chains /\ fhead \in Chains
  BY DEF TypeOK
<1>2. Num(head) \in Nat /\ Num(target) \in Nat /\ Num(old) \in Nat
  BY <1>1, ChainIsSeq
<1>3. CASE mode = "direct"
  BY <1>1, <1>3 DEF Cur, CurForkHead, LocalsOk
<1>4. CASE mode = "switch"
  <2>1. Num(head) + 1 \in 0 .. Num(target)
    BY <1>2, <1>4 DEF LocalsOk
  <2>2. Prefix(target, Num(head) + 1) \in Blocks
    BY <1>1, <1>2, <2>1, PrefixIsChain
  <2> QED  BY <2>2, <1>4 DEF Cur, CurForkHead, Chains
<1>5. CASE mode = "restore"
  <2>1. Num(head) + 1 \in 0 .. Num(old)
    BY <1>2, <1>5 DEF LocalsOk
  <2>2. Prefix(old, Num(head) + 1) \in Blocks
    BY <1>1, <1>2, <2>1, PrefixIsChain
  <2> QED  BY <2>2, <1>5 DEF Cur, CurForkHead, Chains
<1> QED  BY <1>3, <1>4, <1>5 DEF TypeOK

\* Every announced number has a block.
LEMMA AnnounceType ==
  ASSUME head \in Chains, announced \subseteq Notice, NEW b \in Blocks, Announce(b)
  PROVE  announced' \subseteq Notice
<1>1. b \in Chains /\ LibOf[b] \in Nat /\ LibOf[head] \in Nat /\ LibOf[b] <= Num(b)
  BY LibAssumption DEF Chains
<1>2. \A n \in {m \in LibOf[head] .. LibOf[b] : m > 0} : Prefix(b, n) \in Blocks
  BY <1>1, PrefixIsChain, ChainIsSeq
<1>3. Fate[b] \in {"ok", "early", "late"}
  BY FateAssumption
<1> QED  BY <1>2, <1>3 DEF Announce, Notice

(***************************************************************************)
(* The inductive invariant holds initially and every action preserves it.  *)
(***************************************************************************)

LEMMA InitInv == Init => IInv
<1> SUFFICES ASSUME Init PROVE IInv
  OBVIOUS
<1>1. InitChain \in Chains /\ Num(InitChain) \in Nat
  BY InitAssumption, ChainIsSeq
<1>2. \A n \in 1 .. Num(InitChain) : Prefix(InitChain, n) \in Blocks
  BY <1>1, PrefixIsChain
<1>3. log \in Seq(Blocks) /\ buf \in Seq(Blocks) /\ undo \in Seq(UndoEntry)
  <2>1. log \in Seq(Blocks)
    BY <1>1, <1>2, IsASeq DEF Init
  <2>2. buf = <<>> /\ undo = <<>>
    BY DEF Init
  <2> QED  BY <2>1, <2>2, EmptySeq
<1>4. TypeOK
  <2>1. index \subseteq Blocks /\ orphan \subseteq Blocks
    BY <1>1 DEF Init, Chains
  <2>2. maxSize \in Nat /\ <<>> \in Chains
    BY BoundsAssumption DEF Init, Chains
  <2> QED  BY <1>1, <1>3, <2>1, <2>2 DEF TypeOK, Init
<1>5. StackIsChain
  BY <1>1, EmptySeq DEF StackIsChain, LeadsBack, Init
<1>6. RevisionIsNumber /\ LocalsOk /\ AppendReady
  BY DEF RevisionIsNumber, LocalsOk, AppendReady, Init
<1> QED  BY <1>4, <1>5, <1>6 DEF IInv

\* The chain state does not change.
LEMMA SameState ==
  ASSUME StackIsChain, UNCHANGED stateVars
  PROVE  StackIsChain'
  BY DEF StackIsChain, stateVars

LEMMA PushInv ==
  ASSUME IInv, NEW b \in Blocks,
         PushDirect(b) \/ PushKept(b) \/ PushSwitch(b) \/ PushThrows(b)
  PROVE  IInv'
<1> USE DEF IInv
<1>1. Pushed(b) /\ pc = "idle"
  BY DEF PushDirect, PushKept, PushSwitch, PushThrows, Pushed
<1>2. b \in Chains /\ head \in Chains /\ Head1(b) \in Chains /\ Head1(b) # <<>>
  BY ChainIsSeq DEF TypeOK, Head1, Chains
<1>3. /\ UNCHANGED <<stateVars, maxSize, logVars, announced>>
      /\ index' = Index1(b) /\ orphan' = Orphan1(b) /\ fhead' = Head1(b)
  BY <1>1 DEF Pushed
<1>4. StackIsChain'
  BY <1>3, SameState
<1>5. index' \subseteq Blocks /\ orphan' \subseteq Blocks /\ fhead' \in Chains
  BY <1>2, <1>3 DEF Index1, Orphan1, TypeOK
<1>6. CASE UNCHANGED <<pc, pushVars>>
  <2>1. TypeOK'
    BY <1>3, <1>5, <1>6 DEF TypeOK, stateVars, logVars, pushVars
  <2>2. RevisionIsNumber' /\ LocalsOk' /\ AppendReady'
    BY <1>1, <1>3, <1>6 DEF RevisionIsNumber, LocalsOk, AppendReady, stateVars, logVars, pushVars
  <2> QED  BY <1>4, <2>1, <2>2
<1>7. CASE PushDirect(b)
  <2>1. /\ pc' = "apply" /\ mode' = "direct" /\ target' = b /\ skipUndo' \in BOOLEAN
        /\ UNCHANGED <<old, fork>>
    BY <1>7 DEF PushDirect, SkipsUndoCheck
  <2>2. TypeOK'
    BY <2>1, <1>2, <1>3, <1>5 DEF TypeOK, stateVars, logVars
  <2>3. RevisionIsNumber' /\ LocalsOk' /\ AppendReady'
    BY <1>1, <1>3, <2>1 DEF RevisionIsNumber, LocalsOk, AppendReady, stateVars, logVars
  <2> QED  BY <1>4, <2>2, <2>3
<1>8. CASE PushSwitch(b)
  <2>1. /\ pc' = "pop" /\ mode' = "switch" /\ target' = Head1(b) /\ old' = head
        /\ fork' = ForkPoint(Head1(b), head) /\ skipUndo' \in BOOLEAN
        /\ Head1(b) \in Index1(b) /\ head \in Index1(b)
    BY <1>8 DEF PushSwitch, SkipsUndoCheck, BranchesFound
  <2>2. Head1(b) \in Blocks /\ head \in Blocks
    BY <2>1 DEF Index1, TypeOK
  <2>3. Branches'
    BY <2>1, <2>2, ForkPointExists DEF Branches, Num, Prefix
  <2>4. TypeOK'
    BY <2>1, <2>2, <1>2, <1>3, <1>5, ForkPointExists DEF TypeOK, stateVars, logVars
  <2>5. OnChain(head', old') /\ fork' <= Num(head')
    <3>1. head' = head /\ Num(head) \in Nat /\ Prefix(head, Num(head)) = head
      BY <1>2, <1>3, ChainIsSeq, PrefixFull DEF stateVars
    <3> QED  BY <3>1, <2>1, <2>2, ForkPointExists DEF OnChain
  <2>6. OnChain(head, old)' /\ (fork <= Num(head))'
    BY <2>5 DEF OnChain, Num, Prefix
  <2>7. RevisionIsNumber' /\ LocalsOk' /\ AppendReady'
    BY <1>1, <1>3, <2>1, <2>3, <2>6 DEF RevisionIsNumber, LocalsOk, AppendReady, stateVars, logVars
  <2> QED  BY <1>4, <2>4, <2>7
<1> QED  BY <1>6, <1>7, <1>8 DEF PushKept, PushThrows

\* What pop_block() does to the chain state when there is something to undo.
LEMMA PopState ==
  ASSUME IInv, Pop, undo # <<>>
  PROVE  /\ revision' = revision - 1 /\ revision = Num(head)
         /\ undo \in Seq(UndoEntry) /\ Len(undo) \in Nat \ {0}
         /\ undo' \in Seq(UndoEntry) /\ Len(undo') = Len(undo) - 1
         /\ \A k \in 1 .. Len(undo) - 1 : undo'[k] = undo[k]
         /\ head \in Chains /\ Num(head) \in Nat
         /\ head' = Prefix(head, Num(head) - 1) /\ head' \in Chains
         /\ Num(head') = Num(head) - 1 /\ Num(head)' = Num(head')
         /\ LeadsBack(head, undo, revision)
<1>1. /\ head' = undo[Len(undo)].to /\ undo' = SubSeq(undo, 1, Len(undo) - 1)
      /\ revision' = revision - 1
  BY DEF Pop
<1>2. undo \in Seq(UndoEntry) /\ Len(undo) \in Nat \ {0} /\ head \in Chains /\ Num(head) \in Nat
  BY EmptySeq, ChainIsSeq DEF TypeOK, IInv
<1>3. /\ undo' \in Seq(UndoEntry) /\ Len(undo') = Len(undo) - 1
      /\ \A k \in 1 .. Len(undo) - 1 : undo'[k] = undo[k]
  <2>1. 1 \in 1 .. Len(undo) + 1 /\ Len(undo) - 1 \in 1 - 1 .. Len(undo)
    BY <1>2
  <2>2. LET t == SubSeq(undo, 1, Len(undo) - 1)
        IN  /\ t \in Seq(UndoEntry) /\ Len(t) = Len(undo) - 1 - 1 + 1
            /\ \A i \in 1 .. Len(undo) - 1 - 1 + 1 : t[i] = undo[1 + i - 1]
    BY <1>2, <2>1, SubSeqOfSeq
  <2>3. Len(undo) - 1 - 1 + 1 = Len(undo) - 1 /\ \A i \in 1 .. Len(undo) - 1 : 1 + i - 1 = i
    BY <1>2
  <2> QED  BY <1>1, <2>2, <2>3
<1>4. /\ revision = Num(head) /\ Len(undo) <= Num(head)
      /\ \A k \in 1 .. Len(undo) :
           /\ undo[k].to = Prefix(head, Num(head) - Len(undo) + k - 1)
           /\ undo[k].rev = Num(head) - Len(undo) + k
  BY EmptySeq, <1>2 DEF StackIsChain, LeadsBack, RevisionIsNumber, IInv
<1>5. head' = Prefix(head, Num(head) - 1)
  BY <1>1, <1>2, <1>4
<1>6. head' \in Chains /\ Num(head') = Num(head) - 1 /\ Num(head)' = Num(head')
  BY <1>5, <1>2, <1>4, PrefixIsChain DEF Num
<1>7. LeadsBack(head, undo, revision)
  BY <1>4 DEF LeadsBack
<1> QED  BY <1>1, <1>2, <1>3, <1>4, <1>5, <1>6, <1>7

LEMMA PopInv ==
  ASSUME IInv, Pop
  PROVE  IInv'
<1> USE DEF IInv
<1>1. pc \in {"pop", "unpop"} /\ fhead # <<>>
  BY DEF Pop, CanPop, ForkHeadHasPrev
<1>2. UNCHANGED <<index, orphan, maxSize, logVars, pc, pushVars, announced>> /\ fhead' = Prev(fhead)
  BY DEF Pop
<1>3. fhead' \in Chains
  BY <1>1, <1>2, PrevIsChain DEF TypeOK
<1>4. AppendReady'
  BY <1>1, <1>2 DEF AppendReady
<1>5. CASE undo = <<>>
  <2>1. UNCHANGED stateVars
    BY <1>5 DEF Pop
  <2>2. TypeOK' /\ RevisionIsNumber' /\ LocalsOk'
    BY <2>1, <1>1, <1>2, <1>3 DEF TypeOK, RevisionIsNumber, LocalsOk, Branches, OnChain,
                                  stateVars, pushVars, logVars, Num, Prefix
  <2> QED  BY <2>1, <2>2, <1>4, SameState
<1>6. CASE undo # <<>>
  <2>1. revision' = revision - 1 /\ head' = Prefix(head, Num(head) - 1)
    BY <1>6, PopState
  <2>2. undo \in Seq(UndoEntry) /\ Len(undo) \in Nat \ {0} /\ head \in Chains /\ Num(head) \in Nat
    BY <1>6, PopState
  <2>3. /\ undo' \in Seq(UndoEntry) /\ Len(undo') = Len(undo) - 1
        /\ \A k \in 1 .. Len(undo) - 1 : undo'[k] = undo[k]
    BY <1>6, PopState
  <2>4. /\ revision = Num(head) /\ Len(undo) <= Num(head)
        /\ \A k \in 1 .. Len(undo) :
             /\ undo[k].to = Prefix(head, Num(head) - Len(undo) + k - 1)
             /\ undo[k].rev = Num(head) - Len(undo) + k
    BY <1>6, PopState DEF LeadsBack
  <2>5. head' = Prefix(head, Num(head) - 1)
    BY <2>1
  <2>6. head' \in Chains /\ Num(head') = Num(head) - 1 /\ Num(head)' = Num(head')
    BY <1>6, PopState
  <2>7. ASSUME NEW k \in 1 .. Len(undo')
        PROVE  /\ undo'[k].to = Prefix(head', Num(head') - Len(undo') + k - 1)
               /\ undo'[k].rev = Num(head') - Len(undo') + k
    <3>1. k \in 1 .. Len(undo) /\ undo'[k] = undo[k]
      BY <2>2, <2>3
    <3>2. Num(head') - Len(undo') + k - 1 = Num(head) - Len(undo) + k - 1
      BY <2>2, <2>3, <2>6
    <3>3. Num(head) - 1 \in 0 .. Num(head) /\ Num(head) - Len(undo) + k - 1 \in 0 .. Num(head) - 1
      BY <2>2, <2>3, <2>4
    <3>4. Prefix(head', Num(head) - Len(undo) + k - 1) = Prefix(head, Num(head) - Len(undo) + k - 1)
      BY <2>2, <2>5, <3>3, PrefixOfPrefix
    <3>5. Num(head') - Len(undo') + k = Num(head) - Len(undo) + k
      BY <2>2, <2>3, <2>6
    <3>6. undo[k].to = Prefix(head, Num(head) - Len(undo) + k - 1) /\ undo[k].rev = Num(head) - Len(undo) + k
      BY <2>4, <3>1
    <3> QED  BY <3>1, <3>2, <3>4, <3>5, <3>6
  <2>8. StackIsChain'
    <3>1. revision' = Num(head') /\ Len(undo') <= Num(head')
      BY <2>1, <2>2, <2>3, <2>4, <2>6
    <3>2. LeadsBack(head', undo', revision')
      BY <3>1, <2>7 DEF LeadsBack
    <3> QED  BY <3>2 DEF StackIsChain
  <2>9. TypeOK'
    BY <2>1, <2>2, <2>3, <2>4, <2>6, <1>2, <1>3 DEF TypeOK, pushVars, logVars
  <2>10. RevisionIsNumber'
    BY <1>1, <1>2, <2>1, <2>4, <2>6 DEF RevisionIsNumber
  <2>11. LocalsOk'
    <3>1. /\ target \in Chains /\ old \in Chains /\ fork \in Nat /\ mode = "switch" /\ Branches
          /\ fork <= Num(head) /\ Num(target) \in Nat /\ Num(old) \in Nat
      BY <1>1, ChainIsSeq DEF TypeOK, LocalsOk
    <3>2. ASSUME NEW b \in {target, old}, OnChain(head, b)
          PROVE  OnChain(head', b) /\ fork <= Num(head')
      <4>1. Num(head) <= Num(b) /\ Prefix(b, Num(head)) = head
        BY <3>2 DEF OnChain
      <4>2. Num(head) # fork
        BY <4>1, <3>1 DEF Pop, AtForkPoint, Branches
      <4>3. Num(head) \in 0 .. Num(b) /\ Num(head) - 1 \in 0 .. Num(head)
        BY <4>1, <4>2, <3>1, <2>2
      <4>4. Prefix(b, Num(head) - 1) = Prefix(head, Num(head) - 1)
        BY <4>1, <4>3, <3>1, PrefixOfPrefix
      <4> QED  BY <4>1, <4>2, <4>3, <4>4, <3>1, <2>2, <2>5, <2>6 DEF OnChain
    <3>3. CASE pc = "pop"
      <4>1. OnChain(head', old) /\ fork <= Num(head')
        BY <3>2, <3>3 DEF LocalsOk
      <4> QED  BY <4>1, <3>1, <3>3, <1>2 DEF LocalsOk, Branches, OnChain, pushVars, Num, Prefix
    <3>4. CASE pc = "unpop"
      <4>1. OnChain(head', target) /\ fork <= Num(head')
        BY <3>2, <3>4 DEF LocalsOk
      <4> QED  BY <4>1, <3>1, <3>4, <1>2 DEF LocalsOk, Branches, OnChain, pushVars, Num, Prefix
    <3> QED  BY <3>3, <3>4, <1>1
  <2> QED  BY <2>8, <2>9, <2>10, <2>11, <1>4
<1> QED  BY <1>5, <1>6

LEMMA PopThrowsInv ==
  ASSUME IInv, PopThrows
  PROVE  IInv'
<1> USE DEF IInv
<1>1. Return(index, orphan, fhead) /\ UNCHANGED <<stateVars, maxSize, logVars, announced>>
      /\ pc \in {"pop", "unpop"}
  BY DEF PopThrows
<1>2. TypeOK' /\ pc' = "idle"
  BY <1>1, ReturnType DEF TypeOK, stateVars, logVars
<1>3. RevisionIsNumber' /\ LocalsOk' /\ AppendReady'
  BY <1>1, <1>2 DEF RevisionIsNumber, LocalsOk, AppendReady, stateVars, Num
<1> QED  BY <1>1, <1>2, <1>3, SameState

LEMMA PoppedInv ==
  ASSUME IInv, Popped
  PROVE  IInv'
<1> USE DEF IInv
<1>1. /\ pc \in {"pop", "unpop"} /\ head = Prefix(old, fork) /\ pc' = "apply"
      /\ mode' = IF pc = "pop" THEN "switch" ELSE "restore"
      /\ UNCHANGED <<stateVars, forkVars, logVars, target, old, fork, skipUndo, announced>>
  BY DEF Popped, AtForkPoint
<1>2. Branches /\ fork \in Nat /\ target \in Chains /\ old \in Chains
  BY <1>1 DEF LocalsOk, TypeOK
<1>3. TypeOK'
  BY <1>1 DEF TypeOK, stateVars, forkVars, logVars
<1>4. /\ Num(head) = fork /\ fork < Num(target) /\ fork < Num(old)
      /\ OnChain(head, target) /\ OnChain(head, old)
  BY <1>1, <1>2, PrefixIsChain, ChainIsSeq DEF Branches, OnChain
<1>5. Branches' /\ (OnChain(head, target))' /\ (OnChain(head, old))'
      /\ Num(head)' < Num(target)' /\ Num(head)' < Num(old)' /\ fork' <= Num(head)'
  BY <1>1, <1>2, <1>4 DEF Branches, OnChain, stateVars, Num, Prefix
<1>6. LocalsOk'
  BY <1>1, <1>5 DEF LocalsOk
<1>7. RevisionIsNumber' /\ AppendReady'
  BY <1>1 DEF RevisionIsNumber, AppendReady, stateVars, Num
<1> QED  BY <1>1, <1>3, <1>6, <1>7, SameState

\* A block that is applied builds on the head.
LEMMA ApplyState ==
  ASSUME IInv, pc = "apply", HeaderOk(Cur)
  PROVE  /\ Cur \in Blocks /\ Cur \in Chains /\ Cur # <<>> /\ head \in Chains /\ Num(head) \in Nat
         /\ Num(Cur) = Num(head) + 1
         /\ head = Prefix(Cur, Num(head))
         /\ \A m \in 0 .. Num(head) : Prefix(head, m) = Prefix(Cur, m)
<1>1. Cur \in Blocks /\ Prev(Cur) = head
  BY CurType DEF IInv, HeaderOk
<1>2. Cur \in Chains /\ Cur # <<>> /\ head \in Chains /\ Num(head) \in Nat /\ Num(Cur) \in Nat
  BY <1>1, ChainIsSeq DEF TypeOK, IInv, Chains
<1> QED  BY <1>1, <1>2, PrevIsChain

LEMMA ApplyInv ==
  ASSUME IInv, Apply
  PROVE  IInv'
<1> USE DEF IInv
<1>1. /\ pc = "apply" /\ Applicable(Cur, CurForkHead) /\ head' = Cur
      /\ undo' = Append(undo, [to |-> head, rev |-> revision + 1])
      /\ revision' = revision + 1 /\ fhead' = CurForkHead /\ Announce(Cur) /\ pc' = "append"
      /\ UNCHANGED <<index, orphan, maxSize, logVars, pushVars>>
  BY DEF Apply
<1>2. /\ Cur \in Blocks /\ CurForkHead \in Chains
      /\ mode = "switch" => Cur = Prefix(target, Num(head) + 1)
      /\ mode = "restore" => Cur = Prefix(old, Num(head) + 1)
  BY <1>1, CurType
<1>3. HeaderOk(Cur) /\ MigrateOk(Cur, CurForkHead)
  BY <1>1 DEF Applicable
<1>4. Cur \in Chains /\ Cur # <<>> /\ head \in Chains /\ Num(head) \in Nat
  BY <1>1, <1>3, ApplyState
<1>5. /\ Num(Cur) = Num(head) + 1
      /\ head = Prefix(Cur, Num(head))
      /\ \A m \in 0 .. Num(head) : Prefix(head, m) = Prefix(Cur, m)
  BY <1>1, <1>3, ApplyState
<1>6. /\ revision = Num(head) /\ revision \in Nat
      /\ undo \in Seq(UndoEntry) /\ Len(undo) \in Nat
  BY <1>1, LenProperties DEF RevisionIsNumber, TypeOK
<1>7. /\ undo' \in Seq(UndoEntry) /\ Len(undo') = Len(undo) + 1
      /\ \A k \in 1 .. Len(undo) : undo'[k] = undo[k]
      /\ undo'[Len(undo) + 1] = [to |-> head, rev |-> revision + 1]
  <2>1. [to |-> head, rev |-> revision + 1] \in UndoEntry
    BY <1>4, <1>6 DEF UndoEntry
  <2> QED  BY <2>1, <1>1, <1>6, AppendProperties
<1>8. TypeOK'
  <2>1. announced' \subseteq Notice
    BY <1>1, <1>2, AnnounceType DEF TypeOK
  <2> QED  BY <2>1, <1>1, <1>2, <1>4, <1>6, <1>7 DEF TypeOK, logVars, pushVars
<1>9. StackIsChain'
  <2>1. LeadsBack(head, undo, revision) \/ (undo = <<>> /\ Len(undo) = 0)
    BY EmptySeq DEF StackIsChain
  <2>2. Len(undo) <= Num(head)
    BY <2>1, <1>4, <1>6 DEF LeadsBack
  <2>3. ASSUME NEW k \in 1 .. Len(undo')
        PROVE  /\ undo'[k].to = Prefix(Cur, Num(Cur) - Len(undo') + k - 1)
               /\ undo'[k].rev = Num(Cur) - Len(undo') + k
    <3>1. /\ Num(Cur) - Len(undo') + k - 1 = Num(head) - Len(undo) + k - 1
          /\ Num(Cur) - Len(undo') + k = Num(head) - Len(undo) + k
      BY <1>4, <1>5, <1>6, <1>7
    <3>2. CASE k \in 1 .. Len(undo)
      <4>1. /\ undo[k].to = Prefix(head, Num(head) - Len(undo) + k - 1)
            /\ undo[k].rev = Num(head) - Len(undo) + k
        BY <2>1, <1>6, <3>2 DEF LeadsBack
      <4>2. Num(head) - Len(undo) + k - 1 \in 0 .. Num(head)
        BY <2>2, <1>4, <1>6, <3>2
      <4> QED  BY <4>1, <4>2, <3>1, <3>2, <1>5, <1>7
    <3>3. CASE k = Len(undo) + 1
      <4>1. Num(head) - Len(undo) + k - 1 = Num(head) /\ Num(head) - Len(undo) + k = revision + 1
        BY <3>3, <1>4, <1>6
      <4> QED  BY <4>1, <3>1, <3>3, <1>5, <1>7
    <3> QED  BY <3>2, <3>3, <1>6, <1>7
  <2>4. revision' = Num(Cur) /\ Len(undo') <= Num(Cur)
    BY <2>2, <1>1, <1>4, <1>5, <1>6, <1>7
  <2>5. LeadsBack(Cur, undo', revision')
    BY <2>3, <2>4 DEF LeadsBack
  <2> QED  BY <2>5, <1>1 DEF StackIsChain
<1>10. RevisionIsNumber'
  BY <1>1, <1>4, <1>5, <1>6 DEF RevisionIsNumber, Num
<1>11. LocalsOk'
  <2>1. mode # "direct" => Branches
    BY <1>1 DEF LocalsOk
  <2>2. mode = "switch" => OnChain(Cur, target)
    BY <1>1, <1>2, <1>4, <1>5, ChainIsSeq DEF LocalsOk, OnChain, TypeOK
  <2>3. mode = "restore" => OnChain(Cur, old)
    BY <1>1, <1>2, <1>4, <1>5, ChainIsSeq DEF LocalsOk, OnChain, TypeOK
  <2>4. mode # "direct" => fork <= Num(Cur)
    BY <1>1, <1>4, <1>5 DEF LocalsOk, TypeOK
  <2> QED  BY <2>1, <2>2, <2>3, <2>4, <1>1 DEF LocalsOk, Branches, OnChain, pushVars, Num, Prefix
<1>12. AppendReady'
  <2>1. LogAll' = LogAll /\ \A n : MainBlock(n, fhead)' = MainBlock(n, fhead')
    BY <1>1 DEF LogAll, MainBlock, logVars
  <2>2. \A n \in Len(LogAll) + 1 .. LibOf[Cur] : MainBlock(n, CurForkHead) # <<>>
    BY <1>3 DEF MigrateOk
  <2> QED  BY <2>1, <2>2, <1>1 DEF AppendReady, MainBlock, LogAll, logVars
<1> QED  BY <1>8, <1>9, <1>10, <1>11, <1>12

LEMMA ApplyThrowsInv ==
  ASSUME IInv, ApplyThrows
  PROVE  IInv'
<1> USE DEF IInv
<1>1. /\ pc = "apply" /\ UNCHANGED <<stateVars, maxSize, logVars>>
      /\ IF HeaderOk(Cur) THEN Announce(Cur) ELSE UNCHANGED announced
  BY DEF ApplyThrows
<1>2. Cur \in Blocks /\ Cur \in Chains
  BY <1>1, CurType DEF Chains
<1>3. announced' \subseteq Notice
  BY <1>1, <1>2, AnnounceType DEF TypeOK
<1>4. CASE pc' = "idle" /\ TypeOK'
  BY <1>1, <1>4, SameState DEF RevisionIsNumber, LocalsOk, AppendReady, stateVars, Num
<1>5. CASE mode = "direct"
  <2>1. Return(index \ {target}, orphan, fhead)
    BY <1>5 DEF ApplyThrows
  <2>2. TypeOK' /\ pc' = "idle"
    BY <2>1, <1>1, <1>3, ReturnType DEF TypeOK, stateVars, logVars
  <2> QED  BY <2>2, <1>4
<1>6. CASE mode = "restore"
  <2>1. Return(index, orphan, Cur)
    BY <1>6 DEF ApplyThrows
  <2>2. TypeOK' /\ pc' = "idle"
    BY <2>1, <1>1, <1>2, <1>3, ReturnType DEF TypeOK, stateVars, logVars
  <2> QED  BY <2>2, <1>4
<1>7. CASE mode = "switch"
  <2>1. /\ index' = index \ {Prefix(target, n) : n \in Num(Cur) .. Num(target)}
        /\ fhead' = Cur /\ pc' = "unpop" /\ UNCHANGED <<orphan, pushVars>>
    BY <1>7 DEF ApplyThrows
  <2>2. TypeOK'
    BY <2>1, <1>1, <1>2, <1>3 DEF TypeOK, stateVars, logVars, pushVars
  <2>3. RevisionIsNumber' /\ LocalsOk' /\ AppendReady'
    BY <2>1, <1>1, <1>7 DEF RevisionIsNumber, LocalsOk, AppendReady, Branches, stateVars, pushVars
  <2> QED  BY <2>2, <2>3, <1>1, SameState
<1> QED  BY <1>5, <1>6, <1>7 DEF TypeOK

LEMMA AppendBlockInv ==
  ASSUME IInv, AppendBlock
  PROVE  IInv'
<1> USE DEF IInv
<1>1. /\ pc = "append" /\ Len(LogAll) < LibOf[head]
      /\ buf' = Append(buf, MainBlock(Len(LogAll) + 1, fhead))
      /\ UNCHANGED <<stateVars, forkVars, log, pc, pushVars, announced>>
  BY DEF AppendBlock
<1>2. /\ log \in Seq(Blocks) /\ buf \in Seq(Blocks)
      /\ Len(log) \in Nat /\ Len(buf) \in Nat /\ Len(LogAll) = Len(log) + Len(buf)
  BY ConcatProperties, LenProperties DEF TypeOK, LogAll
<1>3. LibOf[head] \in Nat
  BY LibAssumption DEF TypeOK
<1>4. MainBlock(Len(LogAll) + 1, fhead) \in Blocks
  <2>1. MainBlock(Len(LogAll) + 1, fhead) # <<>>
    BY <1>1, <1>2, <1>3 DEF AppendReady
  <2>2. MainBlock(Len(LogAll) + 1, fhead) \in Chains
    BY <1>2, MainBlockType DEF TypeOK
  <2> QED  BY <2>1, <2>2 DEF Chains
<1>5. buf' \in Seq(Blocks) /\ Len(buf') = Len(buf) + 1
  BY <1>1, <1>2, <1>4, AppendProperties
<1>6. Len(LogAll') = Len(LogAll) + 1
  BY <1>1, <1>2, <1>5, ConcatProperties DEF LogAll
<1>7. TypeOK'
  BY <1>1, <1>5 DEF TypeOK, stateVars, forkVars, pushVars
<1>8. AppendReady'
  <2>1. \A n : MainBlock(n, fhead)' = MainBlock(n, fhead)
    BY <1>1 DEF MainBlock, forkVars
  <2>2. \A n \in Len(LogAll') + 1 .. LibOf[head] : n \in Len(LogAll) + 1 .. LibOf[head]
    BY <1>2, <1>3, <1>6
  <2>3. \A n \in Len(LogAll') + 1 .. LibOf[head] : MainBlock(n, fhead)' # <<>>
    BY <2>1, <2>2, <1>1 DEF AppendReady
  <2>4. head' = head
    BY <1>1 DEF stateVars
  <2> QED  BY <2>3, <2>4 DEF AppendReady
<1>9. RevisionIsNumber' /\ LocalsOk'
  BY <1>1 DEF RevisionIsNumber, LocalsOk, Branches, OnChain, stateVars, pushVars, Num, Prefix
<1> QED  BY <1>1, <1>7, <1>8, <1>9, SameState

LEMMA FlushLogInv ==
  ASSUME IInv, FlushLog
  PROVE  IInv'
<1> USE DEF IInv
<1>1. /\ pc = "append" /\ log' = LogAll /\ buf' = <<>> /\ pc' = "commit"
      /\ UNCHANGED <<stateVars, forkVars, pushVars, announced>>
  BY DEF FlushLog
<1>2. log' \in Seq(Blocks) /\ buf' \in Seq(Blocks)
  BY <1>1, ConcatProperties, EmptySeq DEF TypeOK, LogAll
<1>3. TypeOK'
  BY <1>1, <1>2 DEF TypeOK, stateVars, forkVars, pushVars
<1>4. RevisionIsNumber' /\ LocalsOk' /\ AppendReady'
  BY <1>1 DEF RevisionIsNumber, LocalsOk, AppendReady, Branches, OnChain, stateVars, pushVars,
              Num, Prefix
<1> QED  BY <1>1, <1>3, <1>4, SameState

\* Dropping undo states from the front keeps the rest of the way back.
LEMMA CommitStack ==
  ASSUME NEW u \in Seq(UndoEntry), NEW h \in Chains, NEW r, LeadsBack(h, u, r),
         NEW k \in 0 .. Len(u)
  PROVE  /\ SubSeq(u, k + 1, Len(u)) \in Seq(UndoEntry)
         /\ Len(SubSeq(u, k + 1, Len(u))) = Len(u) - k
         /\ LeadsBack(h, SubSeq(u, k + 1, Len(u)), r)
<1> DEFINE t == SubSeq(u, k + 1, Len(u))
<1>1. Len(u) \in Nat /\ Num(h) \in Nat
  BY LenProperties, ChainIsSeq
<1>2. k + 1 \in 1 .. Len(u) + 1 /\ Len(u) \in (k + 1) - 1 .. Len(u)
  BY <1>1
<1>3. /\ t \in Seq(UndoEntry) /\ Len(t) = Len(u) - (k + 1) + 1
      /\ \A i \in 1 .. Len(u) - (k + 1) + 1 : t[i] = u[(k + 1) + i - 1]
  BY <1>2, SubSeqOfSeq
<1>4. Len(t) = Len(u) - k /\ Len(t) \in Nat
  BY <1>1, <1>3
<1>5. ASSUME NEW i \in 1 .. Len(t)
      PROVE  /\ t[i].to = Prefix(h, Num(h) - Len(t) + i - 1)
             /\ t[i].rev = Num(h) - Len(t) + i
  <2>0. i \in 1 .. Len(u) - (k + 1) + 1 /\ (k + 1) + i - 1 = k + i /\ k + i \in 1 .. Len(u)
    BY <1>1, <1>4
  <2>1. t[i] = u[k + i] /\ k + i \in 1 .. Len(u)
    BY <2>0, <1>3
  <2>2. /\ u[k + i].to = Prefix(h, Num(h) - Len(u) + (k + i) - 1)
        /\ u[k + i].rev = Num(h) - Len(u) + (k + i)
    BY <2>1 DEF LeadsBack
  <2>3. /\ Num(h) - Len(u) + (k + i) - 1 = Num(h) - Len(t) + i - 1
        /\ Num(h) - Len(u) + (k + i) = Num(h) - Len(t) + i
    BY <1>1, <1>4
  <2> QED  BY <2>1, <2>2, <2>3
<1>6. Len(t) <= Num(h) /\ r = Num(h)
  BY <1>1, <1>4 DEF LeadsBack
<1>7. LeadsBack(h, t, r)
  BY <1>5, <1>6 DEF LeadsBack
<1> QED  BY <1>3, <1>4, <1>7

LEMMA CommitInv ==
  ASSUME IInv, Commit
  PROVE  IInv'
<1> USE DEF IInv
<1>1. /\ pc = "commit" /\ maxSize' = Size1 /\ UNCHANGED <<head, revision, logVars, announced>>
      /\ \E k \in 0 .. Len(undo) : undo' = SubSeq(undo, k + 1, Len(undo))
  BY DEF Commit
<1>2. /\ head \in Chains /\ Num(head) \in Nat /\ LibOf[head] \in Nat /\ LibOf[head] <= Num(head)
      /\ undo \in Seq(UndoEntry) /\ Len(undo) \in Nat
  BY LibAssumption, ChainIsSeq, LenProperties DEF TypeOK
<1>3. maxSize' \in Nat
  BY <1>1, <1>2 DEF Size1
<1>4. LeadsBack(head, undo, revision)
  <2>1. CASE undo = <<>>
    <3>1. Len(undo) = 0
      BY <2>1, EmptySeq
    <3> QED  BY <3>1, <1>1, <1>2 DEF LeadsBack, RevisionIsNumber
  <2>2. CASE undo # <<>>
    BY <2>2 DEF StackIsChain
  <2> QED  BY <2>1, <2>2
<1>5. undo' \in Seq(UndoEntry) /\ LeadsBack(head, undo', revision)
  BY <1>1, <1>2, <1>4, CommitStack
<1>6. StackIsChain'
  BY <1>1, <1>5 DEF StackIsChain
<1>7. Trimmed \subseteq Blocks
  BY DEF Trimmed, TypeOK
<1>8. CASE PushDone
  <2>1. Return(Trimmed, orphan, fhead)
    BY <1>8 DEF Commit
  <2>2. TypeOK' /\ pc' = "idle"
    BY <2>1, <1>1, <1>3, <1>5, <1>7, ReturnType DEF TypeOK, logVars
  <2>3. RevisionIsNumber' /\ LocalsOk' /\ AppendReady'
    BY <2>2, <1>1 DEF RevisionIsNumber, LocalsOk, AppendReady, Num
  <2> QED  BY <2>2, <2>3, <1>6
<1>9. CASE ~ PushDone
  <2>1. pc' = "apply" /\ index' = Trimmed /\ UNCHANGED <<orphan, fhead, pushVars>>
    BY <1>9 DEF Commit
  <2>2. TypeOK'
    BY <2>1, <1>1, <1>3, <1>5, <1>7 DEF TypeOK, logVars, pushVars
  <2>3. RevisionIsNumber' /\ AppendReady'
    BY <2>1, <1>1 DEF RevisionIsNumber, AppendReady, Num
  <2>4. mode # "direct" /\ Branches
    BY <1>1, <1>9 DEF PushDone, LocalsOk
  <2>5. mode = "switch" => OnChain(head, target) /\ Num(head) < Num(target)
    <3>1. ASSUME mode = "switch", ~ (Num(head) < Num(target)) PROVE FALSE
      <4>1. OnChain(head, target) /\ head # target /\ target \in Chains /\ Num(target) \in Nat
        BY <3>1, <1>1, <1>9, ChainIsSeq DEF LocalsOk, PushDone, TypeOK
      <4>2. Num(head) = Num(target)
        BY <4>1, <3>1, <1>2 DEF OnChain
      <4> QED  BY <4>1, <4>2, PrefixFull DEF OnChain
    <3> QED  BY <3>1, <1>1 DEF LocalsOk
  <2>6. mode = "restore" => OnChain(head, old) /\ Num(head) < Num(old)
    <3>1. ASSUME mode = "restore", ~ (Num(head) < Num(old)) PROVE FALSE
      <4>1. OnChain(head, old) /\ head # old /\ old \in Chains /\ Num(old) \in Nat
        BY <3>1, <1>1, <1>9, ChainIsSeq DEF LocalsOk, PushDone, TypeOK
      <4>2. Num(head) = Num(old)
        BY <4>1, <3>1, <1>2 DEF OnChain
      <4> QED  BY <4>1, <4>2, PrefixFull DEF OnChain
    <3> QED  BY <3>1, <1>1 DEF LocalsOk
  <2>7. LocalsOk'
    BY <2>1, <2>4, <2>5, <2>6, <1>1 DEF LocalsOk, Branches, OnChain, pushVars, Num, Prefix
  <2> QED  BY <2>2, <2>3, <2>7, <1>6
<1> QED  BY <1>8, <1>9

\* Where undo_all() leads, and the revision it leaves.
LEMMA BaseIsChain ==
  ASSUME IInv
  PROVE  /\ Base \in Chains /\ revision - Len(undo) \in Nat /\ Len(undo) \in Nat
         /\ LeadsBack(head, undo, revision) => revision - Len(undo) = Num(Base)
         /\ ~ LeadsBack(head, undo, revision) => revision - Len(undo) = 0
<1> USE DEF IInv
<1>1. /\ head \in Chains /\ Num(head) \in Nat /\ undo \in Seq(UndoEntry) /\ Len(undo) \in Nat
      /\ revision \in Nat
  BY ChainIsSeq, LenProperties DEF TypeOK
<1>2. CASE undo = <<>>
  <2>1. Len(undo) = 0 /\ Base = head
    BY <1>2, EmptySeq DEF Base
  <2> QED  BY <2>1, <1>1 DEF LeadsBack, StackIsChain
<1>3. CASE undo # <<>>
  <2>1. LeadsBack(head, undo, revision) /\ Len(undo) > 0 /\ Base = undo[1].to
    BY <1>1, <1>3, EmptySeq DEF StackIsChain, Base
  <2>2. Base = Prefix(head, Num(head) - Len(undo)) /\ revision = Num(head) /\ Len(undo) <= Num(head)
    <3>1. 1 \in 1 .. Len(undo) /\ Num(head) - Len(undo) + 1 - 1 = Num(head) - Len(undo)
      BY <2>1, <1>1
    <3>2. undo[1].to = Prefix(head, Num(head) - Len(undo) + 1 - 1)
      BY <2>1, <3>1 DEF LeadsBack
    <3> QED  BY <2>1, <3>1, <3>2 DEF LeadsBack
  <2>3. Num(head) - Len(undo) \in 0 .. Num(head)
    BY <2>2, <1>1
  <2> QED  BY <2>1, <2>2, <2>3, <1>1, PrefixIsChain
<1> QED  BY <1>2, <1>3

LEMMA CloseInv ==
  ASSUME IInv, Close \/ Crash
  PROVE  IInv'
<1> USE DEF IInv
<1>1. /\ pc' = "closed" /\ ForkReset /\ announced' = {} /\ UNCHANGED stateVars
      /\ UNCHANGED pushVars \/ NoLocals
  BY DEF Close, Crash
<1>2. log' \in Seq(Blocks) /\ buf' \in Seq(Blocks)
  <2>1. CASE Close
    BY <2>1 DEF Close, logVars, TypeOK
  <2>2. CASE Crash
    <3>1. PICK n \in 0 .. Len(buf) : log' = log \o SubSeq(buf, 1, n)
      BY <2>2 DEF Crash
    <3>2. buf \in Seq(Blocks) /\ log \in Seq(Blocks) /\ Len(buf) \in Nat
      BY LenProperties DEF TypeOK
    <3>3. SubSeq(buf, 1, n) \in Seq(Blocks)
      <4>1. 1 \in 1 .. Len(buf) + 1 /\ n \in 1 - 1 .. Len(buf)
        BY <3>2
      <4> QED  BY <3>2, <4>1, SubSeqOfSeq
    <3>4. buf' = <<>>
      BY <2>2 DEF Crash
    <3> QED  BY <3>1, <3>2, <3>3, <3>4, ConcatProperties, EmptySeq
  <2> QED  BY <2>1, <2>2
<1>3. TypeOK'
  <2>1. head' \in Chains /\ undo' \in Seq(UndoEntry) /\ revision' \in Nat
    BY <1>1 DEF TypeOK, stateVars
  <2>2. /\ index' \subseteq Blocks /\ orphan' \subseteq Blocks /\ fhead' \in Chains
        /\ maxSize' \in Nat
    BY <1>1, BoundsAssumption DEF ForkReset, Chains
  <2>3. /\ mode' \in {"direct", "switch", "restore"} /\ skipUndo' \in BOOLEAN
        /\ target' \in Chains /\ old' \in Chains /\ fork' \in Nat
    <3>1. CASE UNCHANGED pushVars
      BY <3>1 DEF TypeOK, pushVars
    <3>2. CASE NoLocals
      BY <3>2 DEF NoLocals, Chains
    <3> QED  BY <3>1, <3>2, <1>1
  <2> QED  BY <2>1, <2>2, <2>3, <1>1, <1>2 DEF TypeOK
<1>4. RevisionIsNumber' /\ LocalsOk' /\ AppendReady'
  BY <1>1 DEF RevisionIsNumber, LocalsOk, AppendReady
<1> QED  BY <1>1, <1>3, <1>4, SameState

LEMMA OpenInv ==
  ASSUME IInv, Open \/ OpenThrows
  PROVE  IInv'
<1> USE DEF IInv
<1>1. /\ pc = "closed" /\ head' = Base /\ undo' = <<>> /\ revision' = revision - Len(undo)
      /\ UNCHANGED <<maxSize, logVars, pushVars, announced>>
      /\ \/ OpenOk /\ ForkStart(Base) /\ pc' = "idle"
         \/ UNCHANGED <<index, orphan, fhead, pc>>
  BY DEF Open, OpenThrows, forkVars
<1>2. Base \in Chains /\ Num(Base) \in Nat /\ revision - Len(undo) \in Nat
  BY BaseIsChain, ChainIsSeq
<1>3. TypeOK'
  <2>1. undo' \in Seq(UndoEntry)
    BY <1>1, EmptySeq
  <2>2. index' \subseteq Blocks /\ orphan' \subseteq Blocks /\ fhead' \in Chains
    BY <1>1, <1>2 DEF ForkStart, TypeOK, Chains
  <2> QED  BY <2>1, <2>2, <1>1, <1>2 DEF TypeOK, logVars, pushVars
<1>4. StackIsChain'
  <2>1. Len(undo') = 0
    BY <1>1, EmptySeq
  <2>2. CASE LeadsBack(head, undo, revision)
    <3>1. LeadsBack(head', undo', revision')
      BY <2>1, <2>2, <1>1, <1>2, BaseIsChain DEF LeadsBack
    <3> QED  BY <3>1 DEF StackIsChain
  <2>3. CASE ~ LeadsBack(head, undo, revision)
    BY <2>3, <1>1, BaseIsChain DEF StackIsChain
  <2> QED  BY <2>2, <2>3
<1>5. RevisionIsNumber'
  BY <1>1 DEF RevisionIsNumber, OpenOk, Num
<1>6. LocalsOk' /\ AppendReady'
  BY <1>1 DEF LocalsOk, AppendReady
<1> QED  BY <1>3, <1>4, <1>5, <1>6

LEMMA ReindexInv ==
  ASSUME IInv, Reindex \/ ReindexBlock \/ ReindexThrows \/ ReindexDone
  PROVE  IInv'
<1> USE DEF IInv
<1>1. CASE Reindex
  <2>1. head' = <<>> /\ undo' = <<>> /\ revision' = 0 /\ pc' \in {"closed", "reindex"}
        /\ UNCHANGED <<forkVars, logVars, pushVars, announced>> /\ (pc' = "reindex" => log # <<>>)
    BY <1>1 DEF Reindex
  <2>2. TypeOK'
    BY <2>1, EmptySeq DEF TypeOK, forkVars, logVars, pushVars, Chains
  <2>3. StackIsChain' /\ RevisionIsNumber' /\ LocalsOk' /\ AppendReady'
    BY <2>1 DEF StackIsChain, RevisionIsNumber, LocalsOk, AppendReady, logVars
  <2> QED  BY <2>2, <2>3
<1>2. CASE ReindexBlock
  <2>1. /\ pc = "reindex" /\ Num(head) < Len(log) /\ CanReindex /\ head' = NextLogged
        /\ maxSize' = Num(NextLogged) - LibOf[NextLogged] + 1 /\ Announce(NextLogged)
        /\ UNCHANGED <<undo, revision, index, orphan, fhead, logVars, pc, pushVars>>
    BY <1>2 DEF ReindexBlock
  <2>2. head \in Chains /\ Num(head) \in Nat /\ log \in Seq(Blocks) /\ Len(log) \in Nat
    BY ChainIsSeq, LenProperties DEF TypeOK
  <2>3. NextLogged \in Blocks
    BY <2>1, <2>2, ElementOfSeq DEF NextLogged
  <2>4. maxSize' \in Nat
    BY <2>1, <2>3, LibAssumption, ChainIsSeq DEF Chains
  <2>5. announced' \subseteq Notice
    BY <2>1, <2>3, AnnounceType DEF TypeOK
  <2>6. TypeOK'
    BY <2>1, <2>3, <2>4, <2>5 DEF TypeOK, logVars, pushVars, Chains
  <2>7. StackIsChain' /\ RevisionIsNumber' /\ LocalsOk' /\ AppendReady'
    BY <2>1 DEF StackIsChain, RevisionIsNumber, LocalsOk, AppendReady, logVars
  <2> QED  BY <2>6, <2>7
<1>3. CASE ReindexThrows
  <2>1. /\ pc' = "closed" /\ maxSize' = DefaultSize /\ announced' = {}
        /\ UNCHANGED <<stateVars, index, orphan, fhead, logVars, pushVars>>
    BY <1>3 DEF ReindexThrows
  <2>2. TypeOK'
    BY <2>1, BoundsAssumption DEF TypeOK, stateVars, logVars, pushVars
  <2>3. RevisionIsNumber' /\ LocalsOk' /\ AppendReady'
    BY <2>1 DEF RevisionIsNumber, LocalsOk, AppendReady
  <2> QED  BY <2>1, <2>2, <2>3, SameState
<1>4. CASE ReindexDone
  <2>1. /\ pc = "reindex" /\ revision' = Num(head) /\ ForkStart(log[Len(log)]) /\ pc' = "idle"
        /\ UNCHANGED <<head, undo, maxSize, logVars, pushVars, announced>>
    BY <1>4 DEF ReindexDone
  <2>2. /\ head \in Chains /\ Num(head) \in Nat /\ log \in Seq(Blocks) /\ Len(log) \in Nat
        /\ log # <<>> /\ undo = <<>> /\ Len(undo) = 0
    BY <2>1, ChainIsSeq, LenProperties, EmptySeq DEF TypeOK, RevisionIsNumber
  <2>3. log[Len(log)] \in Blocks
    BY <2>2, EmptySeq, ElementOfSeq
  <2>4. TypeOK'
    BY <2>1, <2>2, <2>3 DEF TypeOK, ForkStart, logVars, pushVars, Chains
  <2>5. LeadsBack(head', undo', revision')
    BY <2>1, <2>2 DEF LeadsBack
  <2>6. StackIsChain' /\ RevisionIsNumber' /\ LocalsOk' /\ AppendReady'
    BY <2>1, <2>5 DEF StackIsChain, RevisionIsNumber, LocalsOk, AppendReady, Num
  <2> QED  BY <2>4, <2>6
<1> QED  BY <1>1, <1>2, <1>3, <1>4

LEMMA StutterInv ==
  ASSUME IInv, UNCHANGED vars
  PROVE  IInv'
<1> USE DEF IInv
<1>1. TypeOK'
  BY DEF TypeOK, vars, stateVars, forkVars, logVars, pushVars
<1>2. RevisionIsNumber' /\ LocalsOk' /\ AppendReady'
  BY DEF RevisionIsNumber, LocalsOk, AppendReady, LogAll, MainBlock, Branches, OnChain,
         vars, stateVars, forkVars, logVars, pushVars, Num, Prefix
<1> QED  BY <1>1, <1>2, SameState DEF vars

LEMMA StepInv ==
  ASSUME IInv, [Next]_vars
  PROVE  IInv'
<1>1. CASE UNCHANGED vars
  BY <1>1, StutterInv
<1>2. CASE \E b \in Blocks : PushDirect(b) \/ PushKept(b) \/ PushSwitch(b) \/ PushThrows(b)
  BY <1>2, PushInv
<1>3. CASE Work
  BY <1>3, PopInv, PopThrowsInv, PoppedInv, ApplyInv, ApplyThrowsInv, AppendBlockInv,
     FlushLogInv, CommitInv, ReindexInv DEF Work
<1>4. CASE Close \/ Crash \/ Open \/ OpenThrows \/ Reindex
  BY <1>4, CloseInv, OpenInv, ReindexInv
<1> QED  BY <1>1, <1>2, <1>3, <1>4 DEF Next

\* The inductive invariant holds in every state of every behaviour.
THEOREM Invariance == Spec => []IInv
<1>1. IInv /\ [Next]_vars => IInv'
  BY StepInv
<1> QED  BY <1>1, InitInv, PTL DEF Spec

\* Every state is well typed; in particular only blocks that the fork
\* database really holds are ever appended to the block log.
THEOREM TypeCorrect == Spec => []TypeOK
  BY Invariance, PTL DEF IInv

\* The undo stack leads back block by block through every push, switch,
\* failure, crash, restart and replay.
THEOREM StackIsChainAlways == Spec => []StackIsChain
  BY Invariance, PTL DEF IInv

(***************************************************************************)
(* The undo limit.                                                         *)
(***************************************************************************)

LEMMA LimitInit == Init => LimitInv
<1> SUFFICES ASSUME Init PROVE LimitInv
  OBVIOUS
<1>1. head = InitChain /\ undo = <<>> /\ Len(undo) = 0 /\ skipUndo = FALSE
  BY EmptySeq DEF Init
<1>2. LibOf[InitChain] \in Nat /\ LibOf[InitChain] <= Num(InitChain) /\ Num(InitChain) \in Nat
  BY InitAssumption, LibAssumption, ChainIsSeq
<1> QED  BY <1>1, <1>2, BoundsAssumption DEF LimitInv

LEMMA LimitStep ==
  ASSUME Checkpoints = {}, IInv, LimitInv, [Next]_vars
  PROVE  LimitInv'
<1>1. /\ head \in Chains /\ Num(head) \in Nat /\ LibOf[head] \in Nat /\ LibOf[head] <= Num(head)
      /\ undo \in Seq(UndoEntry) /\ Len(undo) \in Nat /\ MaxUndo \in Nat \ {0}
  BY ChainIsSeq, LenProperties, LibAssumption, BoundsAssumption DEF IInv, TypeOK
<1>2. ASSUME UNCHANGED stateVars, skipUndo' = FALSE,
             pc' \in {"idle", "pop", "unpop", "apply"} => pc \in {"idle", "pop", "unpop", "apply"}
      PROVE  LimitInv'
  BY <1>2 DEF LimitInv, stateVars, Num
<1>3. ASSUME Len(undo') = 0, skipUndo' = FALSE, head' \in Chains
      PROVE  LimitInv'
  <2>1. LibOf[head'] \in Nat /\ LibOf[head'] <= Num(head') /\ Num(head') \in Nat
    BY <1>3, LibAssumption, ChainIsSeq
  <2> QED  BY <2>1, <1>1, <1>3 DEF LimitInv, Num
<1>4. ASSUME NEW b \in Blocks, PushDirect(b) \/ PushKept(b) \/ PushSwitch(b) \/ PushThrows(b)
      PROVE  LimitInv'
  <2>1. skipUndo' = FALSE
    BY <1>4 DEF PushDirect, PushKept, PushSwitch, PushThrows, SkipsUndoCheck, LimitInv, pushVars
  <2>2. UNCHANGED stateVars /\ pc = "idle"
    BY <1>4 DEF PushDirect, PushKept, PushSwitch, PushThrows, Pushed
  <2> QED  BY <2>1, <2>2, <1>2
<1>5. CASE Pop
  <2>1. skipUndo' = FALSE /\ UNCHANGED pc /\ pc \in {"pop", "unpop"}
    BY <1>5 DEF Pop, pushVars, LimitInv
  <2>2. CASE undo = <<>>
    BY <2>1, <2>2, <1>2, <1>5 DEF Pop
  <2>3. CASE undo # <<>>
    <3>1. /\ head' = Prefix(head, Num(head) - 1) /\ head' \in Chains /\ Num(head') = Num(head) - 1
          /\ Len(undo') = Len(undo) - 1 /\ Num(head)' = Num(head')
      BY <1>5, <2>3, PopState
    <3>2. OnChain(head', head)
      BY <3>1, <1>1 DEF OnChain
    <3>3. LibOf[head'] \in Nat /\ LibOf[head'] <= LibOf[head]
      BY <3>1, <3>2, <1>1, LibAssumption
    <3>4. LibOf[head] <= Num(head) - Len(undo) /\ Len(undo) < MaxUndo
      BY <2>1 DEF LimitInv
    <3> QED  BY <3>1, <3>3, <3>4, <2>1, <1>1 DEF LimitInv
  <2> QED  BY <2>2, <2>3
<1>6. CASE PopThrows
  BY <1>6, <1>2 DEF PopThrows, Return, NoLocals
<1>7. CASE Popped
  <2>1. skipUndo' = FALSE /\ UNCHANGED stateVars /\ pc \in {"pop", "unpop"}
    BY <1>7 DEF Popped, LimitInv
  <2> QED  BY <2>1, <1>2
<1>8. CASE Apply
  <2>1. /\ pc = "apply" /\ HeaderOk(Cur) /\ pc' = "append" /\ skipUndo' = FALSE
        /\ undo' = Append(undo, [to |-> head, rev |-> revision + 1])
    BY <1>8 DEF Apply, Applicable, pushVars, LimitInv
  <2>2. Num(Cur) = Num(head) + 1 /\ revision \in Nat
    BY <2>1, ApplyState DEF IInv, TypeOK
  <2>3. Len(undo') = Len(undo) + 1
    <3>1. [to |-> head, rev |-> revision + 1] \in UndoEntry
      BY <1>1, <2>2 DEF UndoEntry
    <3> QED  BY <3>1, <2>1, <1>1, AppendProperties
  <2>4. Num(Cur) - LibOf[head] < MaxUndo
    BY <2>1 DEF HeaderOk, LimitInv
  <2>5. LibOf[head] <= Num(head) - Len(undo)
    BY <2>1 DEF LimitInv
  <2> QED  BY <2>1, <2>2, <2>3, <2>4, <2>5, <1>1 DEF LimitInv
<1>9. CASE ApplyThrows
  <2>1. UNCHANGED stateVars /\ pc = "apply"
    BY <1>9 DEF ApplyThrows
  <2>2. skipUndo' = FALSE
    BY <1>9 DEF ApplyThrows, Return, NoLocals, pushVars, LimitInv, IInv, TypeOK
  <2> QED  BY <2>1, <2>2, <1>2
<1>10. CASE AppendBlock \/ FlushLog
  <2>1. UNCHANGED stateVars /\ skipUndo' = FALSE /\ pc' \in {"append", "commit"}
    BY <1>10 DEF AppendBlock, FlushLog, pushVars, LimitInv
  <2> QED  BY <2>1, <1>2
<1>11. CASE Commit
  <2>1. /\ pc = "commit" /\ head' = head
        /\ IF PushDone THEN Return(Trimmed, orphan, fhead) ELSE UNCHANGED pushVars
    BY <1>11 DEF Commit
  <2>2. skipUndo' = FALSE
    BY <2>1 DEF Return, NoLocals, pushVars, LimitInv
  <2>3. PICK k \in 0 .. Len(undo) : /\ k < Len(undo) => undo[k + 1].rev > LibOf[head]
                                    /\ undo' = SubSeq(undo, k + 1, Len(undo))
    BY <1>11 DEF Commit
  <2>4. CASE LeadsBack(head, undo, revision)
    <3>1. Len(undo') = Len(undo) - k
      BY <2>3, <2>4, <1>1, CommitStack
    <3>2. k < Len(undo) => undo[k + 1].rev = Num(head) - Len(undo) + (k + 1)
      BY <2>4, <1>1 DEF LeadsBack
    <3>3. LibOf[head] <= Num(head) - Len(undo')
      BY <3>1, <3>2, <2>3, <1>1
    <3>4. Len(undo') < MaxUndo
      BY <3>1, <1>1 DEF LimitInv
    <3> QED  BY <3>3, <3>4, <2>1, <2>2 DEF LimitInv, Num
  <2>5. CASE undo = <<>>
    <3>1. Len(undo) = 0 /\ k = 0
      BY <2>5, EmptySeq, <1>1
    <3>2. undo' = <<>>
      BY <3>1, <2>3, SubSeqEmpty
    <3>3. Len(undo') = 0
      BY <3>2, EmptySeq
    <3> QED  BY <3>3, <2>1, <2>2, <1>1, <1>3
  <2> QED  BY <2>4, <2>5 DEF IInv, StackIsChain
<1>12. CASE Close \/ Crash
  <2>1. UNCHANGED stateVars /\ pc' = "closed" /\ skipUndo' = FALSE
    BY <1>12 DEF Close, Crash, NoLocals, pushVars, LimitInv
  <2> QED  BY <2>1, <1>2
<1>13. CASE Open \/ OpenThrows
  <2>1. undo' = <<>> /\ head' = Base /\ skipUndo' = FALSE
    BY <1>13 DEF Open, OpenThrows, pushVars, LimitInv
  <2> QED  BY <2>1, <1>3, EmptySeq, BaseIsChain
<1>14. CASE Reindex
  <2>1. undo' = <<>> /\ head' \in Chains /\ skipUndo' = FALSE
    BY <1>14 DEF Reindex, Chains, pushVars, LimitInv
  <2> QED  BY <2>1, <1>3, EmptySeq
<1>15. CASE ReindexBlock \/ ReindexThrows \/ ReindexDone
  <2>1. undo' = undo /\ undo = <<>> /\ skipUndo' = FALSE
    BY <1>15 DEF ReindexBlock, ReindexThrows, ReindexDone, pushVars, stateVars, LimitInv, IInv,
                 RevisionIsNumber
  <2>2. head' \in Chains
    BY <1>15, ReindexInv DEF IInv, TypeOK
  <2> QED  BY <2>1, <2>2, <1>3, EmptySeq
<1>16. CASE UNCHANGED vars
  BY <1>16, <1>2 DEF vars, pushVars, LimitInv
<1> QED  BY <1>4, <1>5, <1>6, <1>7, <1>8, <1>9, <1>10, <1>11, <1>12, <1>13, <1>14, <1>15, <1>16
         DEF Next, Work

\* Without checkpoints the undo stack never reaches MAX_UNDO_HISTORY, through
\* switches of forks, restores, restarts and replays.
THEOREM UndoBoundedAlways ==
  ASSUME Checkpoints = {}
  PROVE  Spec => []UndoBounded
<1>1. Init => LimitInv
  BY LimitInit
<1>2. IInv /\ LimitInv /\ [Next]_vars => LimitInv'
  BY LimitStep
<1>3. LimitInv => UndoBounded
  BY DEF LimitInv, UndoBounded
<1> QED  BY <1>1, <1>2, <1>3, Invariance, PTL DEF Spec

(***************************************************************************)
(* The checkpoints.                                                        *)
(***************************************************************************)

\* The least element of a set of numbers.
LEMMA LeastOf ==
  ASSUME NEW T, T \subseteq Nat, T # {}
  PROVE  \E x \in T : \A y \in T : x <= y
<1>1. PICK x \in T : \A y \in T : ~ (<<y, x>> \in OpToRel(<, Nat))
  BY NatLessThanWellFounded, WFMin
<1>2. \A y \in T : ~ (y < x)
  BY <1>1 DEF OpToRel
<1>3. \A y \in T : x <= y
  BY <1>2
<1> QED  BY <1>3

LEMMA VouchedPassed ==
  ASSUME NEW b \in Chains, Vouched(b)
  PROVE  Passed(b)
<1>1. CASE b = <<>>
  <2>1. Num(b) = 0
    BY ChainIsSeq, <1>1
  <2> QED  BY <2>1, ChainIsSeq, CheckpointAssumption DEF Passed, Chains
<1>2. CASE b # <<>>
  <2>1. Num(b) \in 1 .. Num(b) /\ Num(b) \in Nat
    BY <1>2, ChainIsSeq
  <2>2. Reaches(b, Num(b))
    BY <2>1 DEF Reaches
  <2> QED  BY <2>1, <2>2, PrefixFull DEF Vouched
<1> QED  BY <1>1, <1>2

\* What is reached from a block reaches what the block reaches.
LEMMA VouchedPrefix ==
  ASSUME NEW b \in Chains, Vouched(b), NEW n \in 0 .. Num(b), Reaches(b, n)
  PROVE  Vouched(Prefix(b, n))
<1>1. Num(b) \in Nat /\ Num(Prefix(b, n)) = n
  BY ChainIsSeq, PrefixIsChain
<1>2. ASSUME NEW k \in 1 .. n, Reaches(Prefix(b, n), k)
      PROVE  Passed(Prefix(Prefix(b, n), k))
  <2>1. ASSUME NEW m \in k + 1 .. Num(b)
        PROVE  Prefix(b, m) \notin orphan
    <3>1. CASE m <= n
      <4>1. m \in 0 .. n /\ m \in k + 1 .. Num(Prefix(b, n))
        BY <3>1, <1>1
      <4>2. Prefix(Prefix(b, n), m) = Prefix(b, m)
        BY <4>1, PrefixOfPrefix
      <4> QED  BY <4>1, <4>2, <1>2 DEF Reaches
    <3>2. CASE m > n
      <4>1. m \in n + 1 .. Num(b)
        BY <3>2, <1>1
      <4> QED  BY <4>1 DEF Reaches
    <3> QED  BY <3>1, <3>2, <1>1
  <2>2. Reaches(b, k)
    BY <2>1 DEF Reaches
  <2>3. k \in 1 .. Num(b) /\ k \in 0 .. n
    BY <1>1
  <2>4. Prefix(Prefix(b, n), k) = Prefix(b, k)
    BY <2>3, PrefixOfPrefix
  <2> QED  BY <2>2, <2>3, <2>4 DEF Vouched
<1> QED  BY <1>1, <1>2 DEF Vouched

\* A block that passed and builds on a chain that keeps the checkpoints.
LEMMA PassedKeeps ==
  ASSUME NEW b \in Blocks, Passed(b), Prev(b) = head, head \in Chains, CheckpointsHold,
         NEW c \in Checkpoints, Num(b) >= Num(c)
  PROVE  OnChain(c, b)
<1>1. b \in Chains /\ c \in Chains /\ b # <<>> /\ Num(b) \in Nat /\ Num(c) \in Nat /\ Num(c) > 0
  BY CheckpointAssumption, ChainIsSeq DEF Chains
<1>2. CASE Num(c) = Num(b)
  <2>1. c = b
    BY <1>2 DEF Passed
  <2> QED  BY <2>1, <1>1, PrefixFull DEF OnChain
<1>3. CASE Num(c) # Num(b)
  <2>1. Num(head) = Num(b) - 1 /\ \A m \in 0 .. Num(b) - 1 : Prefix(head, m) = Prefix(b, m)
    BY <1>1, PrevIsChain
  <2>2. Num(c) <= Num(head) /\ Num(c) \in 0 .. Num(b) - 1
    BY <2>1, <1>1, <1>3
  <2>3. OnChain(c, head)
    BY <2>2, <2>1, <1>1 DEF CheckpointsHold
  <2> QED  BY <2>1, <2>2, <2>3, <1>1 DEF OnChain
<1> QED  BY <1>2, <1>3

\* The blocks of a chain that keeps the checkpoints passed.
LEMMA PrefixKeeps ==
  ASSUME CheckpointsHold, head \in Chains, NEW n \in 0 .. Num(head)
  PROVE  /\ Passed(Prefix(head, n))
         /\ \A c \in Checkpoints : n >= Num(c) => OnChain(c, Prefix(head, n))
<1>1. Num(head) \in Nat /\ Num(Prefix(head, n)) = n /\ Prefix(head, n) \in Chains
  BY ChainIsSeq, PrefixIsChain
<1>2. ASSUME NEW c \in Checkpoints, n >= Num(c)
      PROVE  OnChain(c, Prefix(head, n)) /\ Num(c) \in Nat
  <2>1. c \in Chains /\ Num(c) \in Nat
    BY CheckpointAssumption, ChainIsSeq DEF Chains
  <2>2. OnChain(c, head)
    BY <1>1, <1>2, <2>1 DEF CheckpointsHold
  <2>3. Num(c) \in 0 .. n
    BY <1>2, <2>1
  <2>4. Prefix(Prefix(head, n), Num(c)) = Prefix(head, Num(c))
    BY <2>3, PrefixOfPrefix
  <2> QED  BY <2>1, <2>2, <2>4, <1>1, <1>2 DEF OnChain
<1>3. ASSUME NEW c \in Checkpoints, Num(c) = n
      PROVE  c = Prefix(head, n)
  <2>1. OnChain(c, Prefix(head, n))
    BY <1>2, <1>3
  <2> QED  BY <2>1, <1>1, <1>3, PrefixFull DEF OnChain
<1> QED  BY <1>1, <1>2, <1>3 DEF Passed

\* A fork database that was started at a block reaches nothing else.
LEMMA StartVouched ==
  ASSUME NEW b \in Chains, Passed(b), orphan' = {b} \ {<<>>}
  PROVE  Vouched(b)'
<1>1. SUFFICES ASSUME NEW k \in 1 .. Num(b), Reaches(b, k)' PROVE Passed(Prefix(b, k))
  BY DEF Vouched, Passed
<1>2. Num(b) \in Nat /\ Prefix(b, Num(b)) = b
  BY ChainIsSeq, PrefixFull
<1>3. CASE k = Num(b)
  BY <1>2, <1>3
<1>4. CASE k < Num(b)
  <2>1. Num(b) \in k + 1 .. Num(b) /\ b # <<>>
    BY <1>2, <1>4, ChainIsSeq
  <2>2. FALSE
    BY <2>1, <1>1, <1>2 DEF Reaches
  <2> QED  BY <2>2
<1> QED  BY <1>2, <1>3, <1>4

\* When a push is over, only what passed is left to be reached.
LEMMA ReturnVouched ==
  ASSUME NEW idx \in SUBSET Blocks, NEW orp, NEW fh \in Chains, Return(idx, orp, fh),
         \A x \in idx \cup {fh} : Passed(x)
  PROVE  \A x \in index' \cup {fhead'} : Vouched(x)'
<1>1. /\ index' = idx /\ fhead' = fh
      /\ orphan' = {b \in idx \cup ({fh} \ {<<>>}) : b \in orp \/ Prev(b) \notin idx \cup {fh}}
  BY DEF Return
<1>2. SUFFICES ASSUME NEW x \in idx \cup {fh}, NEW n \in 1 .. Num(x), Reaches(x, n)'
               PROVE  Passed(Prefix(x, n))
  BY <1>1 DEF Vouched, Passed
<1>3. x \in Chains /\ Num(x) \in Nat
  BY ChainIsSeq DEF Chains
<1> DEFINE T == {m \in Nat : m >= n /\ m <= Num(x) /\ Prefix(x, m) \in idx \cup {fh}}
<1>4. Num(x) \in T
  BY <1>3, PrefixFull
<1>5. T \subseteq Nat /\ T # {}
  BY <1>4
<1>6. PICK m \in T : \A y \in T : m <= y
  BY <1>5, LeastOf
<1>7. CASE m = n
  BY <1>6, <1>7
<1>8. CASE m > n
  <2>1. m \in n + 1 .. Num(x) /\ m \in 0 .. Num(x) /\ m \in Nat /\ m - 1 \in 0 .. m
    BY <1>3, <1>6, <1>8
  <2>2. Prefix(x, m) \notin orphan'
    BY <2>1, <1>2 DEF Reaches
  <2>3. Prefix(x, m) \in Chains /\ Num(Prefix(x, m)) = m /\ Prefix(x, m) # <<>>
    BY <2>1, <1>3, PrefixIsChain, ChainIsSeq
  <2>4. Prev(Prefix(x, m)) \in idx \cup {fh}
    BY <2>2, <2>3, <1>6, <1>1
  <2>5. Prev(Prefix(x, m)) = Prefix(x, m - 1)
    BY <2>1, <2>3, <1>3, PrevIsChain, PrefixOfPrefix
  <2>6. m - 1 \in T
    BY <2>1, <2>4, <2>5, <1>3, <1>8
  <2> QED  BY <2>6, <2>1, <1>6
<1> QED  BY <1>6, <1>7, <1>8, <1>3

\* Steps that leave the chain state, the prev pointers and the log alone.
LEMMA SameLinks ==
  ASSUME UNCHANGED orphan
  PROVE  \A b, n : (Reaches(b, n)' <=> Reaches(b, n)) /\ (Vouched(b)' <=> Vouched(b))
  BY DEF Reaches, Vouched, Passed

LEMMA SameCheckpoints ==
  ASSUME CheckpointsHold, UNCHANGED head
  PROVE  CheckpointsHold'
  BY DEF CheckpointsHold, OnChain, Num, Prefix

LEMMA SameLog ==
  ASSUME \A n \in 1 .. Len(LogAll) : Passed(LogAll[n]), UNCHANGED logVars
  PROVE  (\A n \in 1 .. Len(LogAll) : Passed(LogAll[n]))'
  BY DEF LogAll, Passed, logVars

LEMMA CheckpointInit == Init => CheckpointInv
<1> SUFFICES ASSUME Init PROVE CheckpointInv
  OBVIOUS
<1>1. head = InitChain /\ InitChain \in Chains /\ Num(InitChain) \in Nat
  BY InitAssumption, ChainIsSeq DEF Init
<1>2. CheckpointsHold
  <2>1. ASSUME NEW c \in Checkpoints PROVE c \in Chains /\ Num(c) \in Nat
    BY CheckpointAssumption, ChainIsSeq DEF Chains
  <2> QED  BY <2>1, <1>1, InitAssumption DEF CheckpointsHold
<1>3. ASSUME NEW n \in 0 .. Num(InitChain)
      PROVE  Passed(Prefix(InitChain, n))
  BY <1>1, <1>2, PrefixKeeps
<1>4. Passed(InitChain)
  BY <1>1, <1>3, PrefixFull
<1>5. \A b \in index \cup {fhead} : Vouched(b)
  <2>1. ASSUME NEW b \in index \cup {fhead} PROVE Vouched(b)
    <3>1. b = InitChain
      BY <2>1 DEF Init
    <3> QED  BY <3>1, <1>1, <1>3 DEF Vouched
  <2> QED  BY <2>1
<1>6. \A n \in 1 .. Len(LogAll) : Passed(LogAll[n])
  <2>1. log \in Seq(Blocks) /\ buf = <<>>
    BY InitInv DEF IInv, TypeOK, Init
  <2>2. LogAll = log
    BY <2>1, ConcatEmptySeq DEF LogAll
  <2>3. log = [n \in 1 .. Num(InitChain) |-> Prefix(InitChain, n)]
    BY DEF Init
  <2>4. Len(log) = Num(InitChain)
    BY <2>3, <1>1, IsASeq, <2>1, LenProperties
  <2> QED  BY <2>2, <2>3, <2>4, <1>1, <1>3
<1> QED  BY <1>2, <1>5, <1>6 DEF CheckpointInv, Init

LEMMA CheckpointPush ==
  ASSUME IInv, CheckpointInv, NEW b \in Blocks,
         PushDirect(b) \/ PushKept(b) \/ PushSwitch(b) \/ PushThrows(b)
  PROVE  CheckpointInv'
<1>1. Pushed(b) /\ pc = "idle"
  BY DEF PushDirect, PushKept, PushSwitch, PushThrows, Pushed
<1>2. /\ b \in Chains /\ b # <<>> /\ head \in Chains /\ fhead \in Chains
      /\ Num(b) \in Nat /\ Num(b) > 0
      /\ index \subseteq Blocks /\ index \subseteq Chains
  BY ChainIsSeq DEF IInv, TypeOK, Chains
<1>3. /\ UNCHANGED <<stateVars, maxSize, logVars, announced>>
      /\ index' = Index1(b) /\ orphan' = Orphan1(b) /\ fhead' = Head1(b)
      /\ Accepts(b)
  BY <1>1 DEF Pushed
<1>4. Passed(b) /\ Links(b)
  BY <1>3 DEF Accepts, Passed
<1>5. CheckpointsHold' /\ (\A n \in 1 .. Len(LogAll) : Passed(LogAll[n]))'
  BY <1>3, SameCheckpoints, SameLog DEF CheckpointInv, stateVars
<1>6. ASSUME b \notin index, NEW x \in Chains, NEW n \in Nat, Reaches(x, n)', n < Num(x),
             ~ Reaches(x, n)
      PROVE  /\ Num(b) \in n + 1 .. Num(x) /\ Prefix(x, Num(b)) = b
             /\ Prev(b) \in index /\ orphan \ {b} \subseteq orphan'
  <2>1. PICK m \in n + 1 .. Num(x) : Prefix(x, m) \in orphan /\ Prefix(x, m) \notin orphan'
    BY <1>6 DEF Reaches
  <2>2. orphan \ {b} \subseteq orphan' /\ fhead # <<>> /\ Prev(b) # <<>>
    BY <2>1, <1>3, <1>6 DEF Orphan1
  <2>3. Prefix(x, m) = b /\ m = Num(b)
    BY <2>1, <2>2, <1>6, PrefixIsChain, ChainIsSeq
  <2> QED  BY <2>1, <2>2, <2>3, <1>4 DEF Links
<1>7. ASSUME NEW x \in Chains, Vouched(x) \/ x = b
      PROVE  Vouched(x)'
  <2>1. SUFFICES ASSUME NEW n \in 1 .. Num(x), Reaches(x, n)'
                 PROVE  Passed(Prefix(x, n))
    BY DEF Vouched, Passed
  <2>2. Num(x) \in Nat /\ n \in Nat
    BY ChainIsSeq
  <2>3. CASE n = Num(x)
    <3>1. Prefix(x, n) = x
      BY <2>3, PrefixFull
    <3> QED  BY <3>1, <1>4, <1>7, VouchedPassed
  <2>4. CASE n < Num(x) /\ b \in index
    <3>1. Vouched(x) /\ orphan \subseteq orphan'
      BY <2>4, <1>3, <1>7 DEF CheckpointInv, Orphan1
    <3>2. Reaches(x, n)
      BY <3>1, <2>1 DEF Reaches
    <3> QED  BY <3>1, <3>2, <2>1 DEF Vouched
  <2>5. CASE n < Num(x) /\ b \notin index /\ Reaches(x, n) /\ Vouched(x)
    BY <2>5, <2>1 DEF Vouched
  <2>6. CASE /\ n < Num(x) /\ Num(b) \in n + 1 .. Num(x) /\ Prefix(x, Num(b)) = b
             /\ Prev(b) \in index /\ orphan \ {b} \subseteq orphan'
    <3> DEFINE q == Prev(b)
    <3>1. q \in Chains /\ Num(q) = Num(b) - 1 /\ Vouched(q)
      BY <2>6, <1>2, PrevIsChain DEF CheckpointInv
    <3>2. \A k \in 0 .. Num(q) : Prefix(q, k) = Prefix(x, k)
      <4>1. \A k \in 0 .. Num(b) - 1 : Prefix(q, k) = Prefix(b, k)
        BY <1>2, PrevIsChain
      <4>2. ASSUME NEW k \in 0 .. Num(b) PROVE Prefix(b, k) = Prefix(x, k)
        <5>1. Num(b) \in 0 .. Num(x)
          BY <2>2, <2>6, <1>2
        <5> QED  BY <5>1, <2>6, PrefixOfPrefix
      <4> QED  BY <4>1, <4>2, <3>1, <1>2
    <3>3. n \in 1 .. Num(q) /\ n \in 0 .. Num(q)
      BY <2>2, <2>6, <3>1, <1>2
    <3>4. ASSUME NEW m \in n + 1 .. Num(q) PROVE Prefix(q, m) \notin orphan
      <4>1. m \in n + 1 .. Num(x) /\ m \in 0 .. Num(q) /\ m < Num(b)
        BY <3>1, <2>2, <2>6, <1>2
      <4>2. Prefix(x, m) \notin orphan'
        BY <4>1, <2>1 DEF Reaches
      <4>3. Num(Prefix(x, m)) = m
        BY <4>1, <2>2, PrefixIsChain
      <4> QED  BY <4>1, <4>2, <4>3, <3>2, <2>6, <1>2
    <3>5. Reaches(q, n)
      BY <3>4 DEF Reaches
    <3> QED  BY <3>1, <3>2, <3>3, <3>5 DEF Vouched
  <2>7. CASE n < Num(x) /\ b \notin index /\ Reaches(x, n) /\ x = b
    <3>1. Num(b) \in n + 1 .. Num(x)
      BY <2>2, <2>7
    <3>2. Prefix(x, Num(b)) = b
      BY <2>7, <1>2, PrefixFull
    <3>3. b \notin orphan'
      BY <3>1, <3>2, <2>1 DEF Reaches
    <3>4. orphan \ {b} \subseteq orphan' /\ Prev(b) \in index
      BY <3>3, <2>7, <1>3, <1>4 DEF Orphan1, Links
    <3> QED  BY <3>1, <3>2, <3>4, <2>6, <2>7
  <2>8. CASE n < Num(x) /\ b \notin index /\ ~ Reaches(x, n)
    BY <2>1, <2>2, <2>6, <2>8, <1>6
  <2> QED  BY <2>2, <2>3, <2>4, <2>5, <2>7, <2>8, <1>7
<1>8. \A x \in index' \cup {fhead'} : Vouched(x)'
  BY <1>2, <1>3, <1>7 DEF Index1, Head1, CheckpointInv
<1>9. CASE pc' = "idle"
  BY <1>9, <1>5, <1>8 DEF CheckpointInv
<1>10. CASE PushDirect(b)
  <2>1. pc' = "apply" /\ mode' = "direct" /\ target' = b
    BY <1>10 DEF PushDirect
  <2>2. Passed(target)'
    BY <2>1, <1>4 DEF Passed
  <2> QED  BY <2>1, <2>2, <1>5, <1>8 DEF CheckpointInv
<1>11. CASE PushSwitch(b)
  <2>1. /\ pc' = "pop" /\ mode' = "switch" /\ target' = Head1(b) /\ old' = head
        /\ fork' = ForkPoint(Head1(b), head)
        /\ BranchesFound(Head1(b), head, Index1(b), Orphan1(b))
    BY <1>11 DEF PushSwitch
  <2>2. target' \in index' /\ old' \in index' /\ target' \in Blocks /\ old' \in Blocks
    BY <2>1, <1>2, <1>3 DEF BranchesFound, Index1
  <2>3. fork' \in Nat
    BY <2>1, <2>2, ForkPointExists
  <2>4. /\ \A n \in fork' + 2 .. Num(target') : Prefix(target', n) \notin orphan'
        /\ \A n \in fork' + 2 .. Num(old') : Prefix(old', n) \notin orphan'
    BY <2>1, <1>3 DEF BranchesFound
  <2>5. fork' + 1 + 1 = fork' + 2
    BY <2>3
  <2>6. (\A x \in {target, old} : Vouched(x) /\ Reaches(x, fork + 1))'
    BY <2>2, <2>4, <2>5, <1>8 DEF Reaches, Vouched, Passed, Num, Prefix
  <2> QED  BY <2>1, <2>6, <1>5, <1>8 DEF CheckpointInv
<1> QED  BY <1>1, <1>9, <1>10, <1>11 DEF PushKept, PushThrows

\* The block being applied passed, and in a switch everything behind it.
LEMMA CurPassed ==
  ASSUME IInv, CheckpointInv, pc = "apply"
  PROVE  Passed(Cur) /\ (mode # "direct" => Vouched(Cur))
<1>1. /\ head \in Chains /\ target \in Chains /\ old \in Chains /\ fork \in Nat
      /\ mode \in {"direct", "switch", "restore"}
      /\ Num(head) \in Nat /\ Num(target) \in Nat /\ Num(old) \in Nat
  BY ChainIsSeq DEF IInv, TypeOK
<1>2. CASE mode = "direct"
  BY <1>2, CurType DEF IInv, CheckpointInv
<1>3. ASSUME NEW b \in {target, old}, mode # "direct", Num(head) < Num(b)
      PROVE  Vouched(Prefix(b, Num(head) + 1)) /\ Prefix(b, Num(head) + 1) \in Chains
  <2>1. Vouched(b) /\ Reaches(b, fork + 1) /\ fork <= Num(head)
    BY <1>3 DEF CheckpointInv, IInv, LocalsOk
  <2>2. b \in Chains /\ Num(b) \in Nat
    BY <1>1, <1>3
  <2>3. Num(head) + 1 \in 0 .. Num(b)
    BY <1>1, <1>3, <2>2
  <2>4. \A m \in (Num(head) + 1) + 1 .. Num(b) : m \in (fork + 1) + 1 .. Num(b)
    BY <2>1, <2>2, <1>1
  <2>5. Reaches(b, Num(head) + 1)
    BY <2>1, <2>4 DEF Reaches
  <2> QED  BY <2>1, <2>2, <2>3, <2>5, VouchedPrefix, PrefixIsChain
<1>4. CASE mode # "direct"
  <2>1. Vouched(Cur) /\ Cur \in Chains
    BY <1>1, <1>3, <1>4, CurType DEF IInv, LocalsOk
  <2> QED  BY <2>1, VouchedPassed
<1> QED  BY <1>2, <1>4

\* A step of a push that does not touch the chain state or the log.
LEMMA CheckpointFrame ==
  ASSUME CheckpointInv, UNCHANGED <<head, orphan, target, old, fork>>, index' \subseteq index,
         Vouched(fhead'), UNCHANGED logVars,
         (pc' \in {"pop", "unpop", "apply", "append", "commit"} /\ mode' # "direct") =>
           (pc \in {"pop", "unpop", "apply", "append", "commit"} /\ mode # "direct"),
         pc' = "apply" /\ mode' = "direct" => pc = "apply" /\ mode = "direct"
  PROVE  CheckpointInv'
<1>1. CheckpointsHold' /\ (\A n \in 1 .. Len(LogAll) : Passed(LogAll[n]))'
  BY SameCheckpoints, SameLog DEF CheckpointInv
<1>2. \A b, n : (Reaches(b, n)' <=> Reaches(b, n)) /\ (Vouched(b)' <=> Vouched(b))
  BY SameLinks
<1>3. \A b \in index' \cup {fhead'} : Vouched(b)'
  BY <1>2 DEF CheckpointInv
<1>4. Passed(target)' <=> Passed(target)
  BY DEF Passed, Num
<1>5. /\ Vouched(target)' <=> Vouched(target)
      /\ Vouched(old)' <=> Vouched(old)
      /\ Reaches(target, fork + 1)' <=> Reaches(target, fork + 1)
      /\ Reaches(old, fork + 1)' <=> Reaches(old, fork + 1)
  BY DEF Vouched, Reaches, Passed, Num, Prefix
<1> QED  BY <1>1, <1>3, <1>4, <1>5 DEF CheckpointInv

\* A push that returns or throws.
LEMMA CheckpointReturn ==
  ASSUME IInv, CheckpointInv, CheckpointsHold', UNCHANGED logVars,
         NEW idx \in SUBSET index, NEW fh \in Chains, Passed(fh), Return(idx, orphan, fh)
  PROVE  CheckpointInv'
<1>1. index \subseteq Blocks /\ \A x \in index : Passed(x)
  BY VouchedPassed DEF IInv, TypeOK, CheckpointInv, Chains
<1>2. \A x \in index' \cup {fhead'} : Vouched(x)'
  BY <1>1, ReturnVouched
<1>3. (\A n \in 1 .. Len(LogAll) : Passed(LogAll[n]))'
  BY SameLog DEF CheckpointInv
<1> QED  BY <1>2, <1>3 DEF CheckpointInv, Return

LEMMA CheckpointStep ==
  ASSUME IInv, CheckpointInv, [Next]_vars
  PROVE  CheckpointInv'
<1>1. /\ head \in Chains /\ fhead \in Chains /\ index \subseteq Blocks
      /\ target \in Chains /\ old \in Chains /\ Num(head) \in Nat
      /\ log \in Seq(Blocks) /\ buf \in Seq(Blocks) /\ mode \in {"direct", "switch", "restore"}
  BY ChainIsSeq DEF IInv, TypeOK
<1>2. Vouched(fhead) /\ Passed(fhead)
  BY <1>1, VouchedPassed DEF CheckpointInv
<1>3. ASSUME NEW b \in Blocks, PushDirect(b) \/ PushKept(b) \/ PushSwitch(b) \/ PushThrows(b)
      PROVE  CheckpointInv'
  BY <1>3, CheckpointPush
<1>4. CASE Pop
  <2>1. /\ UNCHANGED <<index, orphan, maxSize, logVars, pc, pushVars, announced>>
        /\ fhead' = Prev(fhead) /\ fhead # <<>> /\ fhead \notin orphan
        /\ pc \in {"pop", "unpop"} /\ mode = "switch"
    BY <1>4 DEF Pop, CanPop, ForkHeadHasPrev, IInv, LocalsOk
  <2>2. /\ Prev(fhead) = Prefix(fhead, Num(fhead) - 1) /\ Num(fhead) \in Nat
        /\ Num(fhead) - 1 \in 0 .. Num(fhead)
    BY <2>1, <1>1, PrevIsChain, ChainIsSeq
  <2>3. Reaches(fhead, Num(fhead) - 1)
    <3>1. \A m \in Num(fhead) - 1 + 1 .. Num(fhead) : m = Num(fhead)
      BY <2>2
    <3> QED  BY <3>1, <2>1, <1>1, PrefixFull DEF Reaches
  <2>4. Vouched(fhead')
    BY <2>1, <2>2, <2>3, <1>1, <1>2, VouchedPrefix
  <2>5. CheckpointsHold'
    <3>1. CASE undo = <<>>
      BY <3>1, <1>4, SameCheckpoints DEF Pop, stateVars, CheckpointInv
    <3>2. CASE undo # <<>>
      <4>1. head' = Prefix(head, Num(head) - 1) /\ Num(head') = Num(head) - 1
            /\ Len(undo) \in Nat \ {0} /\ Len(undo) <= Num(head)
        BY <1>4, <3>2, PopState DEF LeadsBack
      <4>2. Num(head) - 1 \in 0 .. Num(head)
        BY <4>1, <1>1
      <4>3. \A c \in Checkpoints : Num(head') >= Num(c) => OnChain(c, head')
        BY <4>1, <4>2, <1>1, PrefixKeeps DEF CheckpointInv
      <4> QED  BY <4>3 DEF CheckpointsHold, OnChain, Num, Prefix
    <3> QED  BY <3>1, <3>2
  <2>6. (\A n \in 1 .. Len(LogAll) : Passed(LogAll[n]))'
    BY <2>1, SameLog DEF CheckpointInv
  <2>7. \A b, n : (Reaches(b, n)' <=> Reaches(b, n)) /\ (Vouched(b)' <=> Vouched(b))
    BY <2>1, SameLinks
  <2>8. \A b \in index' \cup {fhead'} : Vouched(b)'
    BY <2>1, <2>4, <2>7 DEF CheckpointInv
  <2>9. (\A b \in {target, old} : Vouched(b) /\ Reaches(b, fork + 1))'
    <3>1. \A b \in {target, old} : Vouched(b) /\ Reaches(b, fork + 1)
      BY <2>1 DEF CheckpointInv
    <3> QED  BY <3>1, <2>1, <2>7 DEF pushVars
  <2> QED  BY <2>1, <2>5, <2>6, <2>8, <2>9 DEF CheckpointInv, pushVars
<1>5. CASE PopThrows
  <2>1. Return(index, orphan, fhead) /\ UNCHANGED head /\ UNCHANGED logVars
    BY <1>5 DEF PopThrows, stateVars
  <2>2. CheckpointsHold'
    BY <2>1, SameCheckpoints DEF CheckpointInv
  <2> QED  BY <2>1, <2>2, <1>1, <1>2, CheckpointReturn
<1>6. CASE Popped
  <2>1. /\ UNCHANGED <<head, orphan, target, old, fork>> /\ index' = index /\ fhead' = fhead
        /\ UNCHANGED logVars /\ pc \in {"pop", "unpop"} /\ mode = "switch"
        /\ mode' \in {"switch", "restore"}
    BY <1>6 DEF Popped, stateVars, forkVars, IInv, LocalsOk
  <2> QED  BY <2>1, <1>2, CheckpointFrame
<1>7. CASE Apply
  <2>1. /\ pc = "apply" /\ HeaderOk(Cur) /\ head' = Cur /\ fhead' = CurForkHead /\ pc' = "append"
        /\ UNCHANGED <<index, orphan, maxSize, logVars, pushVars>>
    BY <1>7 DEF Apply, Applicable
  <2>2. Passed(Cur) /\ (mode # "direct" => Vouched(Cur)) /\ Cur \in Blocks
    BY <2>1, CurPassed, CurType DEF IInv
  <2>3. Vouched(fhead')
    BY <2>1, <2>2, <1>1, <1>2, CurType DEF IInv
  <2>4. CheckpointsHold'
    <3>1. \A c \in Checkpoints : Num(Cur) >= Num(c) => OnChain(c, Cur)
      BY <2>1, <2>2, <1>1, PassedKeeps DEF HeaderOk, CheckpointInv
    <3> QED  BY <3>1, <2>1 DEF CheckpointsHold, OnChain, Num, Prefix
  <2>5. (\A n \in 1 .. Len(LogAll) : Passed(LogAll[n]))'
    BY <2>1, SameLog DEF CheckpointInv
  <2>6. \A b, n : (Reaches(b, n)' <=> Reaches(b, n)) /\ (Vouched(b)' <=> Vouched(b))
    BY <2>1, SameLinks
  <2>7. \A b \in index' \cup {fhead'} : Vouched(b)'
    BY <2>1, <2>3, <2>6 DEF CheckpointInv
  <2>8. mode # "direct" => (\A b \in {target, old} : Vouched(b) /\ Reaches(b, fork + 1))'
    <3>1. mode # "direct" => \A b \in {target, old} : Vouched(b) /\ Reaches(b, fork + 1)
      BY <2>1 DEF CheckpointInv
    <3> QED  BY <3>1, <2>1, <2>6 DEF pushVars
  <2> QED  BY <2>1, <2>4, <2>5, <2>7, <2>8 DEF CheckpointInv, pushVars
<1>8. CASE ApplyThrows
  <2>1. pc = "apply" /\ UNCHANGED head /\ UNCHANGED logVars
    BY <1>8 DEF ApplyThrows, stateVars
  <2>2. Passed(Cur) /\ (mode # "direct" => Vouched(Cur)) /\ Cur \in Chains
    BY <2>1, CurPassed, CurType DEF IInv, Chains
  <2>3. CheckpointsHold'
    BY <2>1, SameCheckpoints DEF CheckpointInv
  <2>4. CASE mode = "direct"
    <3>1. Return(index \ {target}, orphan, fhead)
      BY <1>8, <2>4 DEF ApplyThrows
    <3> QED  BY <3>1, <2>1, <2>3, <1>1, <1>2, CheckpointReturn
  <2>5. CASE mode = "restore"
    <3>1. Return(index, orphan, Cur)
      BY <1>8, <2>5 DEF ApplyThrows
    <3> QED  BY <3>1, <2>1, <2>2, <2>3, CheckpointReturn
  <2>6. CASE mode = "switch"
    <3>1. index' \subseteq index /\ fhead' = Cur /\ pc' = "unpop" /\ UNCHANGED <<orphan, pushVars>>
      BY <1>8, <2>6 DEF ApplyThrows
    <3> QED  BY <3>1, <2>1, <2>2, <2>6, CheckpointFrame DEF pushVars
  <2> QED  BY <2>4, <2>5, <2>6, <1>1
<1>9. CASE AppendBlock
  <2>1. /\ pc = "append" /\ Len(LogAll) < LibOf[head]
        /\ buf' = Append(buf, MainBlock(Len(LogAll) + 1, fhead))
        /\ UNCHANGED <<stateVars, forkVars, log, pc, pushVars, announced>>
    BY <1>9 DEF AppendBlock
  <2> DEFINE n1 == Len(LogAll) + 1
             x == MainBlock(n1, fhead)
  <2>2. Len(log) \in Nat /\ Len(buf) \in Nat /\ LogAll \in Seq(Blocks) /\ Len(LogAll) \in Nat
    BY <1>1, ConcatProperties, LenProperties DEF LogAll
  <2>3. x \in Blocks
    <3>1. x # <<>>
      BY <2>1, <2>2, <1>1, LibAssumption DEF IInv, AppendReady
    <3>2. x \in Chains
      BY <2>2, <1>1, MainBlockType
    <3> QED  BY <3>1, <3>2 DEF Chains
  <2>4. Passed(x)
    <3> DEFINE there == {b \in index : Num(b) = n1}
    <3>1. CASE Cardinality(there) = 1
      <4>1. there # {}
        BY <3>1, FS_EmptySet
      <4>2. x = CHOOSE b \in there : TRUE
        BY <3>1 DEF MainBlock
      <4>3. x \in index
        BY <4>1, <4>2
      <4> QED  BY <4>3, <2>3, VouchedPassed DEF CheckpointInv, Chains
    <3>2. CASE Cardinality(there) # 1
      <4>1. /\ n1 <= Num(fhead) /\ x = Prefix(fhead, n1)
            /\ \A m \in n1 + 1 .. Num(fhead) : Prefix(fhead, m) \notin orphan
        BY <3>2, <2>2, <2>3, <1>1, ChainIsSeq DEF MainBlock, Chains
      <4>2. n1 \in 1 .. Num(fhead)
        BY <4>1, <2>2, <1>1, ChainIsSeq
      <4> QED  BY <4>1, <4>2, <1>2 DEF Vouched, Reaches
    <3> QED  BY <3>1, <3>2
  <2>5. LogAll' = Append(LogAll, x)
    BY <2>1, <2>3, <1>1, AppendIsConcat, ConcatAssociative, ConcatProperties DEF LogAll
  <2>6. (\A n \in 1 .. Len(LogAll) : Passed(LogAll[n]))'
    <3> HIDE DEF x
    <3>1. /\ Len(Append(LogAll, x)) = Len(LogAll) + 1
          /\ Append(LogAll, x)[Len(LogAll) + 1] = x
          /\ \A n \in 1 .. Len(LogAll) : Append(LogAll, x)[n] = LogAll[n]
      BY <2>2, <2>3, AppendProperties
    <3>2. \A n \in 1 .. Len(Append(LogAll, x)) : Passed(Append(LogAll, x)[n])
      BY <3>1, <2>2, <2>4 DEF CheckpointInv
    <3> QED  BY <3>2, <2>5 DEF Passed, Num
  <2>7. \A b, n : (Reaches(b, n)' <=> Reaches(b, n)) /\ (Vouched(b)' <=> Vouched(b))
    BY <2>1, SameLinks DEF forkVars
  <2>8. \A b \in index' \cup {fhead'} : Vouched(b)'
    BY <2>1, <2>7 DEF CheckpointInv, forkVars
  <2>9. CheckpointsHold'
    BY <2>1, SameCheckpoints DEF CheckpointInv, stateVars
  <2>10. mode # "direct" => (\A b \in {target, old} : Vouched(b) /\ Reaches(b, fork + 1))'
    <3>1. mode # "direct" => \A b \in {target, old} : Vouched(b) /\ Reaches(b, fork + 1)
      BY <2>1 DEF CheckpointInv
    <3> QED  BY <3>1, <2>1, <2>7 DEF pushVars
  <2> QED  BY <2>1, <2>6, <2>8, <2>9, <2>10 DEF CheckpointInv, pushVars
<1>10. CASE FlushLog
  <2>1. /\ pc = "append" /\ log' = LogAll /\ buf' = <<>> /\ pc' = "commit"
        /\ UNCHANGED <<stateVars, forkVars, pushVars, announced>>
    BY <1>10 DEF FlushLog
  <2>2. LogAll \in Seq(Blocks)
    BY <1>1, ConcatProperties DEF LogAll
  <2>3. LogAll' = LogAll
    <3>1. LogAll \o <<>> = LogAll
      BY <2>2, ConcatEmptySeq
    <3>2. LogAll' = log' \o buf'
      BY DEF LogAll
    <3> QED  BY <3>1, <3>2, <2>1
  <2>4. (\A n \in 1 .. Len(LogAll) : Passed(LogAll[n]))'
    BY <2>3 DEF CheckpointInv, Passed
  <2>5. \A b, n : (Reaches(b, n)' <=> Reaches(b, n)) /\ (Vouched(b)' <=> Vouched(b))
    BY <2>1, SameLinks DEF forkVars
  <2>6. \A b \in index' \cup {fhead'} : Vouched(b)'
    BY <2>1, <2>5 DEF CheckpointInv, forkVars
  <2>7. CheckpointsHold'
    BY <2>1, SameCheckpoints DEF CheckpointInv, stateVars
  <2>8. mode # "direct" => (\A b \in {target, old} : Vouched(b) /\ Reaches(b, fork + 1))'
    <3>1. mode # "direct" => \A b \in {target, old} : Vouched(b) /\ Reaches(b, fork + 1)
      BY <2>1 DEF CheckpointInv
    <3> QED  BY <3>1, <2>1, <2>5 DEF pushVars
  <2> QED  BY <2>1, <2>4, <2>6, <2>7, <2>8 DEF CheckpointInv, pushVars
<1>11. CASE Commit
  <2>1. pc = "commit" /\ UNCHANGED head /\ UNCHANGED logVars
    BY <1>11 DEF Commit
  <2>2. CheckpointsHold'
    BY <2>1, SameCheckpoints DEF CheckpointInv
  <2>3. Trimmed \in SUBSET index
    BY DEF Trimmed
  <2>4. CASE PushDone
    <3>1. Return(Trimmed, orphan, fhead)
      BY <1>11, <2>4 DEF Commit
    <3> QED  BY <3>1, <2>1, <2>2, <2>3, <1>1, <1>2, CheckpointReturn
  <2>5. CASE ~ PushDone
    <3>1. pc' = "apply" /\ index' = Trimmed /\ UNCHANGED <<orphan, fhead, pushVars>>
      BY <1>11, <2>5 DEF Commit
    <3>2. mode # "direct"
      BY <2>5 DEF PushDone
    <3> QED  BY <3>1, <3>2, <2>1, <2>3, <1>2, CheckpointFrame DEF pushVars
  <2> QED  BY <2>4, <2>5
<1>12. CASE Close \/ Crash
  <2>1. pc' = "closed" /\ UNCHANGED head /\ index' = {} /\ orphan' = {} /\ fhead' = <<>>
    BY <1>12 DEF Close, Crash, ForkReset, stateVars
  <2>2. CheckpointsHold'
    BY <2>1, SameCheckpoints DEF CheckpointInv
  <2>3. \A b \in index' \cup {fhead'} : Vouched(b)'
    <3>1. Num(<<>>) = 0
      BY EmptySeq DEF Num
    <3> QED  BY <3>1, <2>1 DEF Vouched
  <2>4. (\A n \in 1 .. Len(LogAll) : Passed(LogAll[n]))'
    <3>1. CASE Close
      BY <3>1, SameLog DEF Close, CheckpointInv
    <3>2. CASE Crash
      <4>1. PICK n \in 0 .. Len(buf) : log' = log \o SubSeq(buf, 1, n)
        BY <3>2 DEF Crash
      <4>2. Len(buf) \in Nat /\ Len(log) \in Nat
        BY <1>1, LenProperties
      <4> DEFINE t == SubSeq(buf, 1, n)
      <4>3. /\ t \in Seq(Blocks) /\ Len(t) = n /\ \A i \in 1 .. n : t[i] = buf[i]
        <5>1. 1 \in 1 .. Len(buf) + 1 /\ n \in 1 - 1 .. Len(buf)
          BY <4>2
        <5>2. /\ t \in Seq(Blocks) /\ Len(t) = n - 1 + 1
              /\ \A i \in 1 .. n - 1 + 1 : t[i] = buf[1 + i - 1]
          BY <5>1, <1>1, SubSeqOfSeq
        <5> QED  BY <5>2, <4>2
      <4> HIDE DEF t
      <4>4. /\ Len(log \o t) = Len(log) + n
            /\ \A i \in 1 .. Len(log) + n :
                 (log \o t)[i] = IF i <= Len(log) THEN log[i] ELSE t[i - Len(log)]
        BY <4>2, <4>3, <1>1, ConcatProperties
      <4>5. /\ Len(LogAll) = Len(log) + Len(buf)
            /\ \A i \in 1 .. Len(log) + Len(buf) :
                 LogAll[i] = IF i <= Len(log) THEN log[i] ELSE buf[i - Len(log)]
        BY <4>2, <1>1, ConcatProperties DEF LogAll
      <4>6. \A i \in 1 .. Len(log \o t) : i \in 1 .. Len(LogAll) /\ (log \o t)[i] = LogAll[i]
        BY <4>2, <4>3, <4>4, <4>5
      <4>7. LogAll' = log \o t
        <5>1. log' = log \o t /\ buf' = <<>>
          BY <4>1, <3>2 DEF Crash, t
        <5>2. log \o t \in Seq(Blocks)
          BY <4>3, <1>1, ConcatProperties
        <5>3. (log \o t) \o <<>> = log \o t
          BY <5>2, ConcatEmptySeq
        <5>4. LogAll' = log' \o buf'
          BY DEF LogAll
        <5> QED  BY <5>1, <5>3, <5>4
      <4>8. \A i \in 1 .. Len(log \o t) : Passed((log \o t)[i])
        BY <4>6 DEF CheckpointInv
      <4> QED  BY <4>7, <4>8 DEF Passed, Num
    <3> QED  BY <3>1, <3>2, <1>12
  <2> QED  BY <2>1, <2>2, <2>3, <2>4 DEF CheckpointInv
<1>13. CASE Open \/ OpenThrows
  <2>1. /\ head' = Base /\ UNCHANGED logVars
        /\ \/ index' = {Base} \ {<<>>} /\ orphan' = {Base} \ {<<>>} /\ fhead' = Base
           \/ UNCHANGED <<index, orphan, fhead>>
        /\ pc' \in {"idle", "closed"}
    BY <1>13 DEF Open, OpenThrows, ForkStart, forkVars
  <2>2. Base \in Chains /\ \E n \in 0 .. Num(head) : Base = Prefix(head, n)
    <3>1. CASE undo = <<>>
      <4>1. Num(head) \in 0 .. Num(head) /\ Base = Prefix(head, Num(head))
        BY <3>1, <1>1, PrefixFull DEF Base
      <4> QED  BY <4>1, BaseIsChain
    <3>2. CASE undo # <<>>
      <4>1. /\ undo \in Seq(UndoEntry) /\ Len(undo) \in Nat \ {0} /\ Base = undo[1].to
            /\ LeadsBack(head, undo, revision)
        BY <3>2, EmptySeq DEF Base, IInv, TypeOK, StackIsChain
      <4>2. Base = Prefix(head, Num(head) - Len(undo)) /\ Len(undo) <= Num(head)
        BY <4>1, <1>1 DEF LeadsBack
      <4>3. Num(head) - Len(undo) \in 0 .. Num(head)
        BY <4>1, <4>2, <1>1
      <4> QED  BY <4>2, <4>3, BaseIsChain
    <3> QED  BY <3>1, <3>2
  <2>3. PICK n \in 0 .. Num(head) : Base = Prefix(head, n)
    BY <2>2
  <2>4. Num(Base) = n /\ n \in Nat /\ Passed(Base) /\ \A c \in Checkpoints : n >= Num(c) => OnChain(c, Base)
    BY <2>3, <1>1, PrefixIsChain, PrefixKeeps DEF CheckpointInv
  <2>5. CheckpointsHold'
    BY <2>1, <2>4 DEF CheckpointsHold, OnChain, Num, Prefix
  <2>6. \A b \in index' \cup {fhead'} : Vouched(b)'
    <3>1. CASE UNCHANGED <<index, orphan, fhead>>
      BY <3>1, SameLinks DEF CheckpointInv
    <3>2. CASE index' = {Base} \ {<<>>} /\ orphan' = {Base} \ {<<>>} /\ fhead' = Base
      <4>1. ASSUME NEW b, b = Base PROVE Vouched(b)'
        BY <4>1, <3>2, <2>2, <2>4, StartVouched
      <4> QED  BY <4>1, <3>2
    <3> QED  BY <3>1, <3>2, <2>1
  <2>7. (\A i \in 1 .. Len(LogAll) : Passed(LogAll[i]))'
    BY <2>1, SameLog DEF CheckpointInv
  <2> QED  BY <2>1, <2>5, <2>6, <2>7 DEF CheckpointInv
<1>14. CASE Reindex \/ ReindexBlock \/ ReindexThrows
  <2>1. /\ UNCHANGED logVars /\ UNCHANGED <<index, orphan, fhead>> /\ pc' \in {"closed", "reindex"}
    BY <1>14 DEF Reindex, ReindexBlock, ReindexThrows, forkVars
  <2>2. (\A n \in 1 .. Len(LogAll) : Passed(LogAll[n]))' /\ \A b \in index' \cup {fhead'} : Vouched(b)'
    BY <2>1, SameLog, SameLinks DEF CheckpointInv
  <2>3. CheckpointsHold'
    <3>1. CASE Reindex
      <4>1. head' = <<>> /\ Num(<<>>) = 0
        BY <3>1, EmptySeq DEF Reindex, Num
      <4>2. \A c \in Checkpoints : Num(c) \in Nat /\ Num(c) > 0
        BY CheckpointAssumption, ChainIsSeq DEF Chains
      <4> QED  BY <4>1, <4>2 DEF CheckpointsHold, Num
    <3>2. CASE ReindexBlock
      <4>1. Num(head) < Len(log) /\ head' = NextLogged /\ Prev(NextLogged) = head
        BY <3>2 DEF ReindexBlock, CanReindex
      <4>2. Len(log) \in Nat /\ Len(buf) \in Nat
        BY <1>1, LenProperties
      <4>3. Num(head) + 1 \in 1 .. Len(log)
        BY <4>1, <4>2, <1>1
      <4>4. NextLogged \in Blocks
        BY <4>3, <1>1, ElementOfSeq DEF NextLogged
      <4>5. Num(head) + 1 \in 1 .. Len(LogAll) /\ LogAll[Num(head) + 1] = NextLogged
        <5>1. /\ Len(LogAll) = Len(log) + Len(buf)
              /\ \A i \in 1 .. Len(log) + Len(buf) :
                   LogAll[i] = IF i <= Len(log) THEN log[i] ELSE buf[i - Len(log)]
          BY <4>2, <1>1, ConcatProperties DEF LogAll
        <5>2. Num(head) + 1 \in 1 .. Len(log) + Len(buf) /\ Num(head) + 1 <= Len(log)
          BY <4>2, <4>3
        <5> QED  BY <5>1, <5>2 DEF NextLogged
      <4>6. Passed(NextLogged)
        BY <4>5 DEF CheckpointInv
      <4>7. \A c \in Checkpoints : Num(NextLogged) >= Num(c) => OnChain(c, NextLogged)
        BY <4>1, <4>4, <4>6, <1>1, PassedKeeps DEF CheckpointInv
      <4> QED  BY <4>1, <4>7 DEF CheckpointsHold, OnChain, Num, Prefix
    <3>3. CASE ReindexThrows
      BY <3>3, SameCheckpoints DEF ReindexThrows, stateVars, CheckpointInv
    <3> QED  BY <3>1, <3>2, <3>3, <1>14
  <2> QED  BY <2>1, <2>2, <2>3 DEF CheckpointInv
<1>15. CASE ReindexDone
  <2>1. /\ UNCHANGED head /\ UNCHANGED logVars /\ pc' = "idle" /\ log # <<>>
        /\ index' = {log[Len(log)]} \ {<<>>} /\ orphan' = {log[Len(log)]} \ {<<>>}
        /\ fhead' = log[Len(log)]
    BY <1>15 DEF ReindexDone, ForkStart, IInv, RevisionIsNumber
  <2> DEFINE last == log[Len(log)]
  <2>2. Len(log) \in Nat /\ Len(log) > 0 /\ Len(buf) \in Nat /\ last \in Blocks
    BY <2>1, <1>1, EmptySeq, LenProperties, ElementOfSeq
  <2>3. Passed(last)
    <3>1. /\ Len(LogAll) = Len(log) + Len(buf)
          /\ \A i \in 1 .. Len(log) + Len(buf) :
               LogAll[i] = IF i <= Len(log) THEN log[i] ELSE buf[i - Len(log)]
      BY <2>2, <1>1, ConcatProperties DEF LogAll
    <3>2. Len(log) \in 1 .. Len(LogAll) /\ LogAll[Len(log)] = last
      BY <3>1, <2>2
    <3> QED  BY <3>2 DEF CheckpointInv
  <2>4. last \in Chains /\ last # <<>> /\ Num(last) \in Nat
    BY <2>2, ChainIsSeq DEF Chains
  <2>6. ASSUME NEW b, b = last PROVE Vouched(b)'
    BY <2>1, <2>3, <2>4, <2>6, StartVouched
  <2>7. \A b \in index' \cup {fhead'} : Vouched(b)'
    BY <2>1, <2>6
  <2>8. CheckpointsHold' /\ (\A n \in 1 .. Len(LogAll) : Passed(LogAll[n]))'
    BY <2>1, SameLog, SameCheckpoints DEF CheckpointInv
  <2> QED  BY <2>1, <2>7, <2>8 DEF CheckpointInv
<1>16. CASE UNCHANGED vars
  BY <1>16, <1>2, CheckpointFrame DEF vars, stateVars, forkVars, pushVars
<1> QED  BY <1>3, <1>4, <1>5, <1>6, <1>7, <1>8, <1>9, <1>10, <1>11, <1>12, <1>13, <1>14, <1>15, <1>16
         DEF Next, Work

\* The chain goes through the operator's checkpoints, whatever branches are
\* pushed, switched to, restored or replayed from the log, although only a
\* block's own number is compared when it enters the fork database.
THEOREM CheckpointsHoldAlways == Spec => []CheckpointsHold
<1>1. Init => CheckpointInv
  BY CheckpointInit
<1>2. IInv /\ CheckpointInv /\ [Next]_vars => CheckpointInv'
  BY CheckpointStep
<1>3. CheckpointInv => CheckpointsHold
  BY DEF CheckpointInv
<1> QED  BY <1>1, <1>2, <1>3, Invariance, PTL DEF Spec

-----------------------------------------------------------------------------
(***************************************************************************)
(* The block log, what is irreversible, failed switches and replays, for   *)
(* any order of pushes, crashes and restarts.                              *)
(***************************************************************************)

(***************************************************************************)
(* Lemmas about chains.                                                    *)
(***************************************************************************)

LEMMA NoEmptyBlock == <<>> \notin Blocks
<1>1. Num(<<>>) = 0 /\ <<>> \in Chains
  BY EmptySeq DEF Num, Chains
<1> QED  BY <1>1, ChainIsSeq

LEMMA OnChainPrefix ==
  ASSUME NEW b \in Chains, NEW n \in 0 .. Num(b)
  PROVE  OnChain(Prefix(b, n), b) /\ Prefix(b, n) \in Chains /\ Num(Prefix(b, n)) = n
<1>1. Prefix(b, n) \in Chains /\ Num(Prefix(b, n)) = n /\ Num(b) \in Nat
  BY PrefixIsChain, ChainIsSeq
<1> QED  BY <1>1 DEF OnChain

LEMMA OnChainSelf ==
  ASSUME NEW b \in Chains
  PROVE  OnChain(b, b)
<1>1. Num(b) \in Nat /\ Prefix(b, Num(b)) = b
  BY ChainIsSeq, PrefixFull
<1> QED  BY <1>1 DEF OnChain

\* The prefixes of an ancestor are the prefixes of the block.
LEMMA OnChainSame ==
  ASSUME NEW a \in Chains, NEW b \in Chains, OnChain(a, b), NEW n \in 0 .. Num(a)
  PROVE  Prefix(a, n) = Prefix(b, n) /\ n \in 0 .. Num(b)
<1>1. Num(a) \in Nat /\ Num(b) \in Nat /\ Num(a) <= Num(b) /\ Prefix(b, Num(a)) = a
  BY ChainIsSeq DEF OnChain
<1>2. Num(a) \in 0 .. Num(b) /\ n \in 0 .. Num(b)
  BY <1>1
<1>3. Prefix(Prefix(b, Num(a)), n) = Prefix(b, n)
  BY <1>2, PrefixOfPrefix
<1> QED  BY <1>1, <1>2, <1>3

LEMMA OnChainEqual ==
  ASSUME NEW a \in Chains, NEW b \in Chains, OnChain(a, b), Num(a) = Num(b)
  PROVE  a = b
  BY PrefixFull DEF OnChain

LEMMA OnChainTrans ==
  ASSUME NEW a \in Chains, NEW b \in Chains, NEW c \in Chains, OnChain(a, b), OnChain(b, c)
  PROVE  OnChain(a, c)
<1>1. /\ Num(a) \in Nat /\ Num(b) \in Nat /\ Num(c) \in Nat
      /\ Num(a) <= Num(b) /\ Num(b) <= Num(c) /\ Prefix(b, Num(a)) = a
  BY ChainIsSeq DEF OnChain
<1>2. Num(a) \in 0 .. Num(b)
  BY <1>1
<1>3. Prefix(b, Num(a)) = Prefix(c, Num(a))
  BY <1>2, OnChainSame
<1>4. Num(a) <= Num(c)
  BY <1>1
<1>5. Prefix(c, Num(a)) = a
  BY <1>1, <1>3, Zenon
<1> QED  BY <1>4, <1>5 DEF OnChain

\* Two ancestors of a block are on one chain.
LEMMA OnChainBoth ==
  ASSUME NEW a \in Chains, NEW b \in Chains, NEW c \in Chains, OnChain(a, c), OnChain(b, c),
         Num(a) <= Num(b)
  PROVE  OnChain(a, b)
<1>1. Num(a) \in Nat /\ Num(b) \in Nat /\ Prefix(c, Num(a)) = a
  BY ChainIsSeq DEF OnChain
<1>2. Num(a) \in 0 .. Num(b)
  BY <1>1
<1>3. Prefix(b, Num(a)) = Prefix(c, Num(a))
  BY <1>2, OnChainSame
<1> QED  BY <1>1, <1>3 DEF OnChain

\* The next block on the way from an ancestor to a block.
LEMMA NextOnChain ==
  ASSUME NEW a \in Chains, NEW b \in Chains, OnChain(a, b), Num(a) < Num(b)
  PROVE  /\ Prefix(b, Num(a) + 1) \in Blocks /\ Num(Prefix(b, Num(a) + 1)) = Num(a) + 1
         /\ Prev(Prefix(b, Num(a) + 1)) = a /\ OnChain(Prefix(b, Num(a) + 1), b)
<1>1. Num(a) \in Nat /\ Num(b) \in Nat /\ Prefix(b, Num(a)) = a
  BY ChainIsSeq DEF OnChain
<1>2. Num(a) + 1 \in 0 .. Num(b) /\ Num(a) + 1 > 0 /\ Num(a) \in 0 .. Num(a) + 1
  BY <1>1
<1> DEFINE c == Prefix(b, Num(a) + 1)
<1>3. c \in Blocks /\ c \in Chains /\ Num(c) = Num(a) + 1 /\ OnChain(c, b)
  BY <1>2, PrefixIsChain, OnChainPrefix
<1>4. Prefix(c, Num(a)) = Prefix(b, Num(a))
  BY <1>2, PrefixOfPrefix
<1>5. Prev(c) = Prefix(c, Num(c) - 1)
  BY DEF Prev, Num
<1>6. Num(c) - 1 = Num(a)
  BY <1>1, <1>3
<1> QED  BY <1>1, <1>3, <1>4, <1>5, <1>6

(***************************************************************************)
(* Blocks that can be applied.                                             *)
(***************************************************************************)

LEMMA SoundPrefix ==
  ASSUME NEW b \in Chains, Sound(b), NEW n \in 0 .. Num(b)
  PROVE  Sound(Prefix(b, n))
<1>1. Num(b) \in Nat /\ Num(Prefix(b, n)) = n
  BY ChainIsSeq, PrefixIsChain
<1>2. ASSUME NEW k \in 1 .. n
      PROVE  Good(Prefix(Prefix(b, n), k))
  <2>1. k \in 0 .. n /\ k \in 1 .. Num(b)
    BY <1>1
  <2>2. Prefix(Prefix(b, n), k) = Prefix(b, k)
    BY <2>1, PrefixOfPrefix
  <2> QED  BY <2>1, <2>2 DEF Sound
<1> QED  BY <1>1, <1>2 DEF Sound

LEMMA SoundOnChain ==
  ASSUME NEW a \in Chains, NEW b \in Chains, OnChain(a, b), Sound(b)
  PROVE  Sound(a)
<1>1. Num(a) \in 0 .. Num(b) /\ Prefix(b, Num(a)) = a
  BY ChainIsSeq DEF OnChain
<1> QED  BY <1>1, SoundPrefix

LEMMA SoundGood ==
  ASSUME NEW b \in Blocks, Sound(b)
  PROVE  Good(b)
<1>1. b \in Chains /\ Num(b) \in 1 .. Num(b)
  BY ChainIsSeq DEF Chains
<1> QED  BY <1>1, PrefixFull DEF Sound

LEMMA SoundNext ==
  ASSUME NEW b \in Blocks, Sound(Prev(b)), Good(b)
  PROVE  Sound(b)
<1>1. b \in Chains /\ b # <<>> /\ Num(b) \in Nat
  BY ChainIsSeq DEF Chains
<1>2. Num(Prev(b)) = Num(b) - 1 /\ \A m \in 0 .. Num(b) - 1 : Prefix(Prev(b), m) = Prefix(b, m)
  BY <1>1, PrevIsChain
<1>3. ASSUME NEW n \in 1 .. Num(b) PROVE Good(Prefix(b, n))
  <2>1. CASE n = Num(b)
    BY <2>1, <1>1, PrefixFull
  <2>2. CASE n # Num(b)
    <3>1. n \in 1 .. Num(Prev(b)) /\ n \in 0 .. Num(b) - 1
      BY <2>2, <1>1, <1>2
    <3> QED  BY <3>1, <1>2 DEF Sound
  <2> QED  BY <2>1, <2>2
<1> QED  BY <1>3 DEF Sound

LEMMA SoundEmpty == Sound(<<>>)
<1>1. Num(<<>>) = 0
  BY EmptySeq DEF Num
<1> QED  BY <1>1 DEF Sound

LEMMA SoundValid ==
  ASSUME NEW b \in Chains, Sound(b)
  PROVE  Valid(b)
  BY DEF Sound, Valid, Good

\* What the network does not contradict it does not contradict in part.
LEMMA FinalPrefix ==
  ASSUME NEW p \in Chains, Final(p), NEW n \in 0 .. Num(p)
  PROVE  Final(Prefix(p, n))
<1> DEFINE q == Prefix(p, n)
<1>1. q \in Chains /\ Num(q) = n /\ OnChain(q, p) /\ Num(p) \in Nat
  BY OnChainPrefix, ChainIsSeq
<1>2. ASSUME NEW b \in Chains, Valid(b)
      PROVE  OnChain(q, b) \/ OnChain(Prefix(b, LibOf[b]), q)
  <2>1. OnChain(p, b) \/ OnChain(Prefix(b, LibOf[b]), p)
    BY <1>2 DEF Final
  <2>2. LibOf[b] \in Nat /\ Num(b) \in Nat /\ LibOf[b] \in 0 .. Num(b)
    BY LibAssumption, ChainIsSeq
  <2> DEFINE l == Prefix(b, LibOf[b])
  <2>3. l \in Chains /\ Num(l) = LibOf[b] /\ OnChain(l, b)
    BY <2>2, OnChainPrefix
  <2> HIDE DEF l, q
  <2>4. CASE OnChain(p, b)
    BY <2>4, <1>1, OnChainTrans
  <2>5. CASE OnChain(l, p)
    <3>1. CASE LibOf[b] <= n
      <4>1. OnChain(l, q)
        BY <3>1, <2>3, <2>5, <1>1, OnChainBoth
      <4> QED  BY <4>1 DEF l
    <3>2. CASE n <= LibOf[b]
      <4>1. OnChain(q, l)
        BY <3>2, <2>3, <2>5, <1>1, OnChainBoth
      <4> QED  BY <4>1, <2>3, <1>1, OnChainTrans
    <3> QED  BY <3>1, <3>2, <2>2
  <2> QED  BY <2>1, <2>4, <2>5 DEF l
<1> QED  BY <1>2 DEF Final

LEMMA LibIsFinal ==
  ASSUME NEW b \in Chains, Sound(b), NEW n \in 0 .. LibOf[b]
  PROVE  Final(Prefix(b, n))
<1>1. LibOf[b] \in Nat /\ Num(b) \in Nat /\ LibOf[b] \in 0 .. Num(b)
  BY LibAssumption, ChainIsSeq
<1>2. Final(Prefix(b, LibOf[b]))
  BY SoundValid, FinalityAssumption
<1>3. Prefix(b, LibOf[b]) \in Chains /\ Num(Prefix(b, LibOf[b])) = LibOf[b]
  BY <1>1, PrefixIsChain
<1>4. Final(Prefix(Prefix(b, LibOf[b]), n))
  BY <1>2, <1>3, FinalPrefix
<1> QED  BY <1>1, <1>4, PrefixOfPrefix

(***************************************************************************)
(* The chain state and where undo_all() leads.                             *)
(***************************************************************************)

LEMMA BaseOnHead ==
  ASSUME IInv
  PROVE  /\ head \in Chains /\ Num(head) \in Nat
         /\ Base \in Chains /\ Num(Base) \in Nat /\ OnChain(Base, head) /\ Num(Base) <= Num(head)
         /\ LeadsBack(head, undo, revision) => Num(Base) = Num(head) - Len(undo)
         /\ undo = <<>> => Base = head
         /\ undo # <<>> => LeadsBack(head, undo, revision) /\ Num(Base) < Num(head)
<1>1. /\ head \in Chains /\ Num(head) \in Nat /\ undo \in Seq(UndoEntry) /\ Len(undo) \in Nat
      /\ undo = <<>> <=> Len(undo) = 0
  BY ChainIsSeq, LenProperties, EmptySeq DEF IInv, TypeOK
<1>2. CASE undo = <<>>
  <2>1. Base = head /\ Len(undo) = 0
    BY <1>1, <1>2 DEF Base
  <2> QED  BY <2>1, <1>1, <1>2, OnChainSelf
<1>3. CASE undo # <<>>
  <2>1. LeadsBack(head, undo, revision) /\ Base = undo[1].to /\ 1 \in 1 .. Len(undo)
    BY <1>1, <1>3 DEF Base, IInv, StackIsChain
  <2>2. Base = Prefix(head, Num(head) - Len(undo) + 1 - 1) /\ Len(undo) <= Num(head)
    BY <2>1 DEF LeadsBack
  <2>3. /\ Num(head) - Len(undo) + 1 - 1 = Num(head) - Len(undo)
        /\ Num(head) - Len(undo) \in 0 .. Num(head) /\ Len(undo) > 0
    BY <2>2, <1>1, <1>3
  <2>4. Base = Prefix(head, Num(head) - Len(undo))
    BY <2>2, <2>3
  <2>5. Base \in Chains /\ Num(Base) = Num(head) - Len(undo) /\ OnChain(Base, head)
    BY <2>3, <2>4, <1>1, OnChainPrefix
  <2> QED  BY <2>1, <2>3, <2>5, <1>1, <1>3
<1> QED  BY <1>2, <1>3

\* The same of the state after a step.
BaseFacts == /\ head \in Chains /\ Num(head) \in Nat
             /\ Base \in Chains /\ Num(Base) \in Nat /\ OnChain(Base, head) /\ Num(Base) <= Num(head)
             /\ LeadsBack(head, undo, revision) => Num(Base) = Num(head) - Len(undo)

LEMMA BaseFactsHold == IInv => BaseFacts
  BY BaseOnHead DEF BaseFacts

LEMMA BaseOnHeadNext == IInv' => BaseFacts'
  BY BaseFactsHold, PTL

LEMMA SameBase ==
  ASSUME UNCHANGED stateVars
  PROVE  Base' = Base /\ head' = head
  BY DEF Base, stateVars

LEMMA PopBase ==
  ASSUME IInv, Pop
  PROVE  Base' = Base /\ head' \in Chains /\ OnChain(head', head) /\ OnChain(Base, head')
         /\ (undo # <<>> => Num(head') = Num(head) - 1)
         /\ (undo = <<>> => head' = head)
<1>1. CASE undo = <<>>
  <2>1. UNCHANGED stateVars
    BY <1>1 DEF Pop
  <2> QED  BY <2>1, <1>1, SameBase, BaseOnHead, OnChainSelf
<1>2. CASE undo # <<>>
  <2>1. /\ undo \in Seq(UndoEntry) /\ Len(undo) \in Nat \ {0}
        /\ undo' \in Seq(UndoEntry) /\ Len(undo') = Len(undo) - 1
        /\ \A k \in 1 .. Len(undo) - 1 : undo'[k] = undo[k]
        /\ head' = Prefix(head, Num(head) - 1) /\ head' \in Chains
        /\ Num(head') = Num(head) - 1 /\ Num(head) \in Nat
    BY <1>2, PopState
  <2>2. head' = undo[Len(undo)].to
    BY <1>2 DEF Pop
  <2>3. Base = undo[1].to
    BY <1>2 DEF Base
  <2>4. Base' = Base
    <3>1. CASE Len(undo) = 1
      <4>1. undo' = <<>>
        BY <3>1, <2>1, EmptySeq
      <4>2. Base' = head'
        BY <4>1 DEF Base
      <4> QED  BY <4>2, <3>1, <2>2, <2>3
    <3>2. CASE Len(undo) > 1
      <4>1. undo' # <<>>
        BY <3>2, <2>1, EmptySeq
      <4>2. Base' = undo'[1].to
        BY <4>1 DEF Base
      <4>3. undo'[1] = undo[1]
        BY <3>2, <2>1
      <4> QED  BY <4>2, <4>3, <2>3
    <3> QED  BY <3>1, <3>2, <2>1
  <2>5. OnChain(head', head)
    <3>1. head \in Chains /\ Num(head) - 1 \in 0 .. Num(head)
      BY <2>1, BaseOnHead, <1>2
    <3> QED  BY <3>1, <2>1, OnChainPrefix
  <2>6. OnChain(Base, head')
    <3>1. Base \in Chains /\ head \in Chains /\ OnChain(Base, head) /\ Num(Base) <= Num(head) - 1
          /\ Num(Base) \in Nat
      BY <1>2, BaseOnHead
    <3> QED  BY <3>1, <2>1, <2>5, OnChainBoth
  <2> QED  BY <2>1, <2>4, <2>5, <2>6, <1>2
<1> QED  BY <1>1, <1>2

LEMMA ApplyBase ==
  ASSUME IInv, Apply
  PROVE  Base' = Base
<1>1. undo' = Append(undo, [to |-> head, rev |-> revision + 1])
  BY DEF Apply
<1>2. undo \in Seq(UndoEntry) /\ Len(undo) \in Nat /\ [to |-> head, rev |-> revision + 1] \in UndoEntry
  BY LenProperties DEF IInv, TypeOK, UndoEntry
<1>3. /\ undo' \in Seq(UndoEntry) /\ Len(undo') = Len(undo) + 1
      /\ undo'[Len(undo) + 1] = [to |-> head, rev |-> revision + 1]
      /\ \A k \in 1 .. Len(undo) : undo'[k] = undo[k]
  BY <1>1, <1>2, AppendProperties
<1>4. undo' # <<>>
  BY <1>2, <1>3, EmptySeq
<1>5. Base' = undo'[1].to
  BY <1>4 DEF Base
<1>6. CASE undo = <<>>
  <2>1. Len(undo) = 0 /\ Base = head
    BY <1>6, EmptySeq DEF Base
  <2> QED  BY <2>1, <1>3, <1>5
<1>7. CASE undo # <<>>
  <2>1. Base = undo[1].to /\ 1 \in 1 .. Len(undo)
    BY <1>2, <1>7, EmptySeq DEF Base
  <2> QED  BY <2>1, <1>3, <1>5
<1> QED  BY <1>6, <1>7

\* Committing moves the base up the chain, to the last irreversible block at
\* least, and no further than that unless it was there already.
LEMMA CommitBase ==
  ASSUME IInv, Commit
  PROVE  /\ head' = head /\ Base' \in Chains /\ Num(Base') \in Nat
         /\ OnChain(Base', head) /\ OnChain(Base, Base')
         /\ Num(Base') >= Num(Base) /\ Num(Base') >= LibOf[head]
         /\ Base' = Base \/ Num(Base') <= LibOf[head]
<1>1. PICK k \in 0 .. Len(undo) :
        /\ \A j \in 1 .. k : undo[j].rev <= LibOf[head]
        /\ k < Len(undo) => undo[k + 1].rev > LibOf[head]
        /\ undo' = SubSeq(undo, k + 1, Len(undo))
  BY DEF Commit
<1>2. head' = head /\ revision' = revision /\ pc = "commit"
  BY DEF Commit
<1>3. /\ undo \in Seq(UndoEntry) /\ Len(undo) \in Nat /\ head \in Chains /\ Num(head) \in Nat
      /\ LibOf[head] \in Nat /\ LibOf[head] <= Num(head)
      /\ undo = <<>> <=> Len(undo) = 0
  BY LenProperties, BaseOnHead, LibAssumption, EmptySeq DEF IInv, TypeOK
<1>4. LeadsBack(head, undo, revision)
  <2>1. CASE undo = <<>>
    BY <2>1, <1>2, <1>3 DEF LeadsBack, IInv, RevisionIsNumber
  <2>2. CASE undo # <<>>
    BY <2>2, BaseOnHead
  <2> QED  BY <2>1, <2>2
<1>5. /\ undo' \in Seq(UndoEntry) /\ Len(undo') = Len(undo) - k
      /\ LeadsBack(head, undo', revision)
  BY <1>1, <1>3, <1>4, CommitStack
<1>6. IInv'
  BY CommitInv
<1>7. /\ Base' \in Chains /\ Num(Base') \in Nat /\ OnChain(Base', head)
      /\ Num(Base') = Num(head) - Len(undo')
  <2>1. /\ head' \in Chains /\ Num(head') \in Nat
        /\ Base' \in Chains /\ Num(Base') \in Nat /\ OnChain(Base', head')
        /\ LeadsBack(head', undo', revision') => Num(Base') = Num(head') - Len(undo')
    BY <1>6, BaseOnHeadNext DEF BaseFacts
  <2> QED  BY <2>1, <1>2, <1>5
<1>8. Num(Base) = Num(head) - Len(undo) /\ Base \in Chains /\ OnChain(Base, head)
  BY <1>4, BaseOnHead
<1>9. Num(Base') = Num(Base) + k
  BY <1>3, <1>5, <1>7, <1>8
<1>10. OnChain(Base, Base')
  <2>1. Num(Base) <= Num(Base') /\ Num(Base) \in Nat
    BY <1>9, <1>8, <1>3, <1>7, ChainIsSeq
  <2> QED  BY <2>1, <1>3, <1>7, <1>8, OnChainBoth
<1>11. Num(Base') >= LibOf[head]
  <2>1. CASE k = Len(undo)
    BY <2>1, <1>3, <1>5, <1>7
  <2>2. CASE k < Len(undo)
    <3>1. undo[k + 1].rev = Num(head) - Len(undo) + (k + 1)
      BY <2>2, <1>3, <1>4 DEF LeadsBack
    <3> QED  BY <3>1, <2>2, <1>1, <1>3, <1>8, <1>9
  <2> QED  BY <2>1, <2>2, <1>3
<1>12. Base' = Base \/ Num(Base') <= LibOf[head]
  <2>1. CASE k = 0
    <3>1. Num(Base') = Num(Base)
      BY <2>1, <1>8, <1>9, ChainIsSeq
    <3> QED  BY <3>1, <1>7, <1>8, <1>10, OnChainEqual
  <2>2. CASE k > 0
    <3>1. undo[k].rev = Num(head) - Len(undo) + k /\ undo[k].rev <= LibOf[head]
      BY <2>2, <1>1, <1>3, <1>4 DEF LeadsBack
    <3> QED  BY <3>1, <1>8, <1>9
  <2> QED  BY <2>1, <2>2, <1>3
<1> QED  BY <1>2, <1>7, <1>8, <1>9, <1>10, <1>11, <1>12, <1>3, ChainIsSeq

(***************************************************************************)
(* The block log.                                                          *)
(***************************************************************************)

LEMMA LogParts ==
  ASSUME IInv
  PROVE  /\ log \in Seq(Blocks) /\ buf \in Seq(Blocks) /\ LogAll \in Seq(Blocks)
         /\ Len(log) \in Nat /\ Len(buf) \in Nat /\ Len(LogAll) = Len(log) + Len(buf)
         /\ \A i \in 1 .. Len(log) + Len(buf) :
              LogAll[i] = IF i <= Len(log) THEN log[i] ELSE buf[i - Len(log)]
<1>1. log \in Seq(Blocks) /\ buf \in Seq(Blocks)
  BY DEF IInv, TypeOK
<1>2. Len(log) \in Nat /\ Len(buf) \in Nat
  BY <1>1, LenProperties
<1> QED  BY <1>1, <1>2, ConcatProperties DEF LogAll

LEMMA NoBuffer ==
  ASSUME IInv, buf = <<>>
  PROVE  LogAll = log
<1>1. log \in Seq(Blocks)
  BY DEF IInv, TypeOK
<1>2. log \o <<>> = log
  BY <1>1, ConcatEmptySeq
<1> QED  BY <1>2 DEF LogAll

\* The blocks of the log are the prefixes of its last one.
LEMMA LogFacts ==
  ASSUME IInv, LogOk
  PROVE  /\ LogTop \in Chains /\ Len(LogAll) \in Nat /\ Num(LogTop) = Len(LogAll)
         /\ LogAll = <<>> <=> Len(LogAll) = 0
         /\ \A b \in Chains : InLog(LogAll, b) <=> OnChain(b, LogTop)
         /\ \A b \in Chains : InLog(log, b) => InLog(LogAll, b)
         /\ \A b \in Chains : InLog(LogAll, b) => Num(b) <= Len(LogAll)
<1>1. LogTop \in Chains /\ Num(LogTop) = Len(LogAll) /\ Num(LogTop) \in Nat
  BY ChainIsSeq DEF LogOk
<1>2. LogAll = <<>> <=> Len(LogAll) = 0
  BY LogParts, EmptySeq
<1>3. ASSUME NEW b \in Chains
      PROVE  InLog(LogAll, b) <=> OnChain(b, LogTop)
  <2>1. Num(b) \in Nat /\ (Num(b) = 0 <=> b = <<>>)
    BY ChainIsSeq
  <2>2. CASE Num(b) = 0
    <3>1. Prefix(LogTop, 0) = <<>>
      BY <1>1, PrefixIsChain, ChainIsSeq
    <3> QED  BY <3>1, <2>1, <2>2, <1>1 DEF InLog, OnChain
  <2>3. CASE Num(b) > 0
    <3>1. Num(b) <= Len(LogAll) => LogAll[Num(b)] = Prefix(LogTop, Num(b))
      BY <2>1, <2>3, <1>1 DEF LogOk
    <3> QED  BY <3>1, <2>3, <1>1 DEF InLog, OnChain
  <2> QED  BY <2>1, <2>2, <2>3
<1>4. ASSUME NEW b \in Chains, InLog(log, b)
      PROVE  InLog(LogAll, b)
  <2>1. Num(b) \in Nat
    BY ChainIsSeq
  <2>2. ASSUME Num(b) > 0 PROVE Num(b) <= Len(LogAll) /\ LogAll[Num(b)] = b
    <3>1. Num(b) <= Len(log) /\ log[Num(b)] = b
      BY <2>2, <1>4 DEF InLog
    <3>2. Num(b) \in 1 .. Len(log) + Len(buf)
      BY <3>1, <2>1, <2>2, LogParts
    <3> QED  BY <3>1, <3>2, LogParts
  <2> QED  BY <2>2 DEF InLog
<1>5. ASSUME NEW b \in Chains, InLog(LogAll, b)
      PROVE  Num(b) <= Len(LogAll)
  BY <1>5, <1>1, ChainIsSeq DEF InLog
<1> QED  BY <1>1, <1>2, <1>3, <1>4, <1>5

\* Nothing a sound block makes irreversible contradicts the log.
LEMMA LibOnLog ==
  ASSUME IInv, LogOk, Sound(head)
  PROVE  /\ LibOf[head] > Len(LogAll) => OnChain(LogTop, head)
         /\ \A n \in 0 .. LibOf[head] :
              n <= Len(LogAll) => Prefix(LogTop, n) = Prefix(head, n)
<1>1. /\ head \in Chains /\ LogTop \in Chains /\ Len(LogAll) \in Nat /\ Num(LogTop) = Len(LogAll)
      /\ Final(LogTop) /\ Num(head) \in Nat
  BY LogFacts, BaseOnHead DEF LogOk
<1>2. LibOf[head] \in 0 .. Num(head) /\ LibOf[head] \in Nat
  BY <1>1, LibAssumption
<1> DEFINE l == Prefix(head, LibOf[head])
<1>3. OnChain(LogTop, head) \/ OnChain(l, LogTop)
  BY <1>1, SoundValid DEF Final
<1>4. l \in Chains /\ Num(l) = LibOf[head] /\ OnChain(l, head)
  BY <1>1, <1>2, OnChainPrefix
<1> HIDE DEF l
<1>5. LibOf[head] > Len(LogAll) => OnChain(LogTop, head)
  BY <1>1, <1>2, <1>3, <1>4 DEF OnChain
<1>6. ASSUME NEW n \in 0 .. LibOf[head], n <= Len(LogAll)
      PROVE  Prefix(LogTop, n) = Prefix(head, n)
  <2>1. n \in 0 .. Num(LogTop) /\ n \in 0 .. Num(l)
    BY <1>1, <1>2, <1>4, <1>6
  <2>2. CASE OnChain(LogTop, head)
    BY <2>1, <2>2, <1>1, OnChainSame
  <2>3. CASE OnChain(l, LogTop)
    <3>1. Prefix(l, n) = Prefix(LogTop, n) /\ Prefix(l, n) = Prefix(head, n)
      BY <2>1, <2>3, <1>1, <1>4, OnChainSame
    <3> QED  BY <3>1, Zenon
  <2> QED  BY <2>2, <2>3, <1>3
<1> QED  BY <1>5, <1>6

\* While the node runs, the base is in the log and what the head makes
\* irreversible was committed.
LEMMA BaseInLog ==
  ASSUME IInv, LogOk, Recoverable, Running
  PROVE  /\ InLog(log, Base) /\ OnChain(Base, LogTop)
         /\ Num(Base) <= Len(LogAll) /\ Num(Base) = Num(head) - Len(undo) /\ Num(Base) \in Nat
<1>1. revision = Num(head) /\ pc \notin {"closed", "reindex"}
  BY DEF IInv, RevisionIsNumber, Running
<1>2. InLog(log, Base) /\ Base \in Chains /\ Num(Base) \in Nat
  BY <1>1, BaseOnHead DEF Recoverable
<1>3. InLog(LogAll, Base) /\ OnChain(Base, LogTop) /\ Num(Base) <= Len(LogAll)
  BY <1>2, LogFacts
<1>4. Num(Base) = Num(head) - Len(undo)
  <2>1. CASE undo = <<>>
    BY <2>1, BaseOnHead, EmptySeq
  <2>2. CASE undo # <<>>
    BY <2>2, BaseOnHead
  <2> QED  BY <2>1, <2>2
<1> QED  BY <1>2, <1>3, <1>4

(***************************************************************************)
(* Applying a block fails only because of the block.                       *)
(***************************************************************************)

\* The block being applied, inside and outside a switch.
LEMMA CurFacts ==
  ASSUME IInv, ChainInv, pc = "apply"
  PROVE  /\ Cur \in Blocks /\ Cur \in Chains /\ CurForkHead \in Blocks /\ CurForkHead \in Chains
         /\ mode # "direct" => /\ CurForkHead = Cur /\ Prev(Cur) = head /\ Num(Cur) = Num(head) + 1
         /\ mode = "direct" => Cur = target /\ CurForkHead = fhead
         /\ mode = "switch" => Cur = Prefix(target, Num(head) + 1) /\ OnChain(Cur, target)
         /\ mode = "restore" => Cur = Prefix(old, Num(head) + 1) /\ OnChain(Cur, old)
         /\ Cur \in index /\ Prev(CurForkHead) = head /\ CurForkHead \in Items
<1>1. /\ head \in Chains /\ target \in Chains /\ old \in Chains /\ fhead \in Chains
      /\ Num(head) \in Nat /\ Num(Base) \in Nat /\ Num(Base) <= Num(head)
      /\ mode \in {"direct", "switch", "restore"} /\ index \subseteq Blocks
  BY BaseOnHead DEF IInv, TypeOK
<1>2. /\ Cur \in Blocks /\ CurForkHead \in Chains
      /\ mode = "direct" => Cur = target /\ CurForkHead = fhead
      /\ mode = "switch" => Cur = Prefix(target, Num(head) + 1) /\ CurForkHead = Cur
      /\ mode = "restore" => Cur = Prefix(old, Num(head) + 1) /\ CurForkHead = Cur
  BY CurType DEF IInv
<1>3. CASE mode = "direct"
  <2>1. fhead # <<>> /\ Prev(fhead) = head /\ target \in index
    BY <1>3 DEF ChainInv, PushOk
  <2> QED  BY <2>1, <1>1, <1>2, <1>3 DEF Items, Chains
<1>4. CASE mode = "switch"
  <2>1. OnChain(head, target) /\ Num(head) < Num(target) /\ fork <= Num(head) /\ fork \in Nat
    BY <1>4 DEF IInv, LocalsOk, TypeOK
  <2>2. Num(Cur) = Num(head) + 1 /\ Prev(Cur) = head /\ OnChain(Cur, target)
    BY <2>1, <1>1, <1>2, <1>4, NextOnChain
  <2>3. Num(head) + 1 \in fork + 1 .. Num(target) /\ Num(head) + 1 >= Num(Base)
    BY <2>1, <1>1, ChainIsSeq
  <2>4. \A n \in fork + 1 .. Num(target) : n >= Num(Base) => Prefix(target, n) \in index
    BY <1>4 DEF ChainInv, PushOk, Busy
  <2>5. Cur \in index
    BY <2>3, <2>4, <1>2, <1>4
  <2> QED  BY <2>2, <2>5, <1>2, <1>4 DEF Items, Chains, Num
<1>5. CASE mode = "restore"
  <2>1. OnChain(head, old) /\ Num(head) < Num(old) /\ fork <= Num(head) /\ fork \in Nat
    BY <1>5 DEF IInv, LocalsOk, TypeOK
  <2>2. Num(Cur) = Num(head) + 1 /\ Prev(Cur) = head /\ OnChain(Cur, old)
    BY <2>1, <1>1, <1>2, <1>5, NextOnChain
  <2>3. Num(head) + 1 \in fork + 1 .. Num(old) /\ Num(head) + 1 >= Num(Base)
    BY <2>1, <1>1, ChainIsSeq
  <2>4. \A n \in fork + 1 .. Num(old) : n >= Num(Base) => Prefix(old, n) \in index
    BY <1>5 DEF ChainInv, PushOk, Busy
  <2>5. Cur \in index
    BY <2>3, <2>4, <1>2, <1>5
  <2> QED  BY <2>2, <2>5, <1>2, <1>5 DEF Items, Chains, Num
<1> QED  BY <1>1, <1>3, <1>4, <1>5

\* migrate_irreversible_state finds every block it has to append: they are
\* on the chain and above the base, where the fork database's tree is whole.
LEMMA MigrateFinds ==
  ASSUME Ordinary, IInv, LimitInv, ChainInv, pc = "apply", HeaderOk(Cur)
  PROVE  MigrateOk(Cur, CurForkHead)
<1> DEFINE fh == CurForkHead
<1>1. /\ Cur \in Blocks /\ Cur \in Chains /\ fh \in Chains /\ fh # <<>> /\ fh \in Items
      /\ Prev(fh) = head /\ Prev(Cur) = head /\ Cur # <<>>
  BY CurFacts, ChainIsSeq DEF HeaderOk, Items
<1>2. /\ Num(fh) = Num(head) + 1 /\ Num(Cur) = Num(head) + 1 /\ head \in Chains /\ Num(head) \in Nat
      /\ \A m \in 0 .. Num(head) : Prefix(fh, m) = Prefix(head, m)
  <2>1. /\ Num(Prev(fh)) = Num(fh) - 1 /\ Num(Prev(Cur)) = Num(Cur) - 1
        /\ Num(fh) \in Nat /\ Num(Cur) \in Nat
        /\ \A m \in 0 .. Num(fh) - 1 : Prefix(Prev(fh), m) = Prefix(fh, m)
    BY <1>1, PrevIsChain, ChainIsSeq
  <2>2. head \in Chains /\ Num(head) \in Nat
    BY BaseOnHead
  <2> HIDE DEF fh
  <2>3. Num(head) = Num(fh) - 1 /\ Num(head) = Num(Cur) - 1
    BY <2>1, <1>1
  <2>4. Num(fh) = Num(head) + 1 /\ Num(Cur) = Num(head) + 1
    BY <2>1, <2>2, <2>3
  <2> QED  BY <2>1, <2>2, <2>3, <2>4, <1>1
<1> HIDE DEF fh
<1>3. /\ Num(Base) \in Nat /\ Num(Base) <= Len(LogAll) /\ Len(LogAll) \in Nat
      /\ Base \in Chains
  BY BaseInLog, LogFacts, BaseOnHead DEF ChainInv, StateOk, Running
<1>4. LibOf[Cur] \in Nat /\ LibOf[Cur] <= Num(head)
  BY <1>1, <1>2, LibAssumption DEF Ordinary
<1>5. ASSUME NEW n \in Len(LogAll) + 1 .. LibOf[Cur]
      PROVE  MainBlock(n, fh) # <<>>
  <2>1. n \in 1 .. Num(head) /\ n > Num(Base) /\ n \in 0 .. Num(head) /\ n \in Nat
    BY <1>2, <1>3, <1>4
  <2>2. \A m \in n .. Num(head) : Prefix(head, m) \in index
    BY <2>1, <1>2, <1>3 DEF ChainInv, TreeOk, Running
  <2>3. head # <<>> /\ fhead # <<>> /\ \A b \in Items : Linked(b)
    BY <2>1, ChainIsSeq, <1>2 DEF ChainInv, TreeOk, Running, Genesis
  <2>4. ASSUME NEW m \in n .. Num(head) PROVE ~ Gone(Prefix(head, m)) /\ Prefix(head, m) # <<>>
    <3>1. m \in 0 .. Num(head) /\ Num(Prefix(head, m)) = m /\ m > Num(Base) /\ m > 0
      BY <2>1, <1>2, <1>3, PrefixIsChain
    <3>2. Sound(Prefix(head, m))
      BY <3>1, <1>2, SoundPrefix DEF ChainInv, StateOk
    <3>3. Prefix(head, m) # <<>>
      BY <3>1, EmptySeq DEF Num
    <3> QED  BY <3>1, <3>2, <3>3, <1>3 DEF Gone
  <2>5. ASSUME NEW m \in n + 1 .. Num(fh) PROVE Prefix(fh, m) \notin orphan
    <3>1. CASE m = Num(fh)
      <4>1. Prefix(fh, m) = fh
        BY <3>1, <1>1, PrefixFull
      <4>2. Num(head) \in n .. Num(head) /\ Prefix(head, Num(head)) = head
        BY <2>1, <1>2, PrefixFull
      <4>3. ~ Gone(Prev(fh)) /\ Prev(fh) # <<>>
        BY <4>2, <2>4, <1>1
      <4> QED  BY <4>1, <4>3, <2>3, <1>1 DEF Linked
    <3>2. CASE m # Num(fh)
      <4>1. m \in n .. Num(head) /\ m - 1 \in n .. Num(head) /\ m \in 0 .. Num(head) /\ m > 0
            /\ m - 1 \in 0 .. m
        BY <3>2, <2>1, <1>2
      <4>2. Prefix(fh, m) = Prefix(head, m)
        BY <4>1, <1>2
      <4> DEFINE x == Prefix(head, m)
      <4>3. x \in index /\ x \in Chains /\ x # <<>> /\ Num(x) = m
        BY <4>1, <2>2, <2>4, <1>2, PrefixIsChain
      <4>4. Prev(x) = Prefix(x, m - 1)
        BY <4>3, PrevIsChain
      <4>5. Prefix(x, m - 1) = Prefix(head, m - 1)
        BY <4>1, <1>2, PrefixOfPrefix
      <4>6. ~ Gone(Prev(x)) /\ Prev(x) # <<>>
        BY <4>1, <4>4, <4>5, <2>4
      <4>7. Linked(x)
        BY <4>3, <2>3 DEF Items
      <4> QED  BY <4>2, <4>6, <4>7 DEF Linked
    <3> QED  BY <3>1, <3>2
  <2>6. Prefix(fh, n) # <<>>
    <3>1. Prefix(fh, n) = Prefix(head, n) /\ n \in n .. Num(head)
      BY <2>1, <1>2
    <3> QED  BY <3>1, <2>4
  <2> DEFINE there == {b \in index : Num(b) = n}
  <2>7. there # {}
    <3>1. Prefix(head, n) \in index /\ Num(Prefix(head, n)) = n
      BY <2>1, <2>2, <1>2, PrefixIsChain
    <3> QED  BY <3>1
  <2>8. (CHOOSE b \in there : TRUE) # <<>>
    <3>1. (CHOOSE b \in there : TRUE) \in Blocks
      BY <2>7 DEF IInv, TypeOK
    <3> QED  BY <3>1, NoEmptyBlock
  <2>9. ~ (n > Num(fh))
    BY <2>1, <1>2
  <2> QED  BY <2>5, <2>6, <2>7, <2>8, <2>9 DEF MainBlock
<1>6. Num(fh) = Num(Cur)
  BY <1>2
<1> QED  BY <1>5, <1>6 DEF MigrateOk, fh

LEMMA Failure ==
  ASSUME Ordinary, IInv, LimitInv, ChainInv, pc = "apply"
  PROVE  /\ Applicable(Cur, CurForkHead) => Good(Cur) /\ Sound(Cur) /\ Prev(Cur) = head
         /\ Prev(Cur) = head /\ Good(Cur) => Applicable(Cur, CurForkHead)
         /\ HeaderOk(Cur) /\ Fate[Cur] = "ok" => Applicable(Cur, CurForkHead)
<1>1. skipUndo = FALSE /\ Cur \in Blocks /\ Sound(head)
  BY CurFacts DEF LimitInv, ChainInv, StateOk
<1>2. HeaderOk(Cur) /\ Fate[Cur] = "ok" => Good(Cur) /\ Prev(Cur) = head
  BY <1>1 DEF HeaderOk, Good
<1>3. Prev(Cur) = head /\ Good(Cur) => HeaderOk(Cur) /\ Fate[Cur] = "ok"
  BY <1>1 DEF HeaderOk, Good
<1>4. Good(Cur) /\ Prev(Cur) = head => Sound(Cur)
  BY <1>1, SoundNext
<1> QED  BY <1>2, <1>3, <1>4, MigrateFinds DEF Applicable

\* What is appended to the log is the chain's own block, although
\* fetch_block_on_main_branch_by_number takes a block that is alone at its
\* height from any branch.
LEMMA AppendsOwn ==
  ASSUME Ordinary, IInv, ChainInv, pc = "append", NEW n \in Len(LogAll) + 1 .. LibOf[head]
  PROVE  MainBlock(n, fhead) = Prefix(head, n) /\ n \in 1 .. Num(head) - 1
<1>1. /\ head \in Chains /\ Num(head) \in Nat /\ Num(Base) \in Nat
      /\ Num(Base) <= Len(LogAll) /\ Len(LogAll) \in Nat /\ index \subseteq Blocks /\ fhead \in Chains
  BY BaseInLog, LogFacts, BaseOnHead DEF ChainInv, StateOk, Running, IInv, TypeOK
<1>2. LibOf[head] \in Nat /\ LibOf[head] <= Num(head) /\ (head # <<>> => LibOf[head] < Num(head))
  BY <1>1, LibAssumption DEF Ordinary, Chains
<1>3. head # <<>>
  BY <1>1, <1>2, ChainIsSeq
<1>4. n \in 1 .. Num(head) - 1 /\ n \in 1 .. Num(head) /\ n >= Num(Base) /\ n \in 0 .. Num(head) - 1 /\ n \in Nat
  BY <1>1, <1>2, <1>3
<1>5. Prefix(head, n) \in index /\ Num(Prefix(head, n)) = n
  BY <1>1, <1>4, PrefixIsChain DEF ChainInv, TreeOk, Running
<1>6. fhead # <<>> /\ Num(fhead) = Num(head) /\ Prev(fhead) = Prev(head)
  BY DEF ChainInv, PushOk
<1>7. Prefix(fhead, n) = Prefix(head, n)
  <2>1. Prefix(Prev(fhead), n) = Prefix(fhead, n) /\ Prefix(Prev(head), n) = Prefix(head, n)
    BY <1>1, <1>3, <1>4, <1>6, PrevIsChain
  <2> QED  BY <2>1, <1>6
<1> DEFINE there == {b \in index : Num(b) = n}
<1>8. CASE Cardinality(there) = 1
  <2>1. Prefix(head, n) \in there
    BY <1>5
  <2>2. IsFiniteSet(there)
    BY FS_Subset DEF ChainInv, TreeOk
  <2>3. \E x : there = {x}
    BY <2>2, <1>8, FS_Singleton
  <2>4. (CHOOSE b \in there : TRUE) = Prefix(head, n)
    BY <2>1, <2>3
  <2> QED  BY <2>4, <1>4, <1>8 DEF MainBlock
<1>9. CASE Cardinality(there) # 1
  <2>1. MainBlock(n, fhead) # <<>>
    BY DEF IInv, AppendReady
  <2> QED  BY <2>1, <1>4, <1>7, <1>9 DEF MainBlock
<1> QED  BY <1>8, <1>9

(***************************************************************************)
(* Every action preserves what is known of the block log.                  *)
(***************************************************************************)

LEMMA LogOkFrom ==
  ASSUME NEW t \in Chains, NEW l \in Seq(Blocks), LogAll' = l, Num(t) = Len(l),
         \A n \in 1 .. Len(l) : l[n] = Prefix(t, n),
         Sound(t), Final(t), pc' # "append" => buf' = <<>>
  PROVE  LogOk' /\ LogTop' = t
<1>1. Num(t) \in Nat /\ (Num(t) = 0 <=> t = <<>>) /\ (l = <<>> <=> Len(l) = 0)
  BY ChainIsSeq, EmptySeq
<1>2. LogTop' = t
  <2>1. CASE l = <<>>
    BY <2>1, <1>1 DEF LogTop
  <2>2. CASE l # <<>>
    <3>1. Len(l) \in 1 .. Len(l)
      BY <2>2, <1>1
    <3>2. l[Len(l)] = t
      BY <3>1, PrefixFull
    <3> QED  BY <3>2, <2>2 DEF LogTop
  <2> QED  BY <2>1, <2>2
<1> QED  BY <1>2 DEF LogOk

LEMMA LogKept ==
  ASSUME IInv, LogOk, UNCHANGED logVars, pc = "append" => pc' = "append"
  PROVE  LogOk' /\ LogTop' = LogTop /\ LogAll' = LogAll
  BY DEF LogOk, LogTop, LogAll, logVars

LEMMA AppendedLog ==
  ASSUME Ordinary, IInv, ChainInv, AppendBlock
  PROVE  LogOk' /\ Len(LogAll') = Len(LogAll) + 1
<1>1. /\ pc = "append" /\ Len(LogAll) < LibOf[head]
      /\ buf' = Append(buf, MainBlock(Len(LogAll) + 1, fhead))
      /\ UNCHANGED <<log, pc>>
  BY DEF AppendBlock
<1>2. /\ log \in Seq(Blocks) /\ buf \in Seq(Blocks) /\ LogAll \in Seq(Blocks)
      /\ Len(LogAll) \in Nat /\ head \in Chains /\ Num(head) \in Nat /\ LibOf[head] \in Nat
      /\ LogTop \in Chains /\ Num(LogTop) = Len(LogAll) /\ LibOf[head] <= Num(head)
  BY LogParts, LogFacts, BaseOnHead, LibAssumption DEF ChainInv
<1> DEFINE n1 == Len(LogAll) + 1
           x == Prefix(head, n1)
           l == Append(LogAll, x)
<1>3. n1 \in Len(LogAll) + 1 .. LibOf[head]
  BY <1>1, <1>2
<1>4. MainBlock(n1, fhead) = x /\ n1 \in 0 .. Num(head) /\ n1 > 0
  BY <1>1, <1>2, <1>3, AppendsOwn
<1>5. x \in Blocks /\ x \in Chains /\ Num(x) = n1 /\ OnChain(x, head)
  BY <1>2, <1>4, PrefixIsChain, OnChainPrefix
<1>6. LogAll' = l
  <2>1. buf' = Append(buf, x) /\ log' = log
    BY <1>1, <1>4
  <2> HIDE DEF x
  <2> QED  BY <2>1, <1>2, <1>5, AppendIsConcat, ConcatAssociative, ConcatProperties DEF LogAll
<1>7. OnChain(LogTop, head)
  BY <1>1, <1>2, LibOnLog DEF ChainInv, StateOk
<1>8. Num(LogTop) \in Nat /\ Num(LogTop) <= Num(x)
  BY <1>2, <1>5
<1>9. OnChain(LogTop, x)
  BY <1>2, <1>5, <1>7, <1>8, OnChainBoth
<1>10. Sound(x) /\ Final(x)
  <2>1. Sound(head) /\ n1 \in 0 .. LibOf[head]
    BY <1>2, <1>3 DEF ChainInv, StateOk
  <2> QED  BY <2>1, <1>2, <1>4, SoundPrefix, LibIsFinal
<1>11. \A n \in 1 .. Len(LogAll) : LogAll[n] = Prefix(x, n)
  <2> SUFFICES ASSUME NEW n \in 1 .. Len(LogAll) PROVE LogAll[n] = Prefix(x, n)
    OBVIOUS
  <2>1. LogAll[n] = Prefix(LogTop, n) /\ n \in 0 .. Num(LogTop)
    BY <1>2 DEF ChainInv, LogOk
  <2> HIDE DEF x
  <2>2. Prefix(LogTop, n) = Prefix(x, n)
    BY <2>1, <1>2, <1>5, <1>9, OnChainSame
  <2> QED  BY <2>1, <2>2
<1>12. Prefix(x, n1) = x
  BY <1>5, PrefixFull
<1> HIDE DEF x
<1>13. /\ l \in Seq(Blocks) /\ Len(l) = n1 /\ l[n1] = x
       /\ \A n \in 1 .. Len(LogAll) : l[n] = LogAll[n]
  BY <1>2, <1>5, AppendProperties
<1> HIDE DEF l
<1>14. ASSUME NEW n \in 1 .. Len(l) PROVE l[n] = Prefix(x, n)
  <2>1. CASE n = n1
    BY <2>1, <1>12, <1>13
  <2>2. CASE n # n1
    <3>1. n \in 1 .. Len(LogAll)
      BY <2>2, <1>2, <1>13
    <3> QED  BY <3>1, <1>11, <1>13
  <2> QED  BY <2>1, <2>2
<1>15. pc' = "append"
  BY <1>1
<1> QED  BY <1>5, <1>6, <1>10, <1>13, <1>14, <1>15, LogOkFrom

LEMMA FlushedLog ==
  ASSUME IInv, LogOk, FlushLog
  PROVE  LogOk' /\ LogAll' = LogAll /\ LogTop' = LogTop /\ log' = LogAll
<1>1. log' = LogAll /\ buf' = <<>>
  BY DEF FlushLog
<1>2. LogAll \o <<>> = LogAll
  BY LogParts, ConcatEmptySeq
<1>3. LogAll' = log' \o buf'
  BY DEF LogAll
<1>4. LogAll' = LogAll
  BY <1>1, <1>2, <1>3
<1> QED  BY <1>1, <1>4 DEF LogOk, LogTop

\* What a crash leaves of the log is a part of the same chain.
LEMMA CrashedLog ==
  ASSUME IInv, LogOk, Crash
  PROVE  /\ LogOk' /\ LogAll' = log' /\ Len(log') >= Len(log)
         /\ \A n \in 1 .. Len(log) : log'[n] = log[n]
<1>1. PICK n \in 0 .. Len(buf) : log' = log \o SubSeq(buf, 1, n)
  BY DEF Crash
<1>2. /\ log \in Seq(Blocks) /\ buf \in Seq(Blocks) /\ Len(buf) \in Nat /\ Len(log) \in Nat
      /\ Len(LogAll) = Len(log) + Len(buf) /\ LogTop \in Chains /\ Num(LogTop) = Len(LogAll)
      /\ \A i \in 1 .. Len(log) + Len(buf) :
           LogAll[i] = IF i <= Len(log) THEN log[i] ELSE buf[i - Len(log)]
  BY LogParts, LogFacts
<1> DEFINE t == SubSeq(buf, 1, n)
<1>3. /\ t \in Seq(Blocks) /\ Len(t) = n /\ \A i \in 1 .. n : t[i] = buf[i]
  <2>1. 1 \in 1 .. Len(buf) + 1 /\ n \in 1 - 1 .. Len(buf)
    BY <1>2
  <2>2. /\ t \in Seq(Blocks) /\ Len(t) = n - 1 + 1
        /\ \A i \in 1 .. n - 1 + 1 : t[i] = buf[1 + i - 1]
    BY <2>1, <1>2, SubSeqOfSeq
  <2> QED  BY <2>2, <1>2
<1>4. log' = log \o t /\ buf' = <<>>
  BY <1>1 DEF Crash
<1> HIDE DEF t
<1> DEFINE l == log \o t
<1>5. /\ l \in Seq(Blocks) /\ Len(l) = Len(log) + n
      /\ \A i \in 1 .. Len(log) + n : l[i] = IF i <= Len(log) THEN log[i] ELSE t[i - Len(log)]
  <2>1. log \in Seq(Blocks) /\ t \in Seq(Blocks) /\ Len(t) = n
    BY <1>2, <1>3
  <2>2. l \in Seq(Blocks)
    BY <2>1, ConcatProperties
  <2>3. /\ Len(log \o t) = Len(log) + n
        /\ \A i \in 1 .. Len(log) + n :
             (log \o t)[i] = IF i <= Len(log) THEN log[i] ELSE t[i - Len(log)]
    BY <2>1, ConcatProperties
  <2> QED  BY <2>2, <2>3
<1>6. LogAll' = l
  <2>1. l \o <<>> = l
    BY <1>5, ConcatEmptySeq
  <2>2. LogAll' = log' \o buf'
    BY DEF LogAll
  <2> QED  BY <2>1, <2>2, <1>4
<1>7. log' = l
  BY <1>4
<1> HIDE DEF l
<1>8. ASSUME NEW i \in 1 .. Len(l) PROVE i \in 1 .. Len(LogAll) /\ l[i] = LogAll[i]
  <2>1. i \in 1 .. Len(log) + n /\ i \in 1 .. Len(log) + Len(buf) /\ i \in 1 .. Len(LogAll)
    BY <1>2, <1>5
  <2>2. CASE i <= Len(log)
    BY <2>1, <2>2, <1>2, <1>5
  <2>3. CASE ~ (i <= Len(log))
    <3>1. i - Len(log) \in 1 .. n
      BY <2>1, <2>3, <1>2
    <3> QED  BY <2>1, <2>3, <3>1, <1>2, <1>3, <1>5
  <2> QED  BY <2>2, <2>3
<1>9. Len(l) \in 0 .. Num(LogTop)
  BY <1>2, <1>5
<1> DEFINE p == Prefix(LogTop, Len(l))
<1>10. p \in Chains /\ Num(p) = Len(l) /\ Sound(p) /\ Final(p)
  BY <1>2, <1>9, PrefixIsChain, SoundPrefix, FinalPrefix DEF LogOk
<1>11. ASSUME NEW i \in 1 .. Len(l) PROVE l[i] = Prefix(p, i)
  <2>1. l[i] = Prefix(LogTop, i)
    BY <1>8 DEF LogOk
  <2>2. i \in 0 .. Len(l)
    BY <1>9
  <2>3. Prefix(p, i) = Prefix(LogTop, i)
    BY <2>2, <1>2, <1>9, PrefixOfPrefix
  <2> QED  BY <2>1, <2>3
<1> HIDE DEF p
<1>12. LogOk'
  BY <1>4, <1>5, <1>6, <1>10, <1>11, LogOkFrom
<1>13. Len(l) >= Len(log) /\ \A i \in 1 .. Len(log) : l[i] = log[i]
  BY <1>2, <1>5
<1> QED  BY <1>6, <1>7, <1>12, <1>13

LEMMA LogStep ==
  ASSUME Ordinary, IInv, ChainInv, [Next]_vars
  PROVE  LogOk'
<1>1. LogOk
  BY DEF ChainInv
<1>2. CASE AppendBlock
  BY <1>2, AppendedLog
<1>3. CASE FlushLog
  BY <1>1, <1>3, FlushedLog
<1>4. CASE Crash
  BY <1>1, <1>4, CrashedLog
<1>5. CASE UNCHANGED logVars /\ (pc = "append" => pc' = "append")
  BY <1>1, <1>5, LogKept
<1>6. ASSUME NEW b \in Blocks, PushDirect(b) \/ PushKept(b) \/ PushSwitch(b) \/ PushThrows(b)
      PROVE  UNCHANGED logVars /\ pc # "append"
  BY <1>6 DEF PushDirect, PushKept, PushSwitch, PushThrows, Pushed
<1>7. CASE Pop \/ PopThrows \/ Popped \/ Apply \/ ApplyThrows \/ Commit
  BY <1>5, <1>7 DEF Pop, PopThrows, Popped, Apply, ApplyThrows, Commit
<1>8. CASE ReindexBlock \/ ReindexThrows \/ ReindexDone
  BY <1>5, <1>8 DEF ReindexBlock, ReindexThrows, ReindexDone
<1>9. CASE Close \/ Open \/ OpenThrows \/ Reindex
  BY <1>5, <1>9 DEF Close, Open, OpenThrows, Reindex
<1>10. CASE UNCHANGED vars
  BY <1>5, <1>10 DEF vars
<1> QED  BY <1>2, <1>3, <1>4, <1>5, <1>6, <1>7, <1>8, <1>9, <1>10 DEF Next, Work

(***************************************************************************)
(* Every action preserves what is known of the chain state.                *)
(***************************************************************************)

\* What the head makes irreversible is in the log, except while it is being
\* appended: it was committed, and what was committed is in the log.
LibLogged == pc \in {"idle", "pop", "unpop", "apply"} => LibOf[head] <= Len(LogAll)

LEMMA LibLoggedHolds == IInv /\ LimitInv /\ LogOk /\ Recoverable => LibLogged
<1> SUFFICES ASSUME IInv, LimitInv, LogOk, Recoverable, pc \in {"idle", "pop", "unpop", "apply"}
             PROVE  LibOf[head] <= Len(LogAll)
  BY DEF LibLogged
<1>1. Running
  BY DEF Running
<1>2. /\ Num(Base) <= Len(LogAll) /\ Num(Base) = Num(head) - Len(undo) /\ Num(Base) \in Nat
      /\ Len(LogAll) \in Nat
  BY <1>1, BaseInLog, LogFacts
<1>3. LibOf[head] <= Num(head) - Len(undo) /\ LibOf[head] \in Nat
  BY BaseOnHead, LibAssumption DEF LimitInv
<1> QED  BY <1>2, <1>3

LEMMA LibLoggedNext == (IInv /\ LimitInv /\ LogOk /\ Recoverable)' => LibLogged'
  BY LibLoggedHolds, PTL

LEMMA StateOkFrom ==
  ASSUME IInv', LimitInv', LogOk', Sound(head'), Recoverable',
         pc' = "commit" => LibOf[head'] <= Len(LogAll'),
         pc' = "reindex" => OnChain(head', LogTop')
  PROVE  StateOk'
<1>1. LibLogged'
  BY LibLoggedNext
<1> QED  BY <1>1 DEF StateOk, LibLogged

LEMMA StateStep ==
  ASSUME Ordinary, IInv, LimitInv, ChainInv, [Next]_vars
  PROVE  StateOk'
<1>1. IInv' /\ LimitInv' /\ LogOk' /\ LogOk
  BY StepInv, LimitStep, LogStep DEF Ordinary, ChainInv
<1>2. /\ Sound(head) /\ Recoverable /\ head \in Chains /\ Num(head) \in Nat
      /\ pc = "commit" => LibOf[head] <= Len(LogAll)
      /\ pc = "reindex" => OnChain(head, LogTop)
      /\ Base \in Chains /\ OnChain(Base, head) /\ Num(Base) \in Nat
  BY BaseOnHead DEF ChainInv, StateOk
<1>3. CASE /\ UNCHANGED stateVars /\ UNCHANGED logVars
           /\ pc' = "commit" => pc = "commit"
           /\ pc' = "reindex" => pc = "reindex"
  <2>1. head' = head /\ Base' = Base /\ revision' = revision /\ log' = log
    BY <1>3, SameBase DEF stateVars, logVars
  <2>2. LogAll' = LogAll /\ LogTop' = LogTop
    BY <1>3 DEF LogTop, LogAll, logVars
  <2>3. Recoverable'
    BY <2>1, <1>2 DEF Recoverable
  <2> QED  BY <2>1, <2>2, <2>3, <1>1, <1>2, <1>3, StateOkFrom
<1>4. CASE Pop
  <2>1. /\ Base' = Base /\ head' \in Chains /\ OnChain(head', head)
        /\ pc' = pc /\ pc \in {"pop", "unpop"} /\ log' = log
    BY <1>4, PopBase DEF Pop, logVars
  <2>2. Sound(head')
    BY <2>1, <1>2, SoundOnChain
  <2>3. Recoverable'
    <3>1. InLog(log, Base)
      BY <2>1, <1>1, <1>2, BaseInLog DEF Running
    <3> QED  BY <3>1, <2>1 DEF Recoverable
  <2> QED  BY <2>1, <2>2, <2>3, <1>1, StateOkFrom
<1>5. CASE Apply
  <2>1. /\ Base' = Base /\ head' = Cur /\ pc = "apply" /\ pc' = "append" /\ log' = log
        /\ Applicable(Cur, CurForkHead)
    BY <1>5, ApplyBase DEF Apply, logVars
  <2>2. Sound(head')
    BY <2>1, Failure
  <2>3. Recoverable'
    <3>1. InLog(log, Base)
      BY <2>1, <1>1, <1>2, BaseInLog DEF Running
    <3> QED  BY <3>1, <2>1 DEF Recoverable
  <2> QED  BY <2>1, <2>2, <2>3, <1>1, StateOkFrom
<1>6. CASE AppendBlock
  <2>1. UNCHANGED stateVars /\ log' = log /\ pc' = "append" /\ revision' = revision
    BY <1>6 DEF AppendBlock, stateVars
  <2>2. Base' = Base /\ head' = head
    BY <2>1, SameBase
  <2>3. Recoverable'
    BY <2>1, <2>2, <1>2 DEF Recoverable
  <2> QED  BY <2>1, <2>2, <2>3, <1>1, <1>2, StateOkFrom
<1>7. CASE FlushLog
  <2>1. /\ UNCHANGED stateVars /\ log' = LogAll /\ pc' = "commit" /\ revision' = revision
        /\ Len(LogAll) >= LibOf[head] /\ LogAll' = LogAll
    BY <1>1, <1>7, FlushedLog DEF FlushLog, stateVars
  <2>2. Base' = Base /\ head' = head
    BY <2>1, SameBase
  <2>3. Recoverable'
    BY <2>1, <2>2, <1>1, <1>2, LogFacts DEF Recoverable
  <2>4. LibOf[head'] <= Len(LogAll')
    BY <2>1, <2>2, <1>1, <1>2, LogFacts, LibAssumption
  <2> QED  BY <2>1, <2>2, <2>3, <2>4, <1>1, <1>2, StateOkFrom
<1>8. CASE Commit
  <2>1. /\ head' = head /\ Base' \in Chains /\ Num(Base') \in Nat /\ OnChain(Base', head)
        /\ Base' = Base \/ Num(Base') <= LibOf[head]
        /\ pc = "commit" /\ pc' # "commit" /\ pc' # "reindex" /\ log' = log /\ revision' = revision
    BY <1>8, CommitBase DEF Commit, Return, logVars
  <2>2. InLog(log, Base')
    <3>1. CASE Base' = Base
      BY <3>1, <2>1, <1>1, <1>2, BaseInLog DEF Running
    <3>2. CASE Num(Base') <= LibOf[head]
      <4>1. Num(Base') \in 0 .. LibOf[head] /\ Num(Base') <= Len(LogAll)
        BY <3>2, <2>1, <1>1, <1>2, LibAssumption, LogFacts
      <4>2. Prefix(LogTop, Num(Base')) = Prefix(head, Num(Base')) /\ Prefix(head, Num(Base')) = Base'
        BY <4>1, <2>1, <1>1, <1>2, LibOnLog DEF OnChain
      <4>3. OnChain(Base', LogTop)
        BY <4>1, <4>2, <1>1, LogFacts DEF OnChain
      <4>4. InLog(LogAll, Base')
        BY <4>3, <2>1, <1>1, LogFacts
      <4>5. LogAll = log
        BY <2>1, <1>1, NoBuffer DEF LogOk
      <4> QED  BY <4>4, <4>5
    <3> QED  BY <3>1, <3>2, <2>1
  <2>3. Recoverable'
    BY <2>1, <2>2 DEF Recoverable
  <2> QED  BY <2>1, <2>3, <1>1, <1>2, StateOkFrom
<1>9. CASE Crash
  <2>1. /\ UNCHANGED stateVars /\ pc' = "closed" /\ revision' = revision
        /\ Len(log') >= Len(log) /\ \A n \in 1 .. Len(log) : log'[n] = log[n]
    BY <1>1, <1>9, CrashedLog DEF Crash, stateVars
  <2>2. Base' = Base /\ head' = head
    BY <2>1, SameBase
  <2>3. InLog(log, Base) => InLog(log', Base)
    <3>1. Len(log) \in Nat /\ Len(log') \in Nat
      BY <1>1, LenProperties DEF IInv, TypeOK
    <3> QED  BY <3>1, <2>1, <1>2 DEF InLog
  <2>4. Recoverable'
    BY <2>1, <2>2, <2>3, <1>2 DEF Recoverable
  <2> QED  BY <2>1, <2>2, <2>4, <1>1, <1>2, StateOkFrom
<1>10. CASE Open \/ OpenThrows
  <2>1. /\ head' = Base /\ undo' = <<>> /\ revision' = revision - Len(undo) /\ log' = log
        /\ pc' \in {"idle", "closed"}
    BY <1>10 DEF Open, OpenThrows, logVars
  <2>2. Base' = Base /\ Sound(head')
    BY <2>1, <1>2, SoundOnChain DEF Base
  <2>3. revision - Len(undo) = Num(Base) => InLog(log, Base)
    <3>1. CASE undo = <<>>
      <4>1. Len(undo) = 0 /\ Base = head /\ revision \in Nat
        BY <3>1, EmptySeq DEF Base, IInv, TypeOK
      <4> QED  BY <4>1, <1>2 DEF Recoverable
    <3>2. CASE undo # <<>>
      BY <3>2, <1>2, BaseOnHead DEF LeadsBack, Recoverable
    <3> QED  BY <3>1, <3>2
  <2>4. Recoverable'
    BY <2>1, <2>2, <2>3 DEF Recoverable
  <2> QED  BY <2>1, <2>2, <2>4, <1>1, StateOkFrom
<1>11. CASE Reindex
  <2>1. head' = <<>> /\ undo' = <<>> /\ pc' \in {"closed", "reindex"} /\ Num(<<>>) = 0
    BY <1>11, EmptySeq DEF Reindex, Num
  <2>2. Base' = <<>>
    BY <2>1 DEF Base
  <2>3. Recoverable'
    BY <2>1, <2>2 DEF Recoverable, InLog
  <2>4. OnChain(<<>>, LogTop')
    <3>1. LogTop' \in Chains
      BY <1>1 DEF LogOk
    <3>2. Num(LogTop') \in Nat /\ Prefix(LogTop', 0) = <<>>
      BY <3>1, ChainIsSeq, PrefixIsChain
    <3> QED  BY <3>2, <2>1 DEF OnChain
  <2> QED  BY <2>1, <2>3, <2>4, <1>1, SoundEmpty, StateOkFrom
<1>12. CASE ReindexBlock
  <2>1. /\ pc = "reindex" /\ pc' = "reindex" /\ Num(head) < Len(log) /\ head' = log[Num(head) + 1]
        /\ UNCHANGED <<undo, revision>> /\ UNCHANGED logVars
    BY <1>12 DEF ReindexBlock, NextLogged
  <2>2. log = LogAll /\ LogTop' = LogTop
    BY <2>1, <1>1, NoBuffer, LogKept DEF LogOk
  <2>3. LogTop \in Chains /\ Num(LogTop) = Len(log) /\ Len(log) \in Nat
    BY <2>2, <1>1, LogFacts
  <2>4. Num(head) + 1 \in 1 .. Len(LogAll) /\ Num(head) + 1 \in 0 .. Num(LogTop)
    BY <2>1, <2>2, <2>3, <1>2
  <2>5. head' = Prefix(LogTop, Num(head) + 1)
    BY <2>1, <2>2, <2>4, <1>1 DEF LogOk
  <2>6. head' \in Chains /\ OnChain(head', LogTop) /\ Num(head') = Num(head) + 1
    BY <2>3, <2>4, <2>5, OnChainPrefix
  <2>7. Sound(head')
    BY <2>3, <2>6, <1>1, SoundOnChain DEF LogOk
  <2>8. revision' = 0
    BY <2>1 DEF IInv, RevisionIsNumber
  <2>9. Recoverable'
    BY <2>6, <2>8, <1>2 DEF Recoverable
  <2> QED  BY <2>1, <2>2, <2>6, <2>7, <2>9, <1>1, StateOkFrom
<1>13. CASE ReindexDone
  <2>1. /\ pc = "reindex" /\ pc' = "idle" /\ head' = head /\ Num(head) = Len(log)
        /\ undo' = undo /\ undo = <<>> /\ UNCHANGED logVars /\ log' = log
    BY <1>13 DEF ReindexDone, IInv, RevisionIsNumber, logVars
  <2>2. log = LogAll /\ Base' = head
    BY <2>1, <1>1, NoBuffer DEF LogOk, Base
  <2>3. InLog(log, head)
    BY <2>1, <2>2, <1>1, <1>2, LogFacts
  <2>4. Recoverable'
    BY <2>1, <2>2, <2>3 DEF Recoverable
  <2> QED  BY <2>1, <2>4, <1>1, <1>2, StateOkFrom
<1>14. ASSUME NEW b \in Blocks, PushDirect(b) \/ PushKept(b) \/ PushSwitch(b) \/ PushThrows(b)
       PROVE  /\ UNCHANGED stateVars /\ UNCHANGED logVars
              /\ pc' = "commit" => pc = "commit"
              /\ pc' = "reindex" => pc = "reindex"
  BY <1>14 DEF PushDirect, PushKept, PushSwitch, PushThrows, Pushed
<1>15. CASE PopThrows \/ Popped \/ ApplyThrows \/ Close \/ ReindexThrows
  <2>1. mode \in {"direct", "switch", "restore"}
    BY DEF IInv, TypeOK
  <2> QED  BY <1>3, <1>15, <2>1 DEF PopThrows, Popped, ApplyThrows, Close, ReindexThrows, Return
<1>16. CASE UNCHANGED vars
  BY <1>3, <1>16 DEF vars
<1> QED  BY <1>3, <1>4, <1>5, <1>6, <1>7, <1>8, <1>9, <1>10, <1>11, <1>12, <1>13, <1>14, <1>15, <1>16
         DEF Next, Work

(***************************************************************************)
(* Every action preserves what is known of the fork database's tree and of *)
(* push_block's locals.                                                    *)
(***************************************************************************)

LEMMA StoppedTree ==
  ASSUME pc' \in {"closed", "reindex"}, IsFiniteSet(index')
  PROVE  TreeOk' /\ PushOk'
  BY DEF TreeOk, PushOk, Running, Genesis, Busy

\* The fork database starts at one block, the head and the base.
LEMMA StartTree ==
  ASSUME NEW b \in Chains, ForkStart(b), pc' = "idle", head' = b, Base' = b
  PROVE  TreeOk' /\ PushOk'
<1>1. /\ index' = {b} \ {<<>>} /\ orphan' = {b} \ {<<>>} /\ fhead' = b
      /\ Num(b) \in Nat /\ (Num(b) = 0 <=> b = <<>>)
  BY ChainIsSeq DEF ForkStart
<1>2. IsFiniteSet(index')
  <2>1. IsFiniteSet({b})
    BY FS_Singleton
  <2> QED  BY <2>1, <1>1, FS_Subset
<1>3. (\A n \in 1 .. Num(head) : n >= Num(Base) => Prefix(head, n) \in index)'
  <2> SUFFICES ASSUME NEW n \in 1 .. Num(b), n >= Num(b) PROVE Prefix(b, n) \in index'
    OBVIOUS
  <2>1. n = Num(b) /\ b # <<>>
    BY <1>1
  <2> QED  BY <2>1, <1>1, PrefixFull
<1>4. (~ Genesis => fhead # <<>> /\ \A x \in Items : Linked(x))'
  <2> SUFFICES ASSUME ~ Genesis' PROVE (fhead # <<>> /\ \A x \in Items : Linked(x))'
    OBVIOUS
  <2>1. b # <<>>
    BY DEF Genesis
  <2>2. Num(Prev(b)) < Num(b)
    BY <2>1, <1>1, PrevIsChain
  <2>3. Items' = {b}
    BY <2>1, <1>1 DEF Items
  <2>4. \A x \in Items' : Num(Prev(x)) < Num(Base')
    BY <2>2, <2>3
  <2> QED  BY <2>1, <2>4, <1>1 DEF Linked, Gone
<1>5. (\A x \in Items \ orphan : Prev(x) \in index \cup {fhead})'
  BY <1>1 DEF Items
<1>6. (Genesis => (index = {} /\ Num(fhead) <= 1) \/ Num(fhead) > 1)'
  BY <1>1 DEF Genesis
<1>7. TreeOk'
  BY <1>1, <1>2, <1>3, <1>4, <1>5, <1>6 DEF TreeOk, Genesis
<1> QED  BY <1>7 DEF PushOk, Busy

\* The push returns or throws.
LEMMA ReturnTree ==
  ASSUME NEW idx \in SUBSET Blocks, NEW orp, NEW fh \in Blocks, Return(idx, orp, fh),
         IsFiniteSet(idx),
         \A n \in 1 .. Num(head') : n >= Num(Base') => Prefix(head', n) \in idx,
         head' # <<>> => \A x \in idx \cup {fh} :
                           \/ Prev(x) = <<>> \/ Num(Prev(x)) < Num(Base') \/ ~ Sound(Prev(x))
                           \/ Prev(x) \in idx /\ x \notin orp,
         fh \in idx \/ Num(fh) < Num(Base') \/ ~ Sound(fh),
         head' = <<>> => (idx = {} /\ Num(fh) <= 1) \/ Num(fh) > 1
  PROVE  TreeOk' /\ PushOk'
<1>1. /\ pc' = "idle" /\ index' = idx /\ fhead' = fh /\ fh # <<>>
      /\ orphan' = {x \in idx \cup {fh} : x \in orp \/ Prev(x) \notin idx \cup {fh}}
      /\ <<>> \notin idx
  BY NoEmptyBlock DEF Return
<1>2. Items' = idx \cup {fh}
  BY <1>1 DEF Items
<1>3. (~ Genesis => fhead # <<>> /\ \A x \in Items : Linked(x))'
  <2> SUFFICES ASSUME ~ Genesis' PROVE (fhead # <<>> /\ \A x \in Items : Linked(x))'
    OBVIOUS
  <2>1. head' # <<>>
    BY <1>1 DEF Genesis
  <2> QED  BY <2>1, <1>1, <1>2 DEF Linked, Gone
<1>4. (\A x \in Items \ orphan : Prev(x) \in index \cup {fhead})'
  BY <1>1, <1>2
<1>5. (fhead \in index \cup {<<>>} \/ Gone(fhead))'
  BY <1>1 DEF Gone
<1>6. (Genesis => (index = {} /\ Num(fhead) <= 1) \/ Num(fhead) > 1)'
  BY <1>1 DEF Genesis
<1>7. TreeOk'
  BY <1>1, <1>3, <1>4, <1>5, <1>6 DEF TreeOk, Genesis
<1> QED  BY <1>1, <1>7 DEF PushOk, Busy

\* A block enters the fork database: the tree stays linked.
LEMMA PushedTree ==
  ASSUME Ordinary, IInv, ChainInv, NEW b \in Blocks, Pushed(b)
  PROVE  /\ Base' = Base /\ head' = head /\ b \notin index /\ index' = index \cup {b}
         /\ fhead' \in {b, fhead} /\ fhead' \in Blocks /\ fhead' # <<>>
         /\ Num(fhead') >= Num(b) /\ Num(fhead') >= Num(fhead)
         /\ IsFiniteSet(index')
         /\ \A n \in 1 .. Num(head) : n >= Num(Base) => Prefix(head, n) \in index /\ Prefix(head, n) \in index'
         /\ (fhead \in index \cup {<<>>} \/ Gone(fhead))'
         /\ head # <<>> => (\A x \in Items : Linked(x))'
         /\ (\A x \in Items \ orphan : Prev(x) \in index \cup {fhead})'
<1>1. /\ pc = "idle" /\ b \notin index /\ Accepts(b)
      /\ index' = index \cup {b} /\ orphan' = Orphan1(b) /\ fhead' = Head1(b)
      /\ UNCHANGED stateVars
  BY DEF Pushed, Index1, Ordinary
<1>2. Base' = Base /\ head' = head
  BY <1>1, SameBase
<1>3. /\ b \in Chains /\ fhead \in Chains /\ Num(b) \in Nat /\ Num(b) > 0 /\ Num(fhead) \in Nat
      /\ b # <<>> /\ index \subseteq Blocks
  BY ChainIsSeq, NoEmptyBlock DEF Chains, IInv, TypeOK
<1>4. /\ fhead' \in {b, fhead} /\ fhead' # <<>> /\ fhead' \in Blocks
      /\ Num(fhead') >= Num(b) /\ Num(fhead') >= Num(fhead)
  <2>1. CASE Num(b) > Num(fhead)
    <3>1. fhead' = b
      BY <2>1, <1>1 DEF Head1
    <3> QED  BY <3>1, <2>1, <1>3
  <2>2. CASE ~ (Num(b) > Num(fhead))
    <3>1. fhead' = fhead
      BY <2>2, <1>1 DEF Head1
    <3>2. fhead # <<>>
      BY <2>2, <1>3, ChainIsSeq
    <3>3. Num(fhead) >= Num(b)
      BY <2>2, <1>3
    <3> QED  BY <3>1, <3>2, <3>3, <1>3 DEF Chains
  <2> QED  BY <2>1, <2>2
<1>5. IsFiniteSet(index')
  BY <1>1, FS_AddElement DEF ChainInv, TreeOk
<1>6. \A n \in 1 .. Num(head) : n >= Num(Base) => Prefix(head, n) \in index /\ Prefix(head, n) \in index'
  BY <1>1 DEF ChainInv, TreeOk, Running
<1>7. (fhead \in index \cup {<<>>} \/ Gone(fhead))'
  <2>1. fhead \in index \cup {<<>>} \/ Gone(fhead)
    BY <1>1 DEF ChainInv, TreeOk, Running
  <2>2. CASE fhead' = b
    BY <2>2, <1>1
  <2>3. CASE fhead' = fhead
    BY <2>1, <2>3, <1>1, <1>2 DEF Gone
  <2> QED  BY <2>2, <2>3, <1>4
<1>8. /\ b \notin orphan' => fhead # <<>> /\ Prev(b) # <<>> /\ Prev(b) \in index
      /\ fhead # <<>> /\ Prev(b) # <<>> => b \notin orphan' /\ Prev(b) \in index
  BY <1>1 DEF Orphan1, Accepts, Links
<1>9. ASSUME NEW x \in (index \cup {fhead}) \ {<<>>}, x # b
      PROVE  /\ x \in orphan => x \in orphan'
             /\ x \in orphan' => x \in orphan \/ Prev(x) \notin index' \cup {fhead'}
             /\ x \in index /\ x \notin orphan' => Prev(x) \in index' \cup {fhead'}
  BY <1>1, <1>9 DEF Orphan1, Index1
<1>10. \A x \in Items' : x = b \/ (x \in (index \cup {fhead}) \ {<<>>})
  BY <1>1, <1>4 DEF Items
<1>11. ASSUME head # <<>>, NEW x \in Items' PROVE Linked(x)'
  <2>1. fhead # <<>> /\ \A y \in Items : Linked(y)
    BY <1>1, <1>11 DEF ChainInv, TreeOk, Running, Genesis
  <2>2. CASE x = b
    <3>1. Prev(b) = <<>> \/ (b \notin orphan' /\ Prev(b) \in index')
      BY <2>1, <1>1, <1>8
    <3> QED  BY <2>2, <3>1 DEF Linked
  <2>3. CASE x # b
    <3>1. x \in (index \cup {fhead}) \ {<<>>}
      BY <2>3, <1>10
    <3>2. Linked(x)
      BY <3>1, <2>1 DEF Items
    <3>3. CASE Prev(x) = <<>> \/ Gone(Prev(x))
      BY <3>3, <1>2 DEF Linked, Gone
    <3>4. CASE Prev(x) \in index /\ x \notin orphan
      <4>1. Prev(x) \in index' /\ x \notin orphan'
        BY <3>1, <3>4, <2>3, <1>1, <1>9
      <4> QED  BY <4>1 DEF Linked
    <3> QED  BY <3>2, <3>3, <3>4 DEF Linked
  <2> QED  BY <2>2, <2>3
<1>12. ASSUME NEW x \in Items', x \notin orphan' PROVE Prev(x) \in index' \cup {fhead'}
  <2>1. CASE x = b
    BY <2>1, <1>1, <1>8, <1>12
  <2>2. CASE x # b /\ x \in index
    BY <2>2, <1>9, <1>10, <1>12
  <2>3. CASE x # b /\ x \notin index
    <3>1. x = fhead /\ fhead' = fhead /\ x # <<>> /\ x \notin orphan
      BY <2>3, <1>1, <1>4, <1>9, <1>10, <1>12 DEF Items
    <3>2. Prev(x) \in index \cup {fhead}
      BY <3>1, <1>1 DEF ChainInv, TreeOk, Items
    <3> QED  BY <3>1, <3>2, <1>1
  <2> QED  BY <2>1, <2>2, <2>3
<1> QED  BY <1>1, <1>2, <1>4, <1>5, <1>6, <1>7, <1>11, <1>12

\* Walking back from a block through live prev pointers, inside a set of items
\* closed under them, stays in the set.
LEMMA WalkBack ==
  ASSUME NEW idx \in SUBSET Blocks, NEW orp, NEW t \in Blocks, NEW k \in Nat, t \in idx,
         \A x \in idx : x \notin orp => Prev(x) \in idx \cup {t},
         \A m \in k + 1 .. Num(t) : Prefix(t, m) \notin orp,
         NEW n \in k .. Num(t), n > 0
  PROVE  Prefix(t, n) \in idx
<1> DEFINE T == {d \in Nat : d <= Num(t) - n /\ Prefix(t, Num(t) - d) \notin idx}
<1>1. t \in Chains /\ Num(t) \in Nat /\ Prefix(t, Num(t)) = t
  BY ChainIsSeq, PrefixFull DEF Chains
<1>2. SUFFICES ASSUME Prefix(t, n) \notin idx PROVE FALSE
  OBVIOUS
<1>3. T \subseteq Nat
  OBVIOUS
<1>4. Num(t) - n \in T
  <2>1. Num(t) - n \in Nat /\ Num(t) - (Num(t) - n) = n
    BY <1>1
  <2> QED  BY <2>1, <1>2
<1>5. PICK d \in T : \A e \in T : d <= e
  BY <1>3, <1>4, LeastOf
<1>6. d \in Nat /\ d <= Num(t) - n /\ Prefix(t, Num(t) - d) \notin idx
  OBVIOUS
<1>7. d # 0
  BY <1>1, <1>6
<1> DEFINE m == Num(t) - (d - 1)
<1>8. d - 1 \in Nat /\ d - 1 <= Num(t) - n /\ d - 1 \notin T
  BY <1>1, <1>5, <1>6, <1>7
<1>9. Prefix(t, m) \in idx
  BY <1>8
<1>10. m \in k + 1 .. Num(t) /\ m \in 0 .. Num(t) /\ m - 1 = Num(t) - d /\ m - 1 \in 0 .. m /\ m > 0
       /\ m - 1 < Num(t) /\ m \in Nat
  BY <1>1, <1>6, <1>7
<1> HIDE DEF m, T
<1>11. Prefix(t, m) \notin orp
  BY <1>10
<1>12. Prefix(t, m) \in Chains /\ Num(Prefix(t, m)) = m /\ Prefix(t, m) # <<>>
  BY <1>1, <1>10, PrefixIsChain, ChainIsSeq
<1>13. Prev(Prefix(t, m)) = Prefix(t, m - 1)
  <2>1. Prev(Prefix(t, m)) = Prefix(Prefix(t, m), m - 1)
    BY <1>12, PrevIsChain
  <2> QED  BY <2>1, <1>1, <1>10, PrefixOfPrefix
<1>14. Prefix(t, m - 1) \in idx \cup {t}
  BY <1>9, <1>11, <1>13
<1>15. Num(Prefix(t, m - 1)) = m - 1
  <2>1. m - 1 \in 0 .. Num(t)
    BY <1>1, <1>10
  <2> QED  BY <2>1, <1>1, PrefixIsChain
<1>16. Prefix(t, m - 1) \in idx
  BY <1>1, <1>10, <1>14, <1>15
<1> QED  BY <1>6, <1>10, <1>16

LEMMA PushTree ==
  ASSUME Ordinary, IInv, LimitInv, ChainInv, NEW b \in Blocks,
         PushDirect(b) \/ PushKept(b) \/ PushSwitch(b) \/ PushThrows(b)
  PROVE  TreeOk' /\ PushOk'
<1>1. Pushed(b) /\ pc = "idle" /\ fhead' = Head1(b) /\ index' = Index1(b) /\ orphan' = Orphan1(b)
      /\ UNCHANGED logVars
  BY DEF PushDirect, PushKept, PushSwitch, PushThrows, Pushed
<1>2. /\ Base' = Base /\ head' = head /\ b \notin index /\ index' = index \cup {b}
      /\ fhead' \in {b, fhead} /\ fhead' \in Blocks /\ fhead' # <<>>
      /\ Num(fhead') >= Num(b) /\ Num(fhead') >= Num(fhead)
      /\ IsFiniteSet(index')
      /\ \A n \in 1 .. Num(head) : n >= Num(Base) => Prefix(head, n) \in index /\ Prefix(head, n) \in index'
      /\ (fhead \in index \cup {<<>>} \/ Gone(fhead))'
      /\ head # <<>> => (\A x \in Items : Linked(x))'
      /\ (\A x \in Items \ orphan : Prev(x) \in index \cup {fhead})'
  BY <1>1, PushedTree
<1>3. /\ b \in Chains /\ fhead \in Chains /\ fhead' \in Chains /\ head \in Chains /\ Num(b) \in Nat
      /\ Num(b) > 0 /\ Num(fhead) \in Nat /\ Num(fhead') \in Nat /\ b # <<>> /\ index \subseteq Blocks
      /\ Num(head) \in Nat
  BY <1>2, ChainIsSeq, NoEmptyBlock DEF Chains, IInv, TypeOK
<1>4. CASE head # <<>>
  <2>1. TreeOk'
    BY <1>2, <1>4 DEF TreeOk, Genesis
  <2>2. CASE PushDirect(b)
    <3>1. pc' = "apply" /\ mode' = "direct" /\ target' = b /\ Prev(fhead') = head
      BY <2>2, <1>1 DEF PushDirect
    <3>2. \A n \in 1 .. Num(head) : n >= Num(Base) => Prefix(head, n) # b
      BY <1>2
    <3>3. ASSUME NEW x \in Items', Prev(x) = b PROVE Gone(b)'
      <4>1. x # b
        <5>1. Prev(b) # b
          BY <1>3, PrevIsChain
        <5> QED  BY <5>1, <3>3
      <4>2. x \in Items
        BY <4>1, <1>2 DEF Items
      <4>3. Linked(x)
        BY <4>2, <1>1, <1>4 DEF ChainInv, TreeOk, Running, Genesis
      <4>4. Gone(b)
        BY <4>3, <3>3, <1>2, <1>3 DEF Linked
      <4> QED  BY <4>4, <1>2 DEF Gone
    <3>4. (\A x \in Items : Prev(x) = target => Gone(target))'
      BY <3>1, <3>3 DEF Gone
    <3> QED  BY <2>1, <3>1, <3>2, <3>4, <1>2 DEF PushOk, Busy
  <2>3. CASE PushSwitch(b)
    <3> DEFINE t == Head1(b)
               f == ForkPoint(t, head)
    <3>1. /\ pc' = "pop" /\ mode' = "switch" /\ target' = t /\ old' = head /\ fork' = f
          /\ Num(t) > Num(head) /\ BranchesFound(t, head, Index1(b), Orphan1(b))
      BY <2>3 DEF PushSwitch
    <3>2. t \in index' /\ head \in index' /\ t \in Blocks /\ head \in Blocks /\ t \in Chains
      BY <3>1, <1>1, <1>2, <1>3 DEF BranchesFound
    <3> HIDE DEF t
    <3>3. /\ f \in Nat /\ f < Num(t) /\ f < Num(head) /\ Prefix(t, f) = Prefix(head, f)
          /\ \A m \in f + 1 .. Num(head) - 1 : m < Num(t) => Prefix(t, m) # Prefix(head, m)
      BY <3>2, ForkPointExists
    <3>4. Num(t) \in Nat
      BY <3>2, ChainIsSeq
    <3>5. \A n \in f + 2 .. Num(t) : Prefix(t, n) \notin orphan'
      BY <3>1, <1>1 DEF BranchesFound
    <3> HIDE DEF f
    <3>6. fhead' = t
      BY <1>1 DEF t
    <3>7. ASSUME NEW n \in f + 1 .. Num(t) PROVE Prefix(t, n) \in index'
      <4>1. \A x \in index' : x \notin orphan' => Prev(x) \in index' \cup {t}
        <5>1. \A x \in index' : x \in Items'
          BY <1>2, <1>3, NoEmptyBlock DEF Items
        <5> QED  BY <5>1, <3>6, <1>2
      <4>2. index' \in SUBSET Blocks /\ f + 1 \in Nat /\ n > 0
        BY <3>3, <1>2, <1>3
      <4>3. \A m \in f + 1 + 1 .. Num(t) : Prefix(t, m) \notin orphan'
        BY <3>3, <3>5
      <4> QED  BY <4>1, <4>2, <4>3, <3>2, WalkBack
    <3>8. (Reaches(target, fork + 1))'
      <4>1. \A m \in f + 1 + 1 .. Num(t) : Prefix(t, m) \notin orphan'
        BY <3>3, <3>5
      <4> QED  BY <4>1, <3>1 DEF Reaches
    <3>9. /\ Sound(head) /\ LibOf[head] <= Len(LogAll) /\ LogAll' = LogAll
      BY <1>1 DEF ChainInv, StateOk, LogAll, logVars
    <3>10. (/\ Sound(old) /\ LibOf[old] <= Len(LogAll) /\ Num(old) < Num(target))'
      BY <3>1, <3>4, <3>9, <1>3
    <3>11. (\A n \in fork + 1 .. Num(old) - 1 : Prefix(target, n) # Prefix(old, n))'
      BY <3>1, <3>3, <3>4, <1>3
    <3>12. (\A n \in fork + 1 .. Num(old) : n >= Num(Base) => Prefix(old, n) \in index)'
      <4>1. \A n \in f + 1 .. Num(head) : n \in 1 .. Num(head)
        BY <3>3, <1>3
      <4> QED  BY <4>1, <3>1, <1>2
    <3>13. (\A n \in fork + 1 .. Num(target) : n >= Num(Base) => Prefix(target, n) \in index)'
      BY <3>1, <3>7
    <3>14. (/\ fhead # <<>> /\ OnChain(fhead, target) /\ (Num(Base) <= fork => Num(fhead) > Num(head)))'
      BY <3>1, <3>2, <3>6, <1>2, OnChainSelf
    <3>15. (\A n \in fork + 1 .. Num(fhead) - 1 : n >= Num(Base) => Prefix(target, n) \in index)'
      BY <3>1, <3>3, <3>4, <3>6, <3>7
    <3>16. PushOk'
      BY <3>1, <3>8, <3>10, <3>11, <3>12, <3>13, <3>14, <3>15 DEF PushOk, Busy
    <3> QED  BY <2>1, <3>16
  <2>4. CASE PushKept(b) \/ PushThrows(b)
    <3>1. pc' = "idle"
      BY <2>4, <1>1 DEF PushKept, PushThrows
    <3>2. PushOk'
      BY <3>1 DEF PushOk, Busy
    <3> QED  BY <2>1, <3>2
  <2> QED  BY <2>2, <2>3, <2>4
<1>5. CASE head = <<>>
  <2>1. Genesis /\ ((index = {} /\ Num(fhead) <= 1) \/ Num(fhead) > 1) /\ Num(head) = 0
    BY <1>1, <1>5, ChainIsSeq, <1>3 DEF ChainInv, TreeOk, Genesis
  <2>2. CASE PushDirect(b)
    <3>1. pc' = "apply" /\ mode' = "direct" /\ target' = b /\ Prev(fhead') = <<>>
      BY <2>2, <1>1, <1>5 DEF PushDirect
    <3>2. Num(fhead') = 1
      <4>1. Num(Prev(fhead')) = Num(fhead') - 1
        BY <1>2, <1>3, PrevIsChain
      <4>2. Num(<<>>) = 0
        BY <2>1, <1>5
      <4> QED  BY <4>1, <4>2, <3>1, <1>3
    <3>3. Num(b) = 1 /\ index = {}
      BY <3>2, <2>1, <1>2, <1>3
    <3>4. index' = {b}
      BY <3>3, <1>2
    <3>5. (Genesis => index = {target} /\ Num(target) = 1)'
      BY <3>1, <3>3, <3>4
    <3>6. Genesis' /\ Running'
      BY <3>1, <1>2, <1>5 DEF Genesis, Running
    <3>7. TreeOk'
      BY <3>1, <3>5, <3>6, <1>2 DEF TreeOk
    <3>8. ASSUME NEW x \in Items' PROVE Prev(x) # b
      <4>1. Num(x) = 1 /\ x \in Chains /\ x # <<>>
        BY <3>2, <3>3, <3>4, <1>2, <1>3 DEF Items
      <4>2. Num(Prev(x)) = Num(x) - 1
        BY <4>1, PrevIsChain
      <4> QED  BY <4>1, <4>2, <3>3
    <3>9. (\A n \in 1 .. Num(head) : n >= Num(Base) => Prefix(head, n) # target)'
      BY <2>1, <1>2
    <3>10. PushOk'
      BY <3>1, <3>8, <3>9, <1>2, <1>5 DEF PushOk, Busy
    <3> QED  BY <3>7, <3>10
  <2>3. CASE PushSwitch(b)
    <3>1. head \in Index1(b)
      BY <2>3 DEF PushSwitch, BranchesFound
    <3> QED  BY <3>1, <1>3, <1>5, NoEmptyBlock DEF Index1
  <2>4. CASE PushKept(b) \/ PushThrows(b)
    <3>1. pc' = "idle" /\ Prev(fhead') # <<>>
      BY <2>4, <1>1, <1>5 DEF PushKept, PushThrows
    <3>2. Num(fhead') > 1
      <4>1. Num(Prev(fhead')) = Num(fhead') - 1 /\ Prev(fhead') \in Chains
        BY <1>2, <1>3, PrevIsChain
      <4>2. Num(Prev(fhead')) > 0
        BY <4>1, <3>1, ChainIsSeq
      <4> QED  BY <4>1, <4>2, <1>3
    <3>3. TreeOk'
      BY <3>1, <3>2, <1>2, <1>5 DEF TreeOk, Genesis
    <3>4. PushOk'
      BY <3>1 DEF PushOk, Busy
    <3> QED  BY <3>3, <3>4
  <2> QED  BY <2>2, <2>3, <2>4
<1> QED  BY <1>4, <1>5

\* A block on the way back from the head or the new branch.
LEMMA PopFacts ==
  ASSUME IInv, ChainInv, pc \in {"pop", "unpop"}
  PROVE  /\ mode = "switch" /\ target \in Blocks /\ old \in Blocks /\ fork \in Nat
         /\ fhead \in Blocks /\ OnChain(fhead, target) /\ (head # <<>> \/ AtForkPoint)
         /\ fork <= Num(head) /\ (head # Prefix(old, fork) => fork < Num(head))
<1>1. /\ mode = "switch" /\ Branches /\ fork <= Num(head) /\ fork \in Nat
      /\ pc = "pop" => OnChain(head, old)
      /\ pc = "unpop" => OnChain(head, target)
      /\ head \in Chains /\ Num(head) \in Nat
  BY ChainIsSeq DEF IInv, LocalsOk, TypeOK
<1>2. fhead # <<>> /\ OnChain(fhead, target) /\ fhead \in Chains
  BY DEF ChainInv, PushOk, IInv, TypeOK
<1>3. /\ target \in Blocks /\ old \in Blocks /\ target \in Chains /\ old \in Chains
      /\ Prefix(target, fork) = Prefix(old, fork)
  BY <1>1 DEF Branches, Chains
<1>4. fork = Num(head) => head = Prefix(old, fork)
  BY <1>1, <1>3 DEF OnChain
<1>5. head = <<>> => AtForkPoint
  <2>1. head = <<>> => Num(head) = 0
    BY <1>1, ChainIsSeq
  <2> QED  BY <2>1, <1>1, <1>4 DEF AtForkPoint
<1> QED  BY <1>1, <1>2, <1>3, <1>4, <1>5 DEF Chains

LEMMA PopTree ==
  ASSUME IInv, ChainInv, Pop
  PROVE  TreeOk' /\ PushOk'
<1>1. /\ pc \in {"pop", "unpop"} /\ ~ AtForkPoint /\ fhead' = Prev(fhead) /\ pc' = pc
      /\ fhead # <<>> /\ fhead \notin orphan /\ Prev(fhead) \in index \cup Held
      /\ UNCHANGED <<index, orphan, logVars, mode, target, old, fork>>
  BY DEF Pop, CanPop, ForkHeadHasPrev, pushVars
<1>2. /\ mode = "switch" /\ target \in Blocks /\ old \in Blocks /\ fork \in Nat
      /\ fhead \in Blocks /\ OnChain(fhead, target) /\ head # <<>>
      /\ fork <= Num(head) /\ fork < Num(head)
  BY <1>1, PopFacts DEF AtForkPoint
<1>3. /\ Base' = Base /\ head' \in Chains /\ OnChain(head', head) /\ OnChain(Base, head')
      /\ undo # <<>> => Num(head') = Num(head) - 1
      /\ undo = <<>> => head' = head
  BY PopBase
<1>4. /\ head \in Chains /\ Num(head) \in Nat /\ Num(Base) \in Nat /\ Base \in Chains
      /\ Num(head') \in Nat /\ Num(head') <= Num(head)
      /\ undo = <<>> => Base = head
  BY <1>3, BaseOnHead, ChainIsSeq DEF OnChain
<1>5. /\ fhead \in Chains /\ target \in Chains /\ old \in Chains /\ Num(target) \in Nat /\ Num(fhead) \in Nat
      /\ Num(fhead) > 0 /\ Num(Prev(fhead)) = Num(fhead) - 1 /\ Prev(fhead) \in Chains
      /\ Num(fhead) <= Num(target) /\ Num(old) \in Nat
      /\ index \subseteq Blocks
  BY <1>1, <1>2, ChainIsSeq, PrevIsChain DEF Chains, OnChain, IInv, TypeOK
<1>6. OnChain(Prev(fhead), target) /\ Prev(fhead) = Prefix(target, Num(fhead) - 1)
  <2>1. Prev(fhead) = Prefix(fhead, Num(fhead) - 1) /\ Num(fhead) - 1 \in 0 .. Num(fhead)
    BY <1>1, <1>5, PrevIsChain
  <2>2. Prefix(fhead, Num(fhead) - 1) = Prefix(target, Num(fhead) - 1) /\ Num(fhead) - 1 \in 0 .. Num(target)
    BY <2>1, <1>2, <1>5, OnChainSame
  <2> QED  BY <2>1, <2>2, <1>5, OnChainPrefix
<1>7. ~ Genesis /\ ~ Genesis'
  BY <1>1 DEF Genesis
<1>8. ASSUME Prev(fhead) \in Held PROVE Num(fhead) - 1 >= fork + 1
  <2>1. \/ \E n \in fork + 1 .. Num(target) : Prev(fhead) = Prefix(target, n)
        \/ \E n \in fork + 1 .. Num(old) : Prev(fhead) = Prefix(old, n)
    BY <1>1, <1>2, <1>8 DEF Held
  <2>2. \A n \in fork + 1 .. Num(target) : Num(Prefix(target, n)) = n
    BY <1>2, <1>5, PrefixIsChain
  <2>3. \A n \in fork + 1 .. Num(old) : Num(Prefix(old, n)) = n
    BY <1>2, <1>5, PrefixIsChain
  <2>4. Num(Prev(fhead)) >= fork + 1
    BY <2>1, <2>2, <2>3, <1>2, <1>5
  <2> QED  BY <2>4, <1>5
<1>9. Prev(fhead) \in index \/ Num(Prev(fhead)) < Num(Base)
  <2>1. CASE Prev(fhead) \in Held /\ Num(Prev(fhead)) >= Num(Base)
    <3>1. Num(fhead) - 1 \in fork + 1 .. Num(fhead) - 1
      BY <2>1, <1>2, <1>5, <1>8
    <3> QED  BY <2>1, <3>1, <1>1, <1>5, <1>6 DEF ChainInv, PushOk
  <2> QED  BY <2>1, <1>1, <1>4, <1>5
<1>10. Prev(fhead) # <<>>
  <2>1. CASE Prev(fhead) \in index
    BY <2>1, <1>5, NoEmptyBlock
  <2>2. CASE Prev(fhead) \in Held
    <3>1. Num(Prev(fhead)) > 0
      BY <2>2, <1>2, <1>5, <1>8
    <3> QED  BY <3>1, <1>5, ChainIsSeq
  <2> QED  BY <2>1, <2>2, <1>1
<1>11. (\A n \in 1 .. Num(head) : n >= Num(Base) => Prefix(head, n) \in index)'
  <2> SUFFICES ASSUME NEW n \in 1 .. Num(head'), n >= Num(Base) PROVE Prefix(head', n) \in index
    BY <1>1, <1>3
  <2>1. n \in 0 .. Num(head') /\ n \in 1 .. Num(head)
    BY <1>4
  <2>2. Prefix(head', n) = Prefix(head, n)
    BY <2>1, <1>3, <1>4, OnChainSame
  <2>3. Prefix(head, n) \in index
    BY <2>1, <1>1 DEF ChainInv, TreeOk, Running
  <2> QED  BY <2>2, <2>3
<1>12. ASSUME NEW x \in Items' PROVE Linked(x)'
  <2>1. CASE x \in index
    <3>1. Linked(x)
      BY <2>1, <1>1, <1>5, <1>7, NoEmptyBlock DEF ChainInv, TreeOk, Running, Items
    <3> QED  BY <3>1, <1>1, <1>3 DEF Linked, Gone
  <2>2. CASE x \notin index
    <3>1. x = Prev(fhead) /\ Num(x) < Num(Base)
      BY <2>2, <1>1, <1>9 DEF Items
    <3>2. Num(Prev(x)) < Num(Base)
      BY <3>1, <1>4, <1>5, <1>10, PrevIsChain
    <3> QED  BY <3>2, <1>3 DEF Linked, Gone
  <2> QED  BY <2>1, <2>2
<1>13. (fhead \in index \cup {<<>>} \/ Gone(fhead))'
  BY <1>1, <1>3, <1>9 DEF Gone
<1>14. IsFiniteSet(index')
  BY <1>1 DEF ChainInv, TreeOk
<1>15. TreeOk'
  BY <1>1, <1>7, <1>10, <1>11, <1>12, <1>13, <1>14 DEF TreeOk
<1>16. Num(Base) <= fork => Num(fhead') > Num(head')
  <2> SUFFICES ASSUME Num(Base) <= fork PROVE Num(fhead') > Num(head')
    OBVIOUS
  <2>1. Num(fhead) > Num(head)
    BY <1>1 DEF ChainInv, PushOk
  <2>2. undo # <<>>
    BY <1>2, <1>4
  <2> QED  BY <2>1, <2>2, <1>1, <1>3, <1>4, <1>5
<1>17. LogAll' = LogAll
  BY <1>1 DEF LogAll, logVars
<1>18. (Reaches(target, fork + 1))' <=> Reaches(target, fork + 1)
  BY <1>1 DEF Reaches
<1>19. \A n \in fork + 1 .. Num(fhead') - 1 : n >= Num(Base) => Prefix(target, n) \in index
  <2>1. \A n \in fork + 1 .. Num(fhead) - 1 : n >= Num(Base) => Prefix(target, n) \in index
    BY <1>1 DEF ChainInv, PushOk
  <2> QED  BY <2>1, <1>1, <1>2, <1>5
<1>20. PushOk'
  BY <1>1, <1>2, <1>3, <1>6, <1>10, <1>16, <1>17, <1>18, <1>19 DEF ChainInv, PushOk, Busy
<1> QED  BY <1>15, <1>20

LEMMA PopThrowsTree ==
  ASSUME IInv, ChainInv, PopThrows
  PROVE  TreeOk' /\ PushOk'
<1>1. /\ pc \in {"pop", "unpop"} /\ ~ AtForkPoint /\ Return(index, orphan, fhead)
      /\ UNCHANGED stateVars
  BY DEF PopThrows
<1>2. fhead \in Blocks /\ head # <<>> /\ index \in SUBSET Blocks
  BY <1>1, PopFacts DEF IInv, TypeOK
<1>3. Base' = Base /\ head' = head
  BY <1>1, SameBase
<1>4. /\ IsFiniteSet(index)
      /\ \A n \in 1 .. Num(head) : n >= Num(Base) => Prefix(head, n) \in index
      /\ \A x \in Items : Linked(x)
      /\ fhead \in index \cup {<<>>} \/ Gone(fhead)
  BY <1>1, <1>2 DEF ChainInv, TreeOk, Running, Genesis
<1>5. ASSUME NEW x \in index \cup {fhead}
      PROVE  \/ Prev(x) = <<>> \/ Num(Prev(x)) < Num(Base') \/ ~ Sound(Prev(x))
             \/ Prev(x) \in index /\ x \notin orphan
  <2>1. x \in Items
    BY <1>2, NoEmptyBlock DEF Items
  <2> QED  BY <2>1, <1>3, <1>4 DEF Linked, Gone
<1>6. fhead \in index \/ Num(fhead) < Num(Base') \/ ~ Sound(fhead)
  BY <1>2, <1>3, <1>4, NoEmptyBlock DEF Gone
<1> QED  BY <1>1, <1>2, <1>3, <1>4, <1>5, <1>6, ReturnTree

LEMMA PoppedTree ==
  ASSUME IInv, ChainInv, Popped
  PROVE  TreeOk' /\ PushOk'
<1>1. /\ pc \in {"pop", "unpop"} /\ pc' = "apply" /\ mode' = IF pc = "pop" THEN "switch" ELSE "restore"
      /\ UNCHANGED <<index, orphan, fhead, target, old, fork>> /\ UNCHANGED stateVars
      /\ UNCHANGED logVars /\ mode = "switch"
  BY PopFacts DEF Popped, forkVars
<1>2. Base' = Base /\ head' = head /\ LogAll' = LogAll
  BY <1>1, SameBase DEF LogAll, logVars
<1>3. ~ Genesis /\ ~ Genesis' /\ Running /\ Running' /\ Items' = Items
  BY <1>1 DEF Genesis, Running, Items
<1>4. \A x : Linked(x)' <=> Linked(x)
  BY <1>1, <1>2 DEF Linked, Gone
<1>5. TreeOk'
  BY <1>1, <1>2, <1>3, <1>4 DEF ChainInv, TreeOk, Gone
<1>6. (Reaches(target, fork + 1))' <=> Reaches(target, fork + 1)
  BY <1>1 DEF Reaches
<1>7. PushOk'
  BY <1>1, <1>2, <1>6 DEF ChainInv, PushOk, Busy
<1> QED  BY <1>5, <1>7

LEMMA ApplyTree ==
  ASSUME Ordinary, IInv, LimitInv, ChainInv, Apply
  PROVE  TreeOk' /\ PushOk'
<1>1. /\ pc = "apply" /\ pc' = "append" /\ head' = Cur /\ fhead' = CurForkHead
      /\ Applicable(Cur, CurForkHead) /\ UNCHANGED <<index, orphan, logVars, mode, target, old, fork>>
  BY DEF Apply, pushVars
<1>2. Base' = Base /\ LogAll' = LogAll
  BY <1>1, ApplyBase DEF LogAll, logVars
<1>3. /\ Cur \in Blocks /\ Cur \in Chains /\ CurForkHead \in Blocks /\ CurForkHead \in Chains
      /\ Prev(CurForkHead) = head /\ CurForkHead \in Items /\ Cur \in index
      /\ mode = "direct" => CurForkHead = fhead
      /\ mode # "direct" => CurForkHead = Cur
      /\ Prev(Cur) = head /\ CurForkHead # <<>> /\ Cur # <<>>
  BY <1>1, CurFacts, Failure, NoEmptyBlock
<1>4. /\ Num(CurForkHead) = Num(head) + 1 /\ Num(Cur) = Num(head) + 1 /\ Num(head) \in Nat
      /\ \A m \in 0 .. Num(head) : Prefix(Cur, m) = Prefix(head, m)
      /\ Num(Base) \in Nat
  <2>1. /\ Num(Prev(CurForkHead)) = Num(CurForkHead) - 1 /\ Num(Prev(Cur)) = Num(Cur) - 1
        /\ \A m \in 0 .. Num(Cur) - 1 : Prefix(Prev(Cur), m) = Prefix(Cur, m)
        /\ Num(CurForkHead) \in Nat /\ Num(Cur) \in Nat
    BY <1>3, PrevIsChain, ChainIsSeq
  <2>2. Num(head) = Num(CurForkHead) - 1 /\ Num(head) = Num(Cur) - 1
    BY <2>1, <1>3
  <2> QED  BY <2>1, <2>2, <1>3, BaseOnHead
<1>5. /\ ~ Genesis' /\ Running'
  BY <1>1 DEF Genesis, Running
<1>6. (\A n \in 1 .. Num(head) : n >= Num(Base) => Prefix(head, n) \in index)'
  <2> SUFFICES ASSUME NEW n \in 1 .. Num(Cur), n >= Num(Base) PROVE Prefix(Cur, n) \in index
    BY <1>1, <1>2
  <2>1. CASE n = Num(Cur)
    BY <2>1, <1>3, PrefixFull
  <2>2. CASE n # Num(Cur)
    <3>1. n \in 1 .. Num(head) /\ n \in 0 .. Num(head)
      BY <2>2, <1>4
    <3>2. Prefix(head, n) \in index
      BY <3>1, <1>1 DEF ChainInv, TreeOk, Running
    <3> QED  BY <3>1, <3>2, <1>4
  <2> QED  BY <2>1, <2>2
<1>7. Items' \subseteq Items
  BY <1>1, <1>3 DEF Items
<1>8. ASSUME NEW x \in Items' PROVE Linked(x)'
  <2>1. CASE ~ Genesis
    <3>1. Linked(x)
      BY <2>1, <1>1, <1>7 DEF ChainInv, TreeOk, Running
    <3> QED  BY <3>1, <1>1, <1>2 DEF Linked, Gone
  <2>2. CASE Genesis
    <3>1. head = <<>> /\ mode = "direct" /\ index = {target} /\ Num(target) = 1
      BY <2>2, <1>1 DEF Genesis, ChainInv, TreeOk
    <3>2. x \in {target, CurForkHead} /\ target \in Chains /\ x # <<>>
      BY <3>1, <1>1 DEF Items, IInv, TypeOK
    <3>3. Num(head) = 0
      BY <3>1, EmptySeq DEF Num
    <3>4. Num(x) = 1 /\ x \in Chains
      BY <3>1, <3>2, <3>3, <1>3, <1>4
    <3>5. Num(Prev(x)) = 0 /\ Prev(x) \in Chains
      BY <3>2, <3>4, PrevIsChain
    <3>6. Prev(x) = <<>>
      BY <3>5, ChainIsSeq
    <3> QED  BY <3>6 DEF Linked
  <2> QED  BY <2>1, <2>2
<1>9. (fhead \in index \cup {<<>>} \/ Gone(fhead))'
  <2>1. CASE mode = "direct"
    <3>1. fhead \in index \cup {<<>>} \/ Gone(fhead)
      BY <1>1 DEF ChainInv, TreeOk, Running
    <3> QED  BY <2>1, <3>1, <1>1, <1>2, <1>3 DEF Gone
  <2>2. CASE mode # "direct"
    BY <2>2, <1>1, <1>3
  <2> QED  BY <2>1, <2>2
<1>10. IsFiniteSet(index')
  BY <1>1 DEF ChainInv, TreeOk
<1>11. TreeOk'
  BY <1>1, <1>3, <1>5, <1>6, <1>8, <1>9, <1>10 DEF TreeOk
<1>12. (fhead # <<>> /\ Num(fhead) = Num(head) /\ Prev(fhead) = Prev(head))'
  BY <1>1, <1>3, <1>4
<1>13. (Reaches(target, fork + 1))' <=> Reaches(target, fork + 1)
  BY <1>1 DEF Reaches
<1>14. PushOk'
  BY <1>1, <1>2, <1>12, <1>13 DEF ChainInv, PushOk, Busy
<1> QED  BY <1>11, <1>14

\* A block that fails is never sound on this chain, and neither is what
\* builds on it; the restored branch never fails.
LEMMA ApplyThrowsTree ==
  ASSUME Ordinary, IInv, LimitInv, ChainInv, ApplyThrows
  PROVE  TreeOk' /\ PushOk' /\ mode # "restore"
<1>1. /\ pc = "apply" /\ ~ Applicable(Cur, CurForkHead) /\ UNCHANGED stateVars /\ UNCHANGED logVars
      /\ mode \in {"direct", "switch", "restore"} /\ index \subseteq Blocks
  BY DEF ApplyThrows, IInv, TypeOK
<1>2. Base' = Base /\ head' = head /\ LogAll' = LogAll
  BY <1>1, SameBase DEF LogAll, logVars
<1>3. /\ Cur \in Blocks /\ Cur \in Chains /\ Cur \in index
      /\ Prev(Cur) = head => ~ Sound(Cur)
  BY <1>1, CurFacts, Failure, SoundGood
<1>4. /\ IsFiniteSet(index)
      /\ \A n \in 1 .. Num(head) : n >= Num(Base) => Prefix(head, n) \in index
      /\ ~ Genesis => fhead # <<>> /\ \A x \in Items : Linked(x)
      /\ fhead \in index \cup {<<>>} \/ Gone(fhead)
      /\ Sound(head) /\ head \in Chains /\ Num(head) \in Nat
      /\ fhead \in Chains /\ target \in Chains /\ old \in Chains
  BY <1>1, ChainIsSeq DEF ChainInv, TreeOk, StateOk, Running, IInv, TypeOK
<1>5. CASE mode = "direct"
  <2>1. /\ Return(index \ {target}, orphan, fhead) /\ Cur = target
        /\ fhead # <<>> /\ Prev(fhead) = head /\ target \in index
        /\ \A n \in 1 .. Num(head) : n >= Num(Base) => Prefix(head, n) # target
        /\ \A x \in Items : Prev(x) = target => Gone(target)
    BY <1>1, <1>5, CurFacts DEF ApplyThrows, ChainInv, PushOk
  <2> DEFINE idx == index \ {target}
  <2>2. idx \in SUBSET Blocks /\ IsFiniteSet(idx) /\ fhead \in Blocks
    BY <2>1, <1>1, <1>4, FS_Subset DEF Chains
  <2>3. \A n \in 1 .. Num(head') : n >= Num(Base') => Prefix(head', n) \in idx
    BY <2>1, <1>2, <1>4
  <2>4. ASSUME head' # <<>>, NEW x \in idx \cup {fhead}
        PROVE  \/ Prev(x) = <<>> \/ Num(Prev(x)) < Num(Base') \/ ~ Sound(Prev(x))
               \/ Prev(x) \in idx /\ x \notin orphan
    <3>1. x \in Items
      BY <2>2, NoEmptyBlock DEF Items
    <3>2. Linked(x)
      BY <3>1, <2>4, <1>2, <1>4 DEF Genesis
    <3>3. CASE Prev(x) = target
      <4>1. Gone(target)
        BY <3>1, <3>3, <2>1
      <4> QED  BY <4>1, <3>3, <1>2 DEF Gone
    <3>4. CASE Prev(x) # target
      BY <3>2, <3>4, <1>2 DEF Linked, Gone
    <3> QED  BY <3>3, <3>4
  <2>5. fhead \in idx \/ Num(fhead) < Num(Base') \/ ~ Sound(fhead)
    <3>1. CASE fhead = target
      BY <3>1, <2>1, <1>3
    <3>2. CASE fhead # target
      BY <3>2, <2>2, <1>2, <1>4, NoEmptyBlock DEF Gone
    <3> QED  BY <3>1, <3>2
  <2>6. ASSUME head' = <<>> PROVE idx = {} /\ Num(fhead) <= 1
    <3>1. index = {target}
      BY <2>6, <1>1, <1>2, <1>5 DEF ChainInv, TreeOk, Genesis
    <3>2. Num(Prev(fhead)) = Num(fhead) - 1 /\ Num(fhead) \in Nat /\ Num(<<>>) = 0
      BY <2>1, <1>4, PrevIsChain, ChainIsSeq, EmptySeq DEF Num
    <3>3. Num(Prev(fhead)) = 0
      BY <3>2, <2>1, <2>6, <1>2
    <3>4. Num(fhead) <= 1
      BY <3>2, <3>3
    <3> QED  BY <3>1, <3>4
  <2> HIDE DEF idx
  <2>7. Return(idx, orphan, fhead)
    BY <2>1 DEF idx
  <2> QED  BY <2>2, <2>3, <2>4, <2>5, <2>6, <2>7, <1>5, ReturnTree
<1>6. CASE mode = "switch"
  <2>1. /\ index' = index \ {Prefix(target, n) : n \in Num(Cur) .. Num(target)}
        /\ fhead' = Cur /\ pc' = "unpop" /\ UNCHANGED <<orphan, mode, target, old, fork>>
    BY <1>6 DEF ApplyThrows, pushVars
  <2>2. /\ Cur = Prefix(target, Num(head) + 1) /\ OnChain(Cur, target) /\ Prev(Cur) = head
        /\ Num(Cur) = Num(head) + 1 /\ ~ Sound(Cur)
    BY <1>1, <1>3, <1>6, CurFacts
  <2>3. /\ fork \in Nat /\ fork <= Num(head) /\ Num(head) < Num(target) /\ Num(target) \in Nat
        /\ Num(old) \in Nat
    BY <1>1, <1>4, <1>6, ChainIsSeq DEF IInv, LocalsOk, TypeOK
  <2>4. ASSUME NEW n \in Num(Cur) .. Num(target) PROVE ~ Sound(Prefix(target, n))
    <3>1. n \in 0 .. Num(target) /\ Num(Cur) <= n
      BY <2>2, <2>3, <1>4
    <3>2. Prefix(target, n) \in Chains /\ Num(Prefix(target, n)) = n /\ OnChain(Prefix(target, n), target)
      BY <3>1, <1>4, OnChainPrefix
    <3>3. OnChain(Cur, Prefix(target, n))
      BY <3>1, <3>2, <2>2, <1>3, <1>4, OnChainBoth
    <3> QED  BY <3>2, <3>3, <2>2, <1>3, SoundOnChain
  <2>5. \A x \in index : Sound(x) => x \in index'
    BY <2>1, <2>4
  <2>6. \A x \in index : x \in index' \/ ~ Sound(x)
    BY <2>5
  <2>7. ~ Genesis /\ ~ Genesis' /\ Running'
    BY <2>1, <1>1, <1>6 DEF Genesis, Running
  <2>8. (\A n \in 1 .. Num(head) : n >= Num(Base) => Prefix(head, n) \in index)'
    <3> SUFFICES ASSUME NEW n \in 1 .. Num(head), n >= Num(Base) PROVE Prefix(head, n) \in index'
      BY <1>2
    <3>1. n \in 0 .. Num(head)
      BY <1>4
    <3>2. Sound(Prefix(head, n))
      BY <3>1, <1>4, SoundPrefix
    <3> QED  BY <3>2, <2>5, <1>4
  <2>9. ASSUME NEW x \in Items' PROVE Linked(x)'
    <3>1. x \in Items
      BY <2>1, <2>9, <1>3 DEF Items
    <3>2. Linked(x)
      BY <3>1, <2>7, <1>4
    <3> QED  BY <3>2, <2>1, <2>6, <1>2 DEF Linked, Gone
  <2>10. (fhead \in index \cup {<<>>} \/ Gone(fhead))'
    BY <2>1, <2>2 DEF Gone
  <2>11. IsFiniteSet(index') /\ fhead' # <<>>
    BY <2>1, <1>3, <1>4, FS_Subset, NoEmptyBlock
  <2>12. TreeOk'
    BY <2>1, <2>7, <2>8, <2>9, <2>10, <2>11 DEF TreeOk
  <2>13. /\ Sound(old) /\ LibOf[old] <= Len(LogAll) /\ Num(old) < Num(target)
         /\ \A n \in fork + 1 .. Num(old) - 1 : Prefix(target, n) # Prefix(old, n)
         /\ Reaches(target, fork + 1)
         /\ \A n \in fork + 1 .. Num(old) : n >= Num(Base) => Prefix(old, n) \in index
         /\ \A n \in fork + 1 .. Num(target) : n >= Num(Base) => Prefix(target, n) \in index
    BY <1>1, <1>6 DEF ChainInv, PushOk, Busy
  <2>14. (\A n \in fork + 1 .. Num(old) : n >= Num(Base) => Prefix(old, n) \in index)'
    <3> SUFFICES ASSUME NEW n \in fork + 1 .. Num(old), n >= Num(Base) PROVE Prefix(old, n) \in index'
      BY <2>1, <1>2
    <3>1. n \in 0 .. Num(old)
      BY <2>3
    <3>2. Sound(Prefix(old, n))
      BY <3>1, <2>13, <1>4, SoundPrefix
    <3> QED  BY <3>2, <2>5, <2>13
  <2>15. (Reaches(target, fork + 1))' <=> Reaches(target, fork + 1)
    BY <2>1 DEF Reaches
  <2>16. (\A n \in fork + 1 .. Num(fhead) - 1 : n >= Num(Base) => Prefix(target, n) \in index)'
    <3> SUFFICES ASSUME NEW n \in fork + 1 .. Num(Cur) - 1, n >= Num(Base) PROVE Prefix(target, n) \in index'
      BY <2>1, <1>2
    <3>1. n \in 0 .. Num(head) /\ n \in 1 .. Num(head)
      BY <2>2, <2>3, <1>4
    <3>2. OnChain(head, target)
      BY <1>1, <1>6 DEF IInv, LocalsOk
    <3>3. Prefix(head, n) = Prefix(target, n)
      BY <3>1, <3>2, <1>4, OnChainSame
    <3> QED  BY <3>1, <3>3, <2>8, <1>2
  <2>17. (/\ fhead # <<>> /\ OnChain(fhead, target) /\ (Num(Base) <= fork => Num(fhead) > Num(head)))'
    BY <2>1, <2>2, <2>11, <1>2, <1>4
  <2>18. PushOk'
    BY <2>1, <2>13, <2>14, <2>15, <2>16, <2>17, <1>2 DEF PushOk, Busy
  <2> QED  BY <2>12, <2>18, <1>6
<1>7. CASE mode = "restore"
  <2>1. Prev(Cur) = head /\ OnChain(Cur, old)
    BY <1>1, <1>7, CurFacts
  <2>2. Sound(old)
    BY <1>1, <1>7 DEF ChainInv, PushOk, Busy
  <2>3. Sound(Cur)
    BY <2>1, <2>2, <1>3, <1>4, SoundOnChain
  <2> QED  BY <2>1, <2>3, <1>3
<1> QED  BY <1>1, <1>5, <1>6, <1>7

LEMMA MigrateTree ==
  ASSUME Ordinary, IInv, ChainInv, AppendBlock \/ FlushLog
  PROVE  TreeOk' /\ PushOk'
<1>1. /\ pc = "append" /\ pc' \in {"append", "commit"} /\ UNCHANGED stateVars
      /\ UNCHANGED <<index, orphan, fhead, mode, target, old, fork>>
  BY DEF AppendBlock, FlushLog, forkVars, pushVars
<1>2. Base' = Base /\ head' = head
  BY <1>1, SameBase
<1>3. Len(LogAll) \in Nat /\ Len(LogAll') >= Len(LogAll) /\ Len(LogAll') \in Nat
  <2>1. Len(LogAll) \in Nat
    BY LogFacts DEF ChainInv
  <2>2. CASE AppendBlock
    BY <2>1, <2>2, AppendedLog
  <2>3. CASE FlushLog
    BY <2>1, <2>3, FlushedLog DEF ChainInv
  <2> QED  BY <2>2, <2>3
<1>4. ~ Genesis /\ ~ Genesis' /\ Running /\ Running' /\ Items' = Items
  BY <1>1 DEF Genesis, Running, Items
<1>5. \A x : (Linked(x)' <=> Linked(x)) /\ (Gone(x)' <=> Gone(x))
  BY <1>1, <1>2 DEF Linked, Gone
<1>6. TreeOk'
  BY <1>1, <1>2, <1>4, <1>5 DEF ChainInv, TreeOk, Gone
<1>7. (Reaches(target, fork + 1))' <=> Reaches(target, fork + 1)
  BY <1>1 DEF Reaches
<1>8. mode # "direct" => LibOf[old] <= Len(LogAll')
  <2>1. mode # "direct" => LibOf[old] <= Len(LogAll)
    BY <1>1 DEF ChainInv, PushOk, Busy
  <2>2. LibOf[old] \in Nat
    BY LibAssumption DEF IInv, TypeOK
  <2> QED  BY <2>1, <2>2, <1>3
<1>9. PushOk'
  BY <1>1, <1>2, <1>7, <1>8 DEF ChainInv, PushOk, Busy
<1> QED  BY <1>6, <1>9

\* Trimming the fork database removes only blocks below the new base.
LEMMA CommitTree ==
  ASSUME Ordinary, IInv, LimitInv, ChainInv, Commit
  PROVE  TreeOk' /\ PushOk'
<1>1. /\ pc = "commit" /\ UNCHANGED logVars
      /\ fhead # <<>> /\ Num(fhead) = Num(head) /\ index \subseteq Blocks
      /\ fhead \in Blocks /\ fhead \in Chains
  BY DEF Commit, ChainInv, PushOk, IInv, TypeOK, Chains
<1>2. /\ head' = head /\ Base' \in Chains /\ Num(Base') \in Nat
      /\ OnChain(Base', head) /\ OnChain(Base, Base')
      /\ Num(Base') >= Num(Base) /\ Num(Base') >= LibOf[head]
  BY CommitBase
<1>3. /\ head \in Chains /\ Num(head) \in Nat /\ Num(Base) \in Nat /\ LibOf[head] \in Nat
      /\ LibOf[head] <= Num(head) /\ head # <<>>
  <2>1. head \in Chains /\ Num(head) \in Nat /\ Num(Base) \in Nat /\ LibOf[head] \in Nat
        /\ LibOf[head] <= Num(head)
    BY BaseOnHead, LibAssumption
  <2>2. Num(head) # 0
    BY <1>1, ChainIsSeq
  <2> QED  BY <2>1, <2>2, ChainIsSeq
<1>4. LogAll' = LogAll
  BY <1>1 DEF LogAll, logVars
<1>5. Trimmed \in SUBSET index
  BY DEF Trimmed
<1>6. ASSUME NEW x \in index, Num(x) >= Num(Base') PROVE x \in Trimmed
  <2>1. Num(x) \in Nat
    BY <1>1, ChainIsSeq DEF Chains
  <2>2. Num(x) >= 0 /\ Num(x) >= Num(fhead) - Size1
    BY <2>1, <1>1, <1>2, <1>3, <1>6 DEF Size1
  <2>3. Num(x) >= Max2(0, Num(fhead) - Size1)
    BY <2>2 DEF Max2
  <2> QED  BY <2>3, <1>1 DEF Trimmed
<1>7. \A x \in index : Num(x) \in Nat /\ (x \in Trimmed \/ Num(x) < Num(Base'))
  <2>1. \A x \in index : Num(x) \in Nat
    BY <1>1, ChainIsSeq DEF Chains
  <2> QED  BY <2>1, <1>2, <1>6
<1>8. /\ IsFiniteSet(Trimmed) /\ Running
      /\ \A n \in 1 .. Num(head) : n >= Num(Base) => Prefix(head, n) \in index
      /\ \A x \in Items : Linked(x)
      /\ fhead \in index \cup {<<>>} \/ Gone(fhead)
  BY <1>1, <1>5, FS_Subset DEF ChainInv, TreeOk, Running, Genesis
<1>9. ASSUME NEW n \in 1 .. Num(head), n >= Num(Base') PROVE Prefix(head, n) \in Trimmed
  <2>1. n >= Num(Base) /\ n \in 0 .. Num(head)
    BY <1>2, <1>3, <1>9
  <2>2. Prefix(head, n) \in index /\ Num(Prefix(head, n)) = n
    BY <2>1, <1>3, <1>8, PrefixIsChain
  <2> QED  BY <2>2, <1>6, <1>9
<1>10. \A x \in Chains : Gone(x) => Num(x) < Num(Base') \/ ~ Sound(x)
  BY <1>2, <1>3, ChainIsSeq DEF Gone
<1>11. ASSUME NEW x \in Trimmed \cup {fhead}
       PROVE  \/ Prev(x) = <<>> \/ Num(Prev(x)) < Num(Base') \/ ~ Sound(Prev(x))
              \/ Prev(x) \in Trimmed /\ x \notin orphan
  <2>1. x \in Items /\ x \in Chains /\ x # <<>>
    BY <1>1, <1>5, NoEmptyBlock DEF Items, Chains
  <2>2. Linked(x) /\ Prev(x) \in Chains
    BY <2>1, <1>8, PrevIsChain
  <2> QED  BY <2>2, <1>7, <1>10 DEF Linked
<1>12. fhead \in Trimmed \/ Num(fhead) < Num(Base') \/ ~ Sound(fhead)
  BY <1>1, <1>7, <1>8, <1>10
<1>13. CASE PushDone
  <2>1. Return(Trimmed, orphan, fhead)
    BY <1>13 DEF Commit
  <2>2. Trimmed \in SUBSET Blocks
    BY <1>1, <1>5
  <2> QED  BY <2>1, <2>2, <1>1, <1>2, <1>3, <1>8, <1>9, <1>11, <1>12, ReturnTree
<1>14. CASE ~ PushDone
  <2>1. pc' = "apply" /\ index' = Trimmed /\ UNCHANGED <<orphan, fhead, mode, target, old, fork>>
    BY <1>14 DEF Commit, pushVars
  <2>2. mode \in {"switch", "restore"}
    BY <1>14 DEF PushDone, IInv, TypeOK
  <2>3. ~ Genesis' /\ Running'
    BY <2>1, <1>2, <1>3 DEF Genesis, Running
  <2>4. (\A x \in Items : Linked(x))'
    <3>1. \A x \in Items' : x \in Trimmed \cup {fhead}
      BY <2>1 DEF Items
    <3> QED  BY <3>1, <2>1, <1>11 DEF Linked, Gone
  <2>5. TreeOk'
    BY <2>1, <2>3, <2>4, <1>1, <1>2, <1>8, <1>9, <1>12 DEF TreeOk, Gone
  <2>6. /\ Sound(old) /\ LibOf[old] <= Len(LogAll) /\ Num(old) < Num(target)
        /\ \A n \in fork + 1 .. Num(old) - 1 : Prefix(target, n) # Prefix(old, n)
        /\ Reaches(target, fork + 1)
        /\ \A n \in fork + 1 .. Num(old) : n >= Num(Base) => Prefix(old, n) \in index
        /\ mode = "switch" =>
             \A n \in fork + 1 .. Num(target) : n >= Num(Base) => Prefix(target, n) \in index
    BY <2>2, <1>1 DEF ChainInv, PushOk, Busy
  <2>7. fork \in Nat /\ target \in Chains /\ old \in Chains /\ Num(target) \in Nat /\ Num(old) \in Nat
    BY ChainIsSeq DEF IInv, TypeOK
  <2>8. (\A n \in fork + 1 .. Num(old) : n >= Num(Base) => Prefix(old, n) \in index)'
    <3> SUFFICES ASSUME NEW n \in fork + 1 .. Num(old), n >= Num(Base') PROVE Prefix(old, n) \in Trimmed
      BY <2>1
    <3>1. n >= Num(Base) /\ n \in 0 .. Num(old)
      BY <2>7, <1>2, <1>3
    <3>2. Prefix(old, n) \in index /\ Num(Prefix(old, n)) = n
      BY <3>1, <2>6, <2>7, PrefixIsChain
    <3> QED  BY <3>2, <1>6
  <2>9. mode = "switch" =>
          (\A n \in fork + 1 .. Num(target) : n >= Num(Base) => Prefix(target, n) \in index)'
    <3> SUFFICES ASSUME mode = "switch", NEW n \in fork + 1 .. Num(target), n >= Num(Base')
                 PROVE  Prefix(target, n) \in Trimmed
      BY <2>1
    <3>1. n >= Num(Base) /\ n \in 0 .. Num(target)
      BY <2>7, <1>2, <1>3
    <3>2. Prefix(target, n) \in index /\ Num(Prefix(target, n)) = n
      BY <3>1, <2>6, <2>7, PrefixIsChain
    <3> QED  BY <3>2, <1>6
  <2>10. (Reaches(target, fork + 1))' <=> Reaches(target, fork + 1)
    BY <2>1 DEF Reaches
  <2>11. PushOk'
    BY <2>1, <2>2, <2>6, <2>8, <2>9, <2>10, <1>4 DEF PushOk, Busy
  <2> QED  BY <2>5, <2>11
<1> QED  BY <1>13, <1>14

LEMMA RestartTree ==
  ASSUME IInv, ChainInv,
         Close \/ Crash \/ Open \/ OpenThrows \/ Reindex \/ ReindexBlock \/ ReindexThrows \/ ReindexDone
  PROVE  TreeOk' /\ PushOk'
<1>1. IsFiniteSet(index) /\ IsFiniteSet({})
  BY FS_EmptySet DEF ChainInv, TreeOk
<1>2. CASE Close \/ Crash
  BY <1>1, <1>2, StoppedTree DEF Close, Crash, ForkReset
<1>3. CASE OpenThrows \/ Reindex \/ ReindexBlock \/ ReindexThrows
  BY <1>1, <1>3, StoppedTree DEF OpenThrows, Reindex, ReindexBlock, ReindexThrows, forkVars
<1>4. CASE Open
  <2>1. head' = Base /\ undo' = <<>> /\ ForkStart(Base) /\ pc' = "idle"
    BY <1>4 DEF Open
  <2>2. Base' = Base /\ Base \in Chains
    BY <2>1, BaseOnHead DEF Base
  <2> QED  BY <2>1, <2>2, StartTree
<1>5. CASE ReindexDone
  <2>1. /\ pc = "reindex" /\ pc' = "idle" /\ head' = head /\ Num(head) = Len(log)
        /\ undo' = undo /\ undo = <<>> /\ log # <<>> /\ ForkStart(log[Len(log)])
    BY <1>5 DEF ReindexDone, IInv, RevisionIsNumber
  <2>2. log = LogAll /\ OnChain(head, LogTop) /\ LogOk
    BY <2>1, NoBuffer DEF ChainInv, LogOk, StateOk
  <2>3. LogTop = log[Len(log)] /\ LogTop \in Chains /\ Num(LogTop) = Num(head) /\ head \in Chains
    BY <2>1, <2>2, LogFacts, BaseOnHead DEF LogTop
  <2>4. head = log[Len(log)]
    BY <2>2, <2>3, OnChainEqual
  <2>5. Base' = head
    BY <2>1 DEF Base
  <2> QED  BY <2>1, <2>3, <2>4, <2>5, StartTree
<1> QED  BY <1>2, <1>3, <1>4, <1>5

LEMMA StutterTree ==
  ASSUME ChainInv, UNCHANGED vars
  PROVE  TreeOk' /\ PushOk'
<1>1. /\ UNCHANGED <<index, orphan, fhead, pc, mode, target, old, fork>> /\ UNCHANGED stateVars
      /\ UNCHANGED logVars
  BY DEF vars, forkVars, pushVars
<1>2. Base' = Base /\ head' = head /\ LogAll' = LogAll /\ Items' = Items
  BY <1>1, SameBase DEF LogAll, logVars, Items
<1>3. \A x : (Linked(x)' <=> Linked(x)) /\ (Gone(x)' <=> Gone(x))
  BY <1>1, <1>2 DEF Linked, Gone
<1>4. TreeOk'
  BY <1>1, <1>2, <1>3 DEF ChainInv, TreeOk, Gone, Genesis, Running
<1>5. (Reaches(target, fork + 1))' <=> Reaches(target, fork + 1)
  BY <1>1 DEF Reaches
<1>6. PushOk'
  BY <1>1, <1>2, <1>3, <1>5 DEF ChainInv, PushOk, Busy, Gone
<1> QED  BY <1>4, <1>6

LEMMA ChainStep ==
  ASSUME Ordinary, IInv, LimitInv, ChainInv, [Next]_vars
  PROVE  ChainInv'
<1>1. LogOk' /\ StateOk'
  BY LogStep, StateStep
<1>2. TreeOk' /\ PushOk'
  <2>1. CASE \E b \in Blocks : PushDirect(b) \/ PushKept(b) \/ PushSwitch(b) \/ PushThrows(b)
    BY <2>1, PushTree
  <2>2. CASE Pop \/ PopThrows \/ Popped
    BY <2>2, PopTree, PopThrowsTree, PoppedTree
  <2>3. CASE Apply \/ ApplyThrows
    BY <2>3, ApplyTree, ApplyThrowsTree
  <2>4. CASE AppendBlock \/ FlushLog \/ Commit
    BY <2>4, MigrateTree, CommitTree
  <2>5. CASE Close \/ Crash \/ Open \/ OpenThrows \/ Reindex \/ ReindexBlock \/ ReindexThrows \/ ReindexDone
    BY <2>5, RestartTree
  <2>6. CASE UNCHANGED vars
    BY <2>6, StutterTree
  <2> QED  BY <2>1, <2>2, <2>3, <2>4, <2>5, <2>6 DEF Next, Work
<1> QED  BY <1>1, <1>2 DEF ChainInv

LEMMA ChainInit ==
  ASSUME Ordinary, Init
  PROVE  ChainInv
<1>1. /\ InitChain \in Chains /\ Num(InitChain) \in Nat /\ (Num(InitChain) = 0 <=> InitChain = <<>>)
      /\ Sound(InitChain) /\ Final(InitChain)
      /\ LibOf[InitChain] \in Nat /\ LibOf[InitChain] <= Num(InitChain)
  BY InitAssumption, FinalityAssumption, LibAssumption, ChainIsSeq DEF Ordinary
<1>2. /\ head = InitChain /\ undo = <<>> /\ index = {InitChain} \ {<<>>} /\ orphan = index
      /\ fhead = InitChain /\ buf = <<>> /\ pc = "idle"
      /\ log = [n \in 1 .. Num(InitChain) |-> Prefix(InitChain, n)]
  BY DEF Init
<1>3. IInv
  BY InitInv
<1>4. LogAll = log /\ Base = InitChain
  BY <1>2, <1>3, NoBuffer DEF Base
<1>5. Len(log) = Num(InitChain) /\ \A n \in 1 .. Num(InitChain) : log[n] = Prefix(InitChain, n)
  <2>1. log \in Seq(Blocks) /\ DOMAIN log = 1 .. Num(InitChain)
    BY <1>2, <1>3 DEF IInv, TypeOK
  <2>2. Len(log) = Num(InitChain)
    BY <2>1, <1>1, LenProperties
  <2> QED  BY <2>2, <1>2
<1>6. LogTop = InitChain
  <2>1. log = <<>> <=> Len(log) = 0
    BY <1>3, EmptySeq DEF IInv, TypeOK
  <2>2. CASE log = <<>>
    BY <2>1, <2>2, <1>1, <1>4, <1>5 DEF LogTop
  <2>3. CASE log # <<>>
    <3>1. Len(log) \in 1 .. Num(InitChain)
      BY <2>1, <2>3, <1>1, <1>5
    <3>2. log[Len(log)] = InitChain
      BY <3>1, <1>1, <1>5, PrefixFull
    <3> QED  BY <3>2, <2>3, <1>4 DEF LogTop
  <2> QED  BY <2>2, <2>3
<1>7. LogOk
  BY <1>1, <1>2, <1>4, <1>5, <1>6 DEF LogOk
<1>8. InLog(log, InitChain)
  BY <1>1, <1>3, <1>4, <1>6, <1>7, LogFacts, OnChainSelf
<1>9. StateOk
  BY <1>1, <1>2, <1>4, <1>5, <1>8 DEF StateOk, Recoverable
<1>10. IsFiniteSet(index)
  <2>1. IsFiniteSet({InitChain})
    BY FS_Singleton
  <2> QED  BY <2>1, <1>2, FS_Subset
<1>11. \A n \in 1 .. Num(head) : n >= Num(Base) => Prefix(head, n) \in index
  <2> SUFFICES ASSUME NEW n \in 1 .. Num(InitChain), n >= Num(InitChain)
               PROVE  Prefix(InitChain, n) \in {InitChain} \ {<<>>}
    BY <1>2, <1>4
  <2>1. n = Num(InitChain) /\ InitChain # <<>>
    BY <1>1
  <2> QED  BY <2>1, <1>1, PrefixFull
<1>12. ASSUME ~ Genesis PROVE fhead # <<>> /\ \A x \in Items : Linked(x)
  <2>1. InitChain # <<>>
    BY <1>2, <1>12 DEF Genesis
  <2>2. Num(Prev(InitChain)) < Num(InitChain)
    BY <2>1, <1>1, PrevIsChain
  <2> QED  BY <2>1, <2>2, <1>2, <1>4 DEF Items, Linked, Gone
<1>13. TreeOk
  BY <1>1, <1>2, <1>10, <1>11, <1>12 DEF TreeOk, Genesis, Items
<1>14. PushOk
  BY <1>2 DEF PushOk, Busy
<1> QED  BY <1>7, <1>9, <1>13, <1>14 DEF ChainInv

(***************************************************************************)
(* The theorems.                                                           *)
(***************************************************************************)

\* The inductive invariant: the log is a sound chain nothing contradicts, the
\* state leads back into it, and above the committed block the fork database
\* is the linked tree that switches, restores and migrate_irreversible_state
\* take for granted.
THEOREM ChainInvariance ==
  ASSUME Ordinary
  PROVE  Spec => [](IInv /\ LimitInv /\ ChainInv)
<1>1. Init => IInv /\ LimitInv /\ ChainInv
  BY InitInv, LimitInit, ChainInit
<1>2. (IInv /\ LimitInv /\ ChainInv) /\ [Next]_vars => (IInv /\ LimitInv /\ ChainInv)'
  BY StepInv, LimitStep, ChainStep DEF Ordinary
<1> QED  BY <1>1, <1>2, PTL DEF Spec

\* The block log is one chain from block 1 on: no fork, failed switch, crash
\* between two appends or restart ever leaves it with a block that does not
\* build on the one before.
THEOREM LogIsChainAlways ==
  ASSUME Ordinary
  PROVE  Spec => []LogIsChain
<1>1. IInv /\ ChainInv => LogIsChain
  <2> SUFFICES ASSUME IInv, ChainInv, NEW n \in 1 .. Len(LogAll)
               PROVE  LogAll[n] = Prefix(LogAll[Len(LogAll)], n)
    BY DEF LogIsChain
  <2>1. Len(LogAll) \in Nat /\ (LogAll = <<>> <=> Len(LogAll) = 0)
    BY LogFacts DEF ChainInv
  <2>2. LogTop = LogAll[Len(LogAll)]
    BY <2>1 DEF LogTop
  <2> QED  BY <2>2 DEF ChainInv, LogOk
<1> QED  BY <1>1, ChainInvariance, PTL

\* When a state is committed the log holds the head's own ancestors up to the
\* last irreversible block, although blocks are looked up by number.
THEOREM LogIsIrreversibleAlways ==
  ASSUME Ordinary
  PROVE  Spec => []LogIsIrreversible
<1>1. IInv /\ ChainInv => LogIsIrreversible
  <2> SUFFICES ASSUME IInv, ChainInv, pc = "commit", NEW n \in 1 .. LibOf[head]
               PROVE  n <= Len(log) /\ log[n] = Prefix(head, n)
    BY DEF LogIsIrreversible
  <2>1. LogOk /\ Sound(head) /\ LibOf[head] <= Len(LogAll) /\ LogAll = log
    BY NoBuffer DEF ChainInv, StateOk, LogOk
  <2>2. LibOf[head] \in Nat /\ Len(LogAll) \in Nat
    BY <2>1, LogFacts, BaseOnHead, LibAssumption
  <2>3. n \in 0 .. LibOf[head] /\ n <= Len(LogAll) /\ n \in 1 .. Len(LogAll)
    BY <2>1, <2>2
  <2>4. Prefix(LogTop, n) = Prefix(head, n)
    BY <2>1, <2>3, LibOnLog
  <2>5. LogAll[n] = Prefix(LogTop, n)
    BY <2>1, <2>3 DEF LogOk
  <2> QED  BY <2>1, <2>3, <2>4, <2>5
<1> QED  BY <1>1, ChainInvariance, PTL

\* Wherever the process dies, open() finds the block that undo_all() leads to
\* in the block log.
THEOREM RecoverableAlways ==
  ASSUME Ordinary
  PROVE  Spec => []Recoverable
<1>1. ChainInv => Recoverable
  BY DEF ChainInv, StateOk
<1> QED  BY <1>1, ChainInvariance, PTL

\* Between two pushes the chain's head is in the fork database, whatever was
\* removed after failed pushes and switches and whatever was trimmed.
THEOREM HeadStaysLinkedAlways ==
  ASSUME Ordinary
  PROVE  Spec => []HeadStaysLinked
<1>1. IInv /\ ChainInv => HeadStaysLinked
  <2> SUFFICES ASSUME IInv, ChainInv, pc = "idle", head # <<>> PROVE head \in index
    BY DEF HeadStaysLinked
  <2>1. head \in Chains /\ Num(head) \in Nat /\ Num(head) > 0 /\ Num(Base) <= Num(head) /\ Num(Base) \in Nat
    BY BaseOnHead, ChainIsSeq
  <2>2. Num(head) \in 1 .. Num(head) /\ Num(head) >= Num(Base)
    BY <2>1
  <2>3. Prefix(head, Num(head)) \in index
    BY <2>2 DEF ChainInv, TreeOk, Running
  <2> QED  BY <2>1, <2>3, PrefixFull
<1> QED  BY <1>1, ChainInvariance, PTL

\* pop_block() throws only when the fork point is below the committed state.
LEMMA PopThrowsBelow ==
  ASSUME IInv, LimitInv, ChainInv, PopThrows
  PROVE  fork < Num(Base)
<1>0. SUFFICES ASSUME ~ (fork < Num(Base)) PROVE FALSE
  OBVIOUS
<1>1. pc \in {"pop", "unpop"} /\ ~ AtForkPoint /\ ~ CanPop
  BY <1>0 DEF PopThrows
<1>2. /\ mode = "switch" /\ target \in Blocks /\ fork \in Nat /\ fhead \in Blocks
      /\ OnChain(fhead, target) /\ head # <<>> /\ fork < Num(head)
  BY <1>0, <1>1, PopFacts DEF AtForkPoint
<1>3. /\ head \in Chains /\ Num(head) \in Nat /\ Num(Base) \in Nat /\ target \in Chains
      /\ fhead \in Chains /\ Num(fhead) \in Nat /\ Num(target) \in Nat
  BY <1>0, <1>2, BaseOnHead, ChainIsSeq DEF Chains
<1>4. Num(Base) <= fork
  BY <1>0, <1>2, <1>3
<1>5. head \in index
  <2>1. Num(head) \in 1 .. Num(head) /\ Num(head) >= Num(Base)
    BY <1>2, <1>3, <1>4
  <2>2. Prefix(head, Num(head)) \in index
    BY <2>1, <1>0, <1>1 DEF ChainInv, TreeOk, Running
  <2> QED  BY <2>2, <1>3, PrefixFull
<1>6. Num(fhead) > Num(head) /\ Reaches(target, fork + 1) /\ fhead # <<>>
  BY <1>0, <1>1, <1>2, <1>4 DEF ChainInv, PushOk, Busy
<1>7. Num(fhead) \in fork + 1 + 1 .. Num(target) /\ Num(fhead) - 1 \in fork + 1 .. Num(target)
  BY <1>2, <1>3, <1>6 DEF OnChain
<1>8. fhead \notin orphan
  <2>1. Prefix(target, Num(fhead)) = fhead
    BY <1>2 DEF OnChain
  <2> QED  BY <2>1, <1>6, <1>7 DEF Reaches
<1>9. Prev(fhead) \in Held
  <2>1. Prev(fhead) = Prefix(fhead, Num(fhead) - 1) /\ Num(fhead) - 1 \in 0 .. Num(fhead)
    BY <1>3, <1>6, PrevIsChain
  <2>2. Prev(fhead) = Prefix(target, Num(fhead) - 1)
    BY <2>1, <1>2, <1>3, OnChainSame
  <2> QED  BY <2>2, <1>1, <1>2, <1>7 DEF Held
<1> QED  BY <1>1, <1>5, <1>6, <1>8, <1>9 DEF CanPop, ForkHeadHasPrev

\* A switch that fails gets back to the head it started from: pop_block()
\* throws only when the fork point is below the committed state, and the old
\* branch can always be applied again.
THEOREM SwitchUnwindsAlways ==
  ASSUME Ordinary
  PROVE  Spec => SwitchUnwinds
<1>1. IInv /\ LimitInv /\ ChainInv =>
        ((PopThrows \/ (ApplyThrows /\ mode = "restore")) => fork < Num(Base))
  BY PopThrowsBelow, ApplyThrowsTree
<1>2. IInv /\ LimitInv /\ ChainInv =>
        [(PopThrows \/ (ApplyThrows /\ mode = "restore")) => fork < Num(Base)]_vars
  BY <1>1
<1> QED  BY <1>2, ChainInvariance, PTL DEF SwitchUnwinds

(***************************************************************************)
(* What was announced as irreversible.                                     *)
(***************************************************************************)

LEMMA AnnouncedFrom ==
  ASSUME NEW S, NEW h \in Chains, NEW m \in Nat, Confirmed' = S, head' = h,
         Num(Base') \in Nat, LibOf[h] \in Nat,
         m <= LibOf[h] \/ m <= Num(Base'),
         pc' # "closed",
         \A b \in S : OnChain(b, h) /\ Num(b) \in Nat /\ (Num(b) <= m \/ Num(b) <= LibOf[h])
  PROVE  AnnouncedOk'
  BY DEF AnnouncedOk, Max2

LEMMA AnnouncedStep ==
  ASSUME Ordinary, IInv, LimitInv, ChainInv, AnnouncedOk, [Next]_vars
  PROVE  AnnouncedOk'
<1> DEFINE top == Max2(LibOf[head], Num(Base))
<1>1. /\ head \in Chains /\ Num(head) \in Nat /\ Base \in Chains /\ Num(Base) \in Nat
      /\ OnChain(Base, head) /\ LibOf[head] \in Nat /\ top \in Nat
      /\ LibOf[head] <= top /\ Num(Base) <= top /\ (top <= LibOf[head] \/ top <= Num(Base))
      /\ Confirmed \subseteq Blocks
  BY BaseOnHead, LibAssumption DEF IInv, TypeOK, Max2, Notice, Confirmed
<1>2. \A b \in Confirmed : b \in Chains /\ Num(b) \in Nat /\ OnChain(b, head) /\ Num(b) <= top
  BY <1>1, ChainIsSeq DEF AnnouncedOk, Chains
<1> HIDE DEF top
<1>3. CASE announced' = {}
  BY <1>3 DEF AnnouncedOk, Confirmed
<1>4. CASE /\ UNCHANGED stateVars /\ Confirmed' = Confirmed
           /\ pc' = "closed" => pc = "closed" /\ UNCHANGED announced
  <2>1. Base' = Base /\ head' = head
    BY <1>4, SameBase
  <2> QED  BY <1>4, <2>1 DEF AnnouncedOk
\* A block c, announced as the new head.
<1>5. ASSUME NEW c \in Blocks, Prev(c) = head, head' = c, Announce(c), pc' # "closed",
             Num(Base') \in Nat, Num(Base') >= Num(Base)
      PROVE  AnnouncedOk'
  <2>1. /\ c \in Chains /\ OnChain(head, c) /\ LibOf[c] \in Nat /\ Num(c) \in Nat
        /\ LibOf[c] <= Num(c) /\ LibOf[head] <= LibOf[c]
    <3>1. c \in Chains /\ c # <<>> /\ Num(c) \in Nat /\ LibOf[c] \in Nat /\ LibOf[c] <= Num(c)
      BY ChainIsSeq, LibAssumption, NoEmptyBlock DEF Chains
    <3>2. Prev(c) = Prefix(c, Num(c) - 1) /\ Num(c) - 1 \in 0 .. Num(c)
      BY <3>1, PrevIsChain
    <3>3. OnChain(head, c)
      BY <3>1, <3>2, <1>5, OnChainPrefix
    <3> QED  BY <3>1, <3>3, <1>1, LibAssumption
  <2>2. ASSUME NEW b \in Confirmed'
        PROVE  OnChain(b, c) /\ Num(b) \in Nat /\ (Num(b) <= top \/ Num(b) <= LibOf[c])
    <3>1. CASE b \in Confirmed
      BY <3>1, <2>1, <1>1, <1>2, OnChainTrans
    <3>2. CASE b \notin Confirmed
      <4>1. PICK n \in {m \in LibOf[head] .. LibOf[c] : m > 0} : b = Prefix(c, n)
        BY <3>2, <1>5 DEF Announce, Confirmed
      <4>2. n \in 0 .. Num(c) /\ n <= LibOf[c] /\ n \in Nat
        BY <4>1, <2>1, <1>1
      <4> QED  BY <4>1, <4>2, <2>1, OnChainPrefix
    <3> QED  BY <3>1, <3>2
  <2>3. top <= LibOf[c] \/ top <= Num(Base')
    BY <2>1, <1>1, <1>5
  <2> QED  BY <2>1, <2>2, <2>3, <1>1, <1>5, AnnouncedFrom
<1>6. CASE Pop
  <2>1. /\ Base' = Base /\ head' \in Chains /\ OnChain(head', head) /\ OnChain(Base, head')
        /\ pc' = pc /\ pc \in {"pop", "unpop"} /\ Confirmed' = Confirmed
    BY <1>6, PopBase DEF Pop, Confirmed
  <2>2. LibOf[head] <= Num(Base)
    <3>1. Num(Base) = Num(head) - Len(undo)
      BY <2>1, BaseInLog DEF Running, ChainInv, StateOk
    <3> QED  BY <3>1, <2>1, <1>1 DEF LimitInv
  <2>3. top <= Num(Base)
    BY <2>2, <1>1
  <2>4. ASSUME NEW b \in Confirmed PROVE OnChain(b, head')
    <3>1. b \in Chains /\ OnChain(b, head) /\ Num(b) <= Num(Base)
      BY <2>3, <1>1, <1>2
    <3>2. OnChain(b, Base)
      BY <3>1, <1>1, OnChainBoth
    <3> QED  BY <3>1, <3>2, <2>1, <1>1, OnChainTrans
  <2>5. LibOf[head'] \in Nat
    BY <2>1, LibAssumption
  <2>6. \A b \in Confirmed :
          OnChain(b, head') /\ Num(b) \in Nat /\ (Num(b) <= top \/ Num(b) <= LibOf[head'])
    BY <2>4, <1>2
  <2>7. pc' # "closed" /\ Num(Base') \in Nat /\ (top <= LibOf[head'] \/ top <= Num(Base'))
    BY <2>1, <2>3, <1>1
  <2> QED  BY <2>1, <2>5, <2>6, <2>7, <1>1, AnnouncedFrom
<1>7. CASE Apply
  <2>1. pc = "apply" /\ head' = Cur /\ Announce(Cur) /\ pc' # "closed" /\ Base' = Base
        /\ Applicable(Cur, CurForkHead)
    BY <1>7, ApplyBase DEF Apply
  <2>2. Cur \in Blocks /\ Prev(Cur) = head
    BY <2>1, CurFacts, Failure
  <2> QED  BY <2>1, <2>2, <1>1, <1>5
<1>8. CASE ApplyThrows
  <2>1. pc = "apply" /\ ~ Applicable(Cur, CurForkHead) /\ UNCHANGED stateVars
    BY <1>8 DEF ApplyThrows
  <2>2. ~ HeaderOk(Cur) \/ Fate[Cur] # "ok"
    BY <2>1, Failure
  <2>3. pc' # "closed" /\ (UNCHANGED announced \/ (Announce(Cur) /\ Fate[Cur] # "ok"))
    <3>1. mode \in {"direct", "switch", "restore"}
      BY DEF IInv, TypeOK
    <3> QED  BY <3>1, <2>2, <1>8 DEF ApplyThrows, Return
  <2>4. Confirmed' = Confirmed
    <3>1. CASE UNCHANGED announced
      BY <3>1 DEF Confirmed
    <3>2. CASE Announce(Cur) /\ Fate[Cur] # "ok"
      <4>1. {q \in announced' : q.fate = "ok"} = {q \in announced : q.fate = "ok"}
        BY <3>2 DEF Announce
      <4> QED  BY <4>1 DEF Confirmed
    <3> QED  BY <3>1, <3>2, <2>3
  <2> QED  BY <2>1, <2>3, <2>4, <1>4
<1>9. CASE Commit
  <2>1. /\ head' = head /\ Num(Base') \in Nat /\ Num(Base') >= Num(Base)
        /\ Confirmed' = Confirmed /\ pc' # "closed"
    BY <1>9, CommitBase DEF Commit, Return, Confirmed
  <2>2. top <= LibOf[head] \/ top <= Num(Base')
    BY <2>1, <1>1
  <2> QED  BY <2>1, <2>2, <1>1, <1>2, AnnouncedFrom
<1>10. CASE ReindexBlock
  <2>1. /\ pc = "reindex" /\ pc' = "reindex" /\ Num(head) < Len(log) /\ head' = NextLogged
        /\ Prev(NextLogged) = head /\ Announce(NextLogged) /\ undo' = undo
    BY <1>10 DEF ReindexBlock, CanReindex
  <2>2. undo = <<>> /\ log \in Seq(Blocks) /\ Len(log) \in Nat
    BY <2>1, LogParts DEF IInv, RevisionIsNumber
  <2>3. NextLogged \in Blocks
    <3>1. Num(head) + 1 \in 1 .. Len(log)
      BY <2>1, <2>2, <1>1
    <3> QED  BY <3>1, <2>2, ElementOfSeq DEF NextLogged
  <2>4. Base = head /\ Base' = NextLogged
    BY <2>1, <2>2 DEF Base
  <2>5. Num(Base') \in Nat /\ Num(Base') >= Num(Base)
    <3>1. NextLogged \in Chains /\ NextLogged # <<>>
      BY <2>3, NoEmptyBlock DEF Chains
    <3>2. Num(Prev(NextLogged)) = Num(NextLogged) - 1 /\ Num(NextLogged) \in Nat
      BY <3>1, PrevIsChain, ChainIsSeq
    <3>3. Num(head) = Num(NextLogged) - 1
      BY <3>2, <2>1
    <3> QED  BY <3>2, <3>3, <2>4
  <2> QED  BY <2>1, <2>3, <2>5, <1>5
<1>11. CASE ReindexDone
  <2>1. pc' = "idle" /\ head' = head /\ undo' = undo /\ Confirmed' = Confirmed
    BY <1>11 DEF ReindexDone, Confirmed
  <2>2. Base' = Base
    BY <2>1 DEF Base
  <2> QED  BY <2>1, <2>2 DEF AnnouncedOk
<1>12. CASE Open \/ OpenThrows \/ Reindex
  <2>1. pc = "closed" /\ announced' = announced
    BY <1>12 DEF Open, OpenThrows, Reindex
  <2>2. announced' = {}
    BY <2>1 DEF AnnouncedOk
  <2> QED  BY <2>2, <1>3
<1>13. CASE Close \/ Crash \/ ReindexThrows
  BY <1>3, <1>13 DEF Close, Crash, ReindexThrows
<1>14. ASSUME NEW b \in Blocks, PushDirect(b) \/ PushKept(b) \/ PushSwitch(b) \/ PushThrows(b)
       PROVE  AnnouncedOk'
  BY <1>4, <1>14 DEF PushDirect, PushKept, PushSwitch, PushThrows, Pushed, Confirmed
<1>15. CASE PopThrows \/ Popped \/ AppendBlock \/ FlushLog
  BY <1>4, <1>15 DEF PopThrows, Popped, AppendBlock, FlushLog, Return, Confirmed
<1>16. CASE UNCHANGED vars
  BY <1>4, <1>16 DEF vars, Confirmed
<1> QED  BY <1>6, <1>7, <1>8, <1>9, <1>10, <1>11, <1>12, <1>13, <1>14, <1>15, <1>16 DEF Next, Work

\* Wherever blocks fail: what an observer was told is irreversible, by a block
\* that did not throw later, is on the chain for as long as the process lives.
THEOREM IrreversibleStaysAlways ==
  ASSUME Ordinary
  PROVE  Spec => []IrreversibleStays
<1>1. Init => AnnouncedOk
  BY DEF Init, AnnouncedOk, Confirmed
<1>2. IInv /\ LimitInv /\ ChainInv /\ AnnouncedOk /\ [Next]_vars => AnnouncedOk'
  BY AnnouncedStep
<1>3. AnnouncedOk => IrreversibleStays
  BY DEF AnnouncedOk, IrreversibleStays
<1> QED  BY <1>1, <1>2, <1>3, ChainInvariance, PTL DEF Spec

-----------------------------------------------------------------------------
(***************************************************************************)
(* The longest chain, for trees of blocks that can all be applied.         *)
(***************************************************************************)

LEMMA SoundAll ==
  ASSUME AllGood, NEW b \in Chains
  PROVE  Sound(b)
<1>1. ASSUME NEW n \in 1 .. Num(b) PROVE Good(Prefix(b, n))
  <2>1. n \in 0 .. Num(b) /\ n > 0
    BY ChainIsSeq
  <2>2. Prefix(b, n) \in Blocks
    BY <2>1, PrefixIsChain
  <2> QED  BY <2>2 DEF AllGood
<1> QED  BY <1>1 DEF Sound

\* A fork that leaves the chain above the committed state and rises above the
\* head is one block higher, and both branches are found.
LEMMA PushAhead ==
  ASSUME Ordinary, AllGood, IInv, ChainInv, NEW b \in Blocks, Pushed(b),
         head # <<>>, fhead = head, Highest(head), ~ Competes(b),
         Num(b) > Num(head), Prev(b) # head
  PROVE  /\ Num(Base) <= ForkPoint(b, head)
         /\ BranchesFound(b, head, Index1(b), Orphan1(b))
<1> DEFINE f == ForkPoint(b, head)
<1>1. /\ Base' = Base /\ head' = head /\ index' = index \cup {b}
      /\ \A n \in 1 .. Num(head) : n >= Num(Base) => Prefix(head, n) \in index'
      /\ (\A x \in Items : Linked(x))'
      /\ index' = Index1(b) /\ orphan' = Orphan1(b) /\ Accepts(b)
  BY PushedTree DEF Pushed
<1>2. /\ b \in Chains /\ head \in Chains /\ head \in Blocks /\ Num(b) \in Nat /\ Num(head) \in Nat
      /\ Num(head) > 0 /\ Base \in Chains /\ Num(Base) \in Nat /\ Num(Base) <= Num(head)
      /\ OnChain(Base, head) /\ b # <<>> /\ index \subseteq Blocks /\ index' \subseteq Blocks
  BY <1>1, BaseOnHead, ChainIsSeq, NoEmptyBlock DEF Chains, IInv, TypeOK
<1>3. Prev(b) \in Chains /\ Num(Prev(b)) = Num(b) - 1
  BY <1>2, PrevIsChain
<1>4. Num(b) = Num(head) + 1
  <2>1. Prev(b) = <<>> \/ Prev(b) \in index
    BY <1>1 DEF Accepts, Links
  <2>2. CASE Prev(b) = <<>>
    <3>1. Num(b) = 1
      BY <2>2, <1>2, <1>3, ChainIsSeq
    <3> QED  BY <3>1, <1>2
  <2>3. CASE Prev(b) \in index
    <3>1. Num(Prev(b)) <= Num(head)
      BY <2>3 DEF Highest
    <3> QED  BY <3>1, <1>2, <1>3
  <2> QED  BY <2>1, <2>2, <2>3
<1>5. OnChain(Base, b)
  <2>1. ~ OnChain(b, Base)
    BY <1>2 DEF OnChain
  <2> QED  BY <2>1 DEF Competes
<1>6. /\ f \in Nat /\ f < Num(b) /\ f < Num(head)
      /\ \A m \in f + 1 .. Num(head) - 1 : m < Num(b) => Prefix(b, m) # Prefix(head, m)
  BY <1>2, ForkPointExists
<1> HIDE DEF f
<1>7. Num(Base) <= f
  <2> SUFFICES ASSUME f < Num(Base) PROVE FALSE
    BY <1>2, <1>6
  <2>1. Prefix(b, Num(Base)) = Base /\ Prefix(head, Num(Base)) = Base
    BY <1>2, <1>5 DEF OnChain
  <2>2. CASE Num(Base) < Num(head)
    <3>1. Num(Base) \in f + 1 .. Num(head) - 1 /\ Num(Base) < Num(b)
      BY <2>2, <1>2, <1>6
    <3> QED  BY <3>1, <2>1, <1>6
  <2>3. CASE Num(Base) = Num(head)
    <3>1. Base = head
      BY <2>3, <1>2, OnChainEqual
    <3>2. Prev(b) = Prefix(b, Num(b) - 1) /\ Num(b) - 1 = Num(Base)
      BY <2>3, <1>2, <1>4, PrevIsChain
    <3> QED  BY <2>1, <3>1, <3>2
  <2> QED  BY <1>2, <2>2, <2>3
\* An item whose previous block is above the base points to it.
<1>8. ASSUME NEW x \in index', Num(x) > Num(Base) + 1
      PROVE  Prev(x) \in index' /\ x \notin orphan'
  <2>1. x \in Chains /\ x # <<>> /\ x \in Items' /\ Num(x) \in Nat
    BY <1>2, NoEmptyBlock, ChainIsSeq DEF Items, Chains
  <2>2. Prev(x) \in Chains /\ Num(Prev(x)) = Num(x) - 1
    BY <2>1, PrevIsChain
  <2>3. Prev(x) # <<>> /\ ~ (Num(Prev(x)) < Num(Base))
    BY <2>1, <2>2, <1>2, <1>8, ChainIsSeq
  <2>4. Sound(Prev(x))
    BY <2>2, SoundAll
  <2>5. ~ Gone(Prev(x))'
    BY <2>3, <2>4, <1>1 DEF Gone
  <2> QED  BY <2>1, <2>3, <2>5, <1>1 DEF Linked
<1>9. ASSUME NEW n \in f + 1 .. Num(b) PROVE Prefix(b, n) \in index'
  <2> DEFINE orp == {x \in index' : Num(x) <= f + 1}
  <2>1. \A x \in index' : x \notin orp => Prev(x) \in index' \cup {b}
    <3> SUFFICES ASSUME NEW x \in index', ~ (Num(x) <= f + 1) PROVE Prev(x) \in index'
      OBVIOUS
    <3>1. Num(x) \in Nat
      BY <1>2, ChainIsSeq DEF Chains
    <3>2. Num(x) > Num(Base) + 1
      BY <3>1, <1>2, <1>6, <1>7
    <3> QED  BY <3>2, <1>8
  <2>2. \A m \in f + 1 + 1 .. Num(b) : Prefix(b, m) \notin orp
    <3>1. ASSUME NEW m \in f + 1 + 1 .. Num(b) PROVE ~ (Num(Prefix(b, m)) <= f + 1)
      <4>1. m \in 0 .. Num(b) /\ ~ (m <= f + 1)
        BY <1>2, <1>6
      <4> QED  BY <4>1, <1>2, PrefixIsChain
    <3> QED  BY <3>1
  <2>3. f + 1 \in Nat /\ n > 0 /\ n \in f + 1 .. Num(b) /\ b \in index' /\ index' \in SUBSET Blocks
    BY <1>1, <1>2, <1>6
  <2> HIDE DEF orp
  <2> QED  BY <2>1, <2>2, <2>3, WalkBack
<1>10. \A n \in f + 2 .. Num(b) : Prefix(b, n) \notin orphan'
  <2> SUFFICES ASSUME NEW n \in f + 2 .. Num(b) PROVE Prefix(b, n) \notin orphan'
    OBVIOUS
  <2>1. n \in f + 1 .. Num(b) /\ n \in 0 .. Num(b) /\ n > Num(Base) + 1
    BY <1>2, <1>6, <1>7
  <2>2. Num(Prefix(b, n)) = n /\ Prefix(b, n) \in index'
    BY <2>1, <1>2, <1>9, PrefixIsChain
  <2> QED  BY <2>1, <2>2, <1>8
<1>11. \A n \in f + 2 .. Num(head) : Prefix(head, n) \notin orphan'
  <2> SUFFICES ASSUME NEW n \in f + 2 .. Num(head) PROVE Prefix(head, n) \notin orphan'
    OBVIOUS
  <2>1. n \in 1 .. Num(head) /\ n >= Num(Base) /\ n \in 0 .. Num(head) /\ n > Num(Base) + 1
    BY <1>2, <1>6, <1>7
  <2>2. Num(Prefix(head, n)) = n /\ Prefix(head, n) \in index'
    BY <2>1, <1>1, <1>2, PrefixIsChain
  <2> QED  BY <2>1, <2>2, <1>8
<1>12. b \in index' /\ head \in index'
  <2>1. Num(head) \in 1 .. Num(head) /\ Num(head) >= Num(Base)
    BY <1>2
  <2>2. Prefix(head, Num(head)) = head
    BY <1>2, PrefixFull
  <2> QED  BY <2>1, <2>2, <1>1
<1> QED  BY <1>1, <1>7, <1>10, <1>11, <1>12 DEF BranchesFound, f

\* What the fork database takes is a new block, and does not compete.
LEMMA PushWatch ==
  ASSUME Ordinary, AllGood, IInv, LimitInv, ChainInv, LongInv, NEW b \in Blocks,
         PushDirect(b) \/ PushKept(b) \/ PushSwitch(b) \/ PushThrows(b),
         contested' = (pc' # "closed" /\ (contested \/ \E x \in index' \ index : Competes(x)))
  PROVE  LongInv'
<1>1. /\ Pushed(b) /\ pc = "idle" /\ fhead' = Head1(b) /\ index' = Index1(b) /\ orphan' = Orphan1(b)
  BY DEF PushDirect, PushKept, PushSwitch, PushThrows, Pushed
<1>2. /\ Base' = Base /\ head' = head /\ b \notin index /\ index' = index \cup {b}
      /\ fhead' \in {b, fhead} /\ fhead' \in Blocks /\ Num(fhead') >= Num(b)
  BY <1>1, PushedTree
<1>3. /\ b \in Chains /\ Num(b) \in Nat /\ Num(b) > 0 /\ b # <<>> /\ head \in Chains /\ Num(head) \in Nat
      /\ fhead \in Chains /\ Num(fhead) \in Nat /\ fhead' \in Chains /\ Num(fhead') \in Nat
      /\ index \subseteq Blocks /\ \A x \in index : Num(x) \in Nat
  BY <1>2, ChainIsSeq, NoEmptyBlock DEF Chains, IInv, TypeOK
<1>4. pc' \in {"idle", "apply", "pop"}
  BY <1>1 DEF PushDirect, PushKept, PushSwitch, PushThrows
<1> SUFFICES ASSUME ~ contested' PROVE LongInv'
  BY DEF LongInv
<1>5. ~ contested /\ ~ Competes(b)
  BY <1>2, <1>4
<1>6. CASE head = <<>>
  <2>1. Num(fhead) # 1 /\ Num(head) = 0
    BY <1>1, <1>3, <1>5, <1>6, ChainIsSeq DEF LongInv, Running
  <2>2. (index = {} /\ Num(fhead) <= 1) \/ Num(fhead) > 1
    BY <1>1, <1>6 DEF ChainInv, TreeOk, Genesis
  <2>3. Num(Prev(fhead')) = Num(fhead') - 1 /\ Prev(fhead') \in Chains
    BY <1>2, <1>3, PrevIsChain, NoEmptyBlock
  <2>4. Prev(fhead') = <<>> <=> Num(fhead') = 1
    BY <2>3, <1>3, ChainIsSeq
  <2>5. CASE PushDirect(b)
    <3>1. pc' = "apply" /\ mode' = "direct" /\ target' = b /\ Prev(fhead') = head
      BY <2>5, <1>1 DEF PushDirect
    <3>2. Num(fhead') = 1
      BY <3>1, <2>4, <1>6
    <3>3. fhead' = b /\ index = {}
      BY <3>2, <2>1, <2>2, <1>2, <1>1, <1>3 DEF Head1
    <3>4. Highest(b)'
      BY <3>3, <1>2, <1>3 DEF Highest
    <3> QED  BY <3>1, <3>3, <3>4 DEF LongInv, Highest
  <2>6. CASE PushKept(b) \/ PushThrows(b)
    <3>1. pc' = "idle" /\ Prev(fhead') # head
      BY <2>6, <1>1 DEF PushKept, PushThrows
    <3>2. Num(fhead') # 1
      BY <3>1, <2>4, <1>6
    <3> QED  BY <3>1, <3>2, <1>2, <1>6 DEF LongInv, Busy
  <2>7. CASE PushSwitch(b)
    <3>1. head \in Index1(b)
      BY <2>7 DEF PushSwitch, BranchesFound
    <3> QED  BY <3>1, <1>3, <1>6, NoEmptyBlock DEF Index1
  <2> QED  BY <2>5, <2>6, <2>7
<1>7. CASE head # <<>>
  <2>1. fhead = head /\ Highest(head)
    BY <1>1, <1>5, <1>7 DEF LongInv, Running
  <2>2. fhead' = IF Num(b) > Num(head) THEN b ELSE head
    BY <2>1, <1>1 DEF Head1
  <2>3. Num(Prev(head)) = Num(head) - 1
    BY <1>3, <1>7, PrevIsChain
  <2>4. CASE PushDirect(b)
    <3>1. pc' = "apply" /\ mode' = "direct" /\ target' = b /\ Prev(fhead') = head
      BY <2>4, <1>1 DEF PushDirect
    <3>2. fhead' = b /\ Num(b) > Num(head)
      BY <3>1, <2>2, <2>3, <1>3
    <3>3. Highest(b)'
      BY <3>2, <2>1, <1>2, <1>3 DEF Highest
    <3> QED  BY <3>1, <3>2, <3>3 DEF LongInv, Highest
  <2>5. CASE PushKept(b)
    <3>1. pc' = "idle" /\ Num(fhead') <= Num(head)
      BY <2>5, <1>1 DEF PushKept
    <3>2. fhead' = head /\ Num(b) <= Num(head)
      BY <3>1, <2>2, <1>3
    <3>3. Highest(head)'
      BY <3>2, <2>1, <1>2 DEF Highest
    <3> QED  BY <3>1, <3>2, <3>3, <1>2, <1>7 DEF LongInv, Busy
  <2>6. CASE PushSwitch(b) \/ PushThrows(b)
    <3>1. Num(fhead') > Num(head) /\ Prev(fhead') # head
      BY <2>6, <1>1 DEF PushSwitch, PushThrows
    <3>2. Head1(b) = b /\ Num(b) > Num(head) /\ Prev(b) # head
      BY <3>1, <2>2, <1>1, <1>3
    <3>3. Num(Base) <= ForkPoint(b, head) /\ BranchesFound(b, head, Index1(b), Orphan1(b))
      BY <3>2, <2>1, <1>1, <1>5, <1>7, PushAhead
    <3>4. PushSwitch(b)
      BY <2>6, <3>2, <3>3 DEF PushThrows
    <3>5. pc' = "pop" /\ mode' = "switch" /\ target' = b /\ fork' = ForkPoint(b, head)
      BY <3>2, <3>4 DEF PushSwitch
    <3>6. Highest(b)'
      BY <3>2, <2>1, <1>2, <1>3 DEF Highest
    <3>7. Num(Base') <= fork'
      BY <3>3, <3>5, <1>2
    <3> QED  BY <3>5, <3>6, <3>7 DEF LongInv, Highest
  <2> QED  BY <2>4, <2>5, <2>6
<1> QED  BY <1>6, <1>7

\* Steps of a push that keep the fork database's blocks.
LEMMA WorkWatch ==
  ASSUME Ordinary, AllGood, IInv, LimitInv, ChainInv, LongInv, ~ contested, Running,
         Pop \/ PopThrows \/ Popped \/ Apply \/ ApplyThrows \/ AppendBlock \/ FlushLog \/ Commit
  PROVE  LongInv'
<1>0. mode \in {"direct", "switch", "restore"} /\ head \in Chains /\ target \in Chains
  BY DEF IInv, TypeOK
<1>1. CASE Pop
  <2>1. /\ pc \in {"pop", "unpop"} /\ UNCHANGED <<index, pc, mode, target, fork>> /\ Base' = Base
        /\ mode = "switch"
    BY <1>1, PopBase DEF Pop, pushVars, IInv, LocalsOk
  <2>2. pc = "pop" /\ Num(Base) <= fork /\ Highest(target)
    BY <2>1 DEF LongInv, Busy
  <2> QED  BY <2>1, <2>2 DEF LongInv, Highest, Busy
<1>2. CASE PopThrows
  <2>1. pc \in {"pop", "unpop"} /\ fork < Num(Base) /\ mode = "switch"
    BY <1>2, PopThrowsBelow DEF PopThrows, IInv, LocalsOk
  <2>2. Num(Base) <= fork
    BY <2>1 DEF LongInv, Busy
  <2>3. fork \in Nat /\ Num(Base) \in Nat
    BY BaseOnHead DEF IInv, TypeOK
  <2> QED  BY <2>1, <2>2, <2>3
<1>3. CASE Popped
  <2>1. pc \in {"pop", "unpop"} /\ mode = "switch"
    BY <1>3 DEF Popped, IInv, LocalsOk
  <2>2. pc = "pop" /\ Highest(target)
    BY <2>1 DEF LongInv, Busy
  <2> QED  BY <2>2, <1>3 DEF Popped, LongInv, Highest, Busy, forkVars
<1>4. CASE Apply
  <2>1. /\ pc = "apply" /\ pc' = "append" /\ head' = Cur /\ fhead' = CurForkHead
        /\ UNCHANGED <<index, mode, target>>
    BY <1>4 DEF Apply, pushVars
  <2>2. CASE mode = "direct"
    <3>1. fhead = target /\ Highest(target) /\ Cur = target /\ CurForkHead = fhead
      BY <2>1, <2>2, CurFacts DEF LongInv
    <3> QED  BY <2>1, <2>2, <3>1 DEF LongInv, Highest, Busy
  <2>3. CASE mode # "direct"
    <3>1. mode = "switch" /\ Highest(target) /\ CurForkHead = Cur
      BY <2>1, <2>3, CurFacts DEF LongInv, Busy
    <3> QED  BY <2>1, <3>1 DEF LongInv, Highest, Busy
  <2> QED  BY <2>2, <2>3
<1>5. CASE ApplyThrows
  <2>1. pc = "apply" /\ ~ Applicable(Cur, CurForkHead)
    BY <1>5 DEF ApplyThrows
  <2>2. Cur \in Blocks /\ Prev(CurForkHead) = head
    BY <2>1, CurFacts
  <2>3. Prev(Cur) = head
    <3>1. CASE mode = "direct"
      BY <3>1, <2>1, <2>2, CurFacts DEF LongInv
    <3>2. CASE mode # "direct"
      BY <3>2, <2>1, CurFacts
    <3> QED  BY <3>1, <3>2
  <2>4. Good(Cur)
    BY <2>2 DEF AllGood
  <2> QED  BY <2>1, <2>3, <2>4, Failure
<1>6. CASE AppendBlock \/ FlushLog
  <2>1. /\ pc = "append" /\ pc' \in {"append", "commit"}
        /\ UNCHANGED <<head, index, fhead, mode, target>>
    BY <1>6 DEF AppendBlock, FlushLog, stateVars, forkVars, pushVars
  <2>2. /\ fhead = head /\ mode = "direct" => Highest(head)
        /\ mode # "direct" => mode = "switch" /\ Highest(target)
    BY <2>1 DEF LongInv, Busy
  <2> QED  BY <2>1, <2>2 DEF LongInv, Highest, Busy
<1>7. CASE Commit
  <2>1. pc = "commit" /\ head' = head /\ fhead = head
    BY <1>7 DEF Commit, LongInv
  <2>2. /\ mode = "direct" => Highest(head)
        /\ mode # "direct" => mode = "switch" /\ Highest(target)
    BY <2>1 DEF LongInv, Busy
  <2>3. Trimmed \subseteq index
    BY DEF Trimmed
  <2>4. CASE PushDone
    <3>1. pc' = "idle" /\ index' = Trimmed /\ fhead' = fhead
      BY <1>7, <2>4 DEF Commit, Return
    <3>2. Highest(head)
      BY <2>2, <2>4 DEF PushDone
    <3>3. head # <<>>
      BY <2>1 DEF ChainInv, PushOk
    <3> QED  BY <2>1, <2>3, <3>1, <3>2, <3>3 DEF LongInv, Highest, Busy
  <2>5. CASE ~ PushDone
    <3>1. pc' = "apply" /\ index' = Trimmed /\ UNCHANGED <<fhead, mode, target>>
      BY <1>7, <2>5 DEF Commit, pushVars
    <3>2. mode = "switch" /\ Highest(target)
      BY <2>2, <2>5 DEF PushDone
    <3> QED  BY <2>3, <3>1, <3>2 DEF LongInv, Highest, Busy
  <2> QED  BY <2>4, <2>5
<1> QED  BY <1>1, <1>2, <1>3, <1>4, <1>5, <1>6, <1>7

\* The fork database starts at the head.
LEMMA StartWatch ==
  ASSUME NEW h \in Chains, head' = h, ForkStart(h), pc' = "idle"
  PROVE  LongInv'
<1>1. fhead' = h /\ index' = {h} \ {<<>>} /\ Num(h) \in Nat
  BY ChainIsSeq DEF ForkStart
<1>2. h = <<>> => Num(h) # 1
  BY ChainIsSeq
<1>3. Highest(head)'
  BY <1>1 DEF Highest
<1> QED  BY <1>1, <1>2, <1>3 DEF LongInv, Busy

LEMMA RestartWatch ==
  ASSUME IInv, ChainInv,
         Close \/ Crash \/ Open \/ OpenThrows \/ Reindex \/ ReindexBlock \/ ReindexThrows \/ ReindexDone
  PROVE  LongInv'
<1>1. CASE Close \/ Crash \/ OpenThrows \/ Reindex \/ ReindexBlock \/ ReindexThrows
  <2>1. pc' \in {"closed", "reindex"}
    BY <1>1 DEF Close, Crash, OpenThrows, Reindex, ReindexBlock, ReindexThrows
  <2> QED  BY <2>1 DEF LongInv, Running
<1>2. CASE Open
  <2>1. head' = Base /\ ForkStart(Base) /\ pc' = "idle" /\ Base \in Chains
    BY <1>2, BaseOnHead DEF Open
  <2> QED  BY <2>1, StartWatch
<1>3. CASE ReindexDone
  <2>1. /\ pc = "reindex" /\ pc' = "idle" /\ head' = head /\ Num(head) = Len(log)
        /\ log # <<>> /\ ForkStart(log[Len(log)])
    BY <1>3 DEF ReindexDone, IInv, RevisionIsNumber
  <2>2. log = LogAll /\ OnChain(head, LogTop) /\ LogOk
    BY <2>1, NoBuffer DEF ChainInv, LogOk, StateOk
  <2>3. LogTop = log[Len(log)] /\ LogTop \in Chains /\ Num(LogTop) = Num(head) /\ head \in Chains
    BY <2>1, <2>2, LogFacts, BaseOnHead DEF LogTop
  <2>4. head = log[Len(log)]
    BY <2>2, <2>3, OnChainEqual
  <2> QED  BY <2>1, <2>3, <2>4, StartWatch
<1> QED  BY <1>1, <1>2, <1>3

LEMMA WatchStep ==
  ASSUME Ordinary, AllGood, IInv, LimitInv, ChainInv, LongInv, [WatchNext]_<<vars, contested>>
  PROVE  LongInv'
<1>1. CASE UNCHANGED <<vars, contested>>
  BY <1>1 DEF vars, stateVars, forkVars, pushVars, LongInv, Running, Busy, Highest, Base
<1>2. CASE WatchNext
  <2>1. /\ Next
        /\ contested' = (pc' # "closed" /\ (contested \/ \E x \in index' \ index : Competes(x)))
    BY <1>2 DEF WatchNext, Watch, Next, Work
  <2>2. ASSUME NEW b \in Blocks, PushDirect(b) \/ PushKept(b) \/ PushSwitch(b) \/ PushThrows(b)
        PROVE  LongInv'
    BY <2>1, <2>2, PushWatch
  <2>3. CASE Pop \/ PopThrows \/ Popped \/ Apply \/ ApplyThrows \/ AppendBlock \/ FlushLog \/ Commit
    <3>1. Running
      BY <2>3 DEF Running, Pop, PopThrows, Popped, Apply, ApplyThrows, AppendBlock, FlushLog, Commit
    <3>2. CASE ~ contested
      BY <2>3, <3>1, <3>2, WorkWatch
    <3>3. CASE contested
      <4>1. pc' # "closed"
        <5>1. CASE Pop \/ PopThrows \/ Popped \/ Apply \/ AppendBlock \/ FlushLog
          BY <5>1 DEF Pop, PopThrows, Popped, Apply, AppendBlock, FlushLog, Return
        <5>2. CASE Commit
          BY <5>2 DEF Commit, Return
        <5>3. CASE ApplyThrows
          <6>1. mode \in {"direct", "switch", "restore"}
            BY DEF IInv, TypeOK
          <6> QED  BY <5>3, <6>1 DEF ApplyThrows, Return
        <5> QED  BY <2>3, <5>1, <5>2, <5>3
      <4> QED  BY <2>1, <3>3, <4>1 DEF LongInv
    <3> QED  BY <3>2, <3>3
  <2>4. CASE Close \/ Crash \/ Open \/ OpenThrows \/ Reindex \/ ReindexBlock \/ ReindexThrows \/ ReindexDone
    BY <2>4, RestartWatch
  <2> QED  BY <2>1, <2>2, <2>3, <2>4 DEF Next, Work
<1> QED  BY <1>1, <1>2

\* As long as it has not been given a block that competes with its committed
\* state, a node whose blocks can all be applied is at the highest block it
\* has, after any interleaving of forks, switches, crashes and restarts.
THEOREM FollowsLongestAlways ==
  ASSUME Ordinary, AllGood
  PROVE  WatchSpec => []FollowsLongest
<1>1. WatchInit => Init
  BY DEF WatchInit
<1>2. [WatchNext]_<<vars, contested>> => [Next]_vars
  BY DEF WatchNext, Next, Work
<1>3. WatchSpec => Spec
  BY <1>1, <1>2, PTL DEF WatchSpec, Spec
<1>4. WatchInit => LongInv
  <2> SUFFICES ASSUME WatchInit PROVE LongInv
    OBVIOUS
  <2>1. head = InitChain /\ fhead = InitChain /\ index = {InitChain} \ {<<>>} /\ pc = "idle"
    BY DEF WatchInit, Init
  <2>2. InitChain \in Chains /\ (InitChain = <<>> => Num(InitChain) # 1) /\ Num(InitChain) \in Nat
    BY InitAssumption, ChainIsSeq
  <2>3. Highest(head)
    BY <2>1, <2>2 DEF Highest
  <2> QED  BY <2>1, <2>2, <2>3 DEF LongInv, Busy
<1>5. (IInv /\ LimitInv /\ ChainInv) /\ LongInv /\ [WatchNext]_<<vars, contested>> => LongInv'
  BY WatchStep
<1>6. LongInv => FollowsLongest
  BY DEF LongInv, FollowsLongest, Highest, Running
<1> QED  BY <1>3, <1>4, <1>5, <1>6, ChainInvariance, PTL DEF WatchSpec
==============================================================================
