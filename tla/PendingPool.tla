----------------------------- MODULE PendingPool -----------------------------
(***************************************************************************)
(* The transactions a node holds that are not on its chain: push_transaction, *)
(* what a pushed block does to them (pending_transactions_restorer with    *)
(* its time limit, pop_block in a fork switch), and the production of a    *)
(* block from them.  Which block the fork database prefers is ForkChain's  *)
(* subject: here a foreign block extends the chain, is refused, or starts  *)
(* a switch of forks that succeeds or fails at any point.                  *)
(***************************************************************************)
EXTENDS Integers, Sequences, SequencesExt

CONSTANTS Tx,             \* transactions
          Expiry, Size,   \* Expiry[t], Size[t]
          Needs,          \* Needs[t]: what must have been applied before t
          Conflicts,      \* Conflicts[t]: what must not have been
          MaxAhead,       \* MAX_TIME_UNTIL_EXPIRATION
          BlockSize,      \* the largest transaction push_transaction takes
          Partition,      \* maximum_transaction_partition_size
          PostponedLimit, \* BLOCK_GENERATION_POSTPONED_TX_LIMIT
          MaxTime, MaxLen, MaxPending, MaxBlockTxs  \* bounds of the model

Times  == 1 .. MaxTime
Blocks == [txs : BoundedSeq(Tx, MaxBlockTxs), time : Times]
Block  == [txs : Seq(Tx), time : Nat]

ASSUME TxAssumption ==
  /\ Expiry \in [Tx -> Nat] /\ Size \in [Tx -> Nat]
  /\ Needs \in [Tx -> SUBSET Tx] /\ Conflicts \in [Tx -> SUBSET Tx]
ASSUME LimitsAssumption ==
  /\ MaxAhead \in Nat /\ BlockSize \in Nat /\ Partition \in Nat /\ PostponedLimit \in Nat
  /\ MaxTime \in Nat /\ MaxLen \in Nat /\ MaxPending \in Nat /\ MaxBlockTxs \in Nat

VARIABLES
  chain,             \* the blocks of the chain; the first is never popped
  session, applied,  \* whether _pending_tx_session is valid, and the
                     \* transactions applied in it
  phantom,           \* 0, or the time of a block that an interrupted
                     \* generate_block has left as head in the session
  pending,           \* _pending_tx
  todo,              \* _popped_tx, then the saved _pending_transactions; while
                     \* a block is generated, the rest of _pending_tx
  late,              \* the time limit has struck (~ apply_trxs)
  pc, old, fork,     \* control of push_block: the chain before a switch and
                     \* the number of its blocks that stay
  gen,               \* the block being generated
  owed, culled,      \* history: the transactions the node has taken and not
                     \* given up; the ones given up by the current push;
  delayed            \* whether the time limit has ever struck

vars == <<chain, session, applied, phantom, pending, todo, late, pc, old, fork, gen, owed, culled, delayed>>

Genesis == [txs |-> <<>>, time |-> 0]
NoGen   == [when |-> 0, txs |-> <<>>, used |-> 0, postponed |-> 0, linked |-> TRUE]

Init == /\ chain = <<Genesis>>
        /\ session = FALSE /\ applied = <<>> /\ phantom = 0
        /\ pending = <<>> /\ todo = <<>> /\ late = FALSE
        /\ pc = "idle" /\ old = <<>> /\ fork = 0
        /\ gen = NoGen
        /\ owed = {} /\ culled = {} /\ delayed = FALSE

-----------------------------------------------------------------------------
HeadTime(ch) == ch[Len(ch)].time
ChainTxs(ch) == UNION {ToSet(ch[n].txs) : n \in 1 .. Len(ch)}

\* Mutant: a record is removed one block interval early, before the
\* transaction has expired.
Dedupe_Early(ch) == {t \in ChainTxs(ch) : HeadTime(ch) + 1 < Expiry[t]}

\* The transaction index after the chain's blocks: clear_expired_transactions
\* has removed what expired before the head's time.
Dedupe(ch) == {t \in ChainTxs(ch) : HeadTime(ch) <= Expiry[t]}

\* _apply_transaction at head time now, when the transactions in known are
\* in the transaction index and those in done have been applied.
Applies(t, now, known, done) ==
  /\ t \notin known
  /\ now < Expiry[t] /\ Expiry[t] <= now + MaxAhead
  /\ Needs[t] \subseteq done
  /\ Conflicts[t] \cap done = {}

\* The transactions of txs can be applied in this order on top of ch.
AllApply(ch, txs) ==
  \A n \in 1 .. Len(txs) :
    LET before == {txs[m] : m \in 1 .. n - 1}
    IN Applies(txs[n], HeadTime(ch), Dedupe(ch) \cup before, ChainTxs(ch) \cup before)

\* _apply_block.
BlockOk(ch, b) == HeadTime(ch) < b.time /\ AllApply(ch, b.txs)

\* The same in the current state of the node, the pending session included.
Now == IF phantom = 0 THEN HeadTime(chain) ELSE phantom
Known == Dedupe(chain) \cup ToSet(applied)
CanApply(t) == Applies(t, Now, Known, ChainTxs(chain) \cup ToSet(applied))

-----------------------------------------------------------------------------
\* push_transaction.  The session is started before the transaction is tried
\* and stays when it fails.
PushTransaction(t) ==
  /\ pc = "idle"
  /\ Len(pending) < MaxPending
  /\ Size[t] <= BlockSize
  /\ session' = TRUE
  /\ IF CanApply(t)
     THEN /\ applied' = Append(applied, t)
          /\ pending' = Append(pending, t)
          /\ owed' = owed \cup {t}
     ELSE UNCHANGED <<applied, pending, owed>>
  /\ UNCHANGED <<chain, phantom, todo, late, pc, old, fork, gen, culled, delayed>>

\* push_block puts the pending transactions aside and drops their session.
PutAside == /\ todo' = pending
            /\ pending' = <<>>
            /\ session' = FALSE /\ applied' = <<>> /\ phantom' = 0
            /\ culled' = {}

PushExtends(b) ==
  /\ pc = "idle"
  /\ Len(chain) < MaxLen
  /\ BlockOk(chain, b)
  /\ PutAside
  /\ chain' = Append(chain, b)
  /\ owed' = owed \cup ToSet(b.txs)
  /\ pc' = "retry"
  /\ UNCHANGED <<late, old, fork, gen, delayed>>

\* The block cannot be applied, or is only kept in the fork database.
PushNoChange ==
  /\ pc = "idle"
  /\ PutAside
  /\ pc' = "retry"
  /\ UNCHANGED <<chain, late, old, fork, gen, owed, delayed>>

\* The block completes a longer fork that leaves the chain after k blocks.
PushSwitch(k) ==
  /\ pc = "idle"
  /\ Len(chain) < MaxLen
  /\ Len(pending) <= MaxPending
  /\ PutAside
  /\ pc' = "pop"
  /\ old' = chain
  /\ fork' = k
  /\ UNCHANGED <<chain, late, gen, owed, delayed>>

\* Mutants: the transactions go to the end; they replace the ones before.
PopBlock_Behind ==
  /\ pc \in {"pop", "unpop"}
  /\ todo' = todo \o Last(chain).txs
  /\ chain' = Front(chain)
  /\ pc' = IF Len(chain) - 1 > fork THEN pc ELSE IF pc = "pop" THEN "apply" ELSE "restore"
  /\ UNCHANGED <<session, applied, phantom, pending, late, old, fork, gen, owed, culled, delayed>>
PopBlock_Replaces ==
  /\ pc \in {"pop", "unpop"}
  /\ todo' = Last(chain).txs
  /\ chain' = Front(chain)
  /\ pc' = IF Len(chain) - 1 > fork THEN pc ELSE IF pc = "pop" THEN "apply" ELSE "restore"
  /\ UNCHANGED <<session, applied, phantom, pending, late, old, fork, gen, owed, culled, delayed>>

\* pop_block: the transactions of the block go to the front of _popped_tx.
PopBlock ==
  /\ pc \in {"pop", "unpop"}
  /\ todo' = Last(chain).txs \o todo
  /\ chain' = Front(chain)
  /\ pc' = IF Len(chain) - 1 > fork THEN pc ELSE IF pc = "pop" THEN "apply" ELSE "restore"
  /\ UNCHANGED <<session, applied, phantom, pending, late, old, fork, gen, owed, culled, delayed>>

\* pop_block throws: push_block ends here.
PopThrows ==
  /\ pc \in {"pop", "unpop"}
  /\ pc' = "retry"
  /\ UNCHANGED <<chain, session, applied, phantom, pending, todo, late, old, fork, gen, owed, culled, delayed>>

\* A block of the new branch, which ends one block above the old one.
ApplyFork(b) ==
  /\ pc = "apply"
  /\ BlockOk(chain, b)
  /\ chain' = Append(chain, b)
  /\ owed' = owed \cup ToSet(b.txs)
  /\ pc' = IF Len(chain) = Len(old) THEN "retry" ELSE "apply"
  /\ UNCHANGED <<session, applied, phantom, pending, todo, late, old, fork, gen, culled, delayed>>

\* Mutant: the blocks of the bad fork are not popped.
ApplyForkThrows_NoPop ==
  /\ pc = "apply"
  /\ pc' = "restore"
  /\ UNCHANGED <<chain, session, applied, phantom, pending, todo, late, old, fork, gen, owed, culled, delayed>>

ApplyForkThrows ==
  /\ pc = "apply"
  /\ pc' = IF Len(chain) = fork THEN "restore" ELSE "unpop"
  /\ UNCHANGED <<chain, session, applied, phantom, pending, todo, late, old, fork, gen, owed, culled, delayed>>

\* The blocks of the old branch are applied again.
RestoreOld ==
  /\ pc = "restore"
  /\ chain' = old
  /\ pc' = "retry"
  /\ UNCHANGED <<session, applied, phantom, pending, todo, late, old, fork, gen, owed, culled, delayed>>

-----------------------------------------------------------------------------
\* ~pending_transactions_restorer, one transaction at a time: already known,
\* applied, given up, or postponed because the time limit has struck.
Retry(t) == pc = "retry" /\ todo # <<>> /\ t = Head(todo) /\ todo' = Tail(todo)

RetryKnown(t) ==
  /\ Retry(t)
  /\ ~ late
  /\ t \in Known
  /\ UNCHANGED <<chain, session, applied, phantom, pending, late, pc, old, fork, gen, owed, culled, delayed>>

RetryApplies(t) ==
  /\ Retry(t)
  /\ ~ late
  /\ CanApply(t)
  /\ session' = TRUE
  /\ applied' = Append(applied, t)
  /\ pending' = Append(pending, t)
  /\ UNCHANGED <<chain, phantom, late, pc, old, fork, gen, owed, culled, delayed>>

RetryFails(t) ==
  /\ Retry(t)
  /\ ~ late
  /\ t \notin Known /\ ~ CanApply(t)
  /\ session' = TRUE
  /\ owed' = owed \ {t}
  /\ culled' = culled \cup {t}
  /\ UNCHANGED <<chain, applied, phantom, pending, late, pc, old, fork, gen, delayed>>

Postpone(t) ==
  /\ Retry(t)
  /\ late' = TRUE /\ delayed' = TRUE
  /\ pending' = Append(pending, t)
  /\ UNCHANGED <<chain, session, applied, phantom, pc, old, fork, gen, owed, culled>>

RetryDone ==
  /\ pc = "retry"
  /\ todo = <<>>
  /\ pc' = "idle"
  /\ late' = FALSE /\ old' = <<>> /\ fork' = 0
  /\ UNCHANGED <<chain, session, applied, phantom, pending, todo, gen, owed, culled, delayed>>

-----------------------------------------------------------------------------
\* Mutant: the pending session is kept instead of rebuilt.
Generate_KeepsSession(when) ==
  /\ pc = "idle"
  /\ Len(chain) < MaxLen
  /\ Now < when
  /\ pc' = "generate"
  /\ gen' = [NoGen EXCEPT !.when = when, !.linked = (phantom = 0)]
  /\ todo' = pending
  /\ session' = TRUE /\ phantom' = 0
  /\ UNCHANGED <<chain, pending, applied, late, old, fork, owed, culled, delayed>>

\* generate_block.  `previous' is read before the pending session is thrown
\* away, so that a phantom head becomes the parent.
Generate(when) ==
  /\ pc = "idle"
  /\ Len(chain) < MaxLen
  /\ Now < when
  /\ pc' = "generate"
  /\ gen' = [NoGen EXCEPT !.when = when, !.linked = (phantom = 0)]
  /\ todo' = pending
  /\ session' = TRUE /\ applied' = <<>> /\ phantom' = 0
  /\ UNCHANGED <<chain, pending, late, old, fork, owed, culled, delayed>>

\* The loop over _pending_tx.
Consider(t) == pc = "generate" /\ todo # <<>> /\ t = Head(todo)
Stop        == gen.postponed > PostponedLimit
Expires(t)  == Expiry[t] < gen.when
TooBig(t)   == gen.used + Size[t] >= Partition

GenBreak ==
  /\ pc = "generate" /\ todo # <<>> /\ Stop
  /\ todo' = <<>>
  /\ UNCHANGED <<chain, session, applied, phantom, pending, late, pc, old, fork, gen, owed, culled, delayed>>

\* Expired by the time of the block, or no longer applicable.
GenSkip(t) ==
  /\ Consider(t) /\ ~ Stop
  /\ Expires(t) \/ (~ TooBig(t) /\ ~ CanApply(t))
  /\ todo' = Tail(todo)
  /\ UNCHANGED <<chain, session, applied, phantom, pending, late, pc, old, fork, gen, owed, culled, delayed>>

\* Postponed when it would make the block too big.
GenPostpone(t) ==
  /\ Consider(t) /\ ~ Stop
  /\ ~ Expires(t) /\ TooBig(t)
  /\ todo' = Tail(todo)
  /\ gen' = [gen EXCEPT !.postponed = @ + 1]
  /\ UNCHANGED <<chain, session, applied, phantom, pending, late, pc, old, fork, owed, culled, delayed>>

GenInclude(t) ==
  /\ Consider(t) /\ ~ Stop
  /\ ~ Expires(t) /\ ~ TooBig(t) /\ CanApply(t)
  /\ todo' = Tail(todo)
  /\ applied' = Append(applied, t)
  /\ gen' = [gen EXCEPT !.txs = Append(@, t), !.used = @ + Size[t]]
  /\ UNCHANGED <<chain, session, phantom, pending, late, pc, old, fork, owed, culled, delayed>>

\* The undo history check of update_global_dynamic_data, or a required
\* action, throws: the session stays, with the new block as its head.
GenThrows ==
  /\ pc = "generate" /\ todo = <<>>
  /\ pc' = "idle"
  /\ phantom' = gen.when
  /\ gen' = NoGen
  /\ UNCHANGED <<chain, session, applied, pending, todo, late, old, fork, owed, culled, delayed>>

Generated == [txs |-> gen.txs, time |-> gen.when]

\* The block is complete: drop the session and push it.
GenPush ==
  /\ pc = "generate" /\ todo = <<>>
  /\ PutAside
  /\ IF gen.linked /\ BlockOk(chain, Generated)
     THEN chain' = Append(chain, Generated)
     ELSE UNCHANGED chain
  /\ pc' = "retry"
  /\ gen' = NoGen
  /\ UNCHANGED <<late, old, fork, owed, delayed>>

-----------------------------------------------------------------------------
Next ==
  \/ \E t \in Tx : \/ PushTransaction(t)
                   \/ RetryKnown(t) \/ RetryApplies(t) \/ RetryFails(t) \/ Postpone(t)
                   \/ GenSkip(t) \/ GenPostpone(t) \/ GenInclude(t)
  \/ \E b \in Blocks : PushExtends(b) \/ ApplyFork(b)
  \/ PushNoChange
  \/ \E k \in 1 .. Len(chain) - 1 : PushSwitch(k)
  \/ PopBlock \/ PopThrows \/ ApplyForkThrows \/ RestoreOld
  \/ RetryDone
  \/ \E when \in Times : Generate(when)
  \/ GenBreak \/ GenThrows \/ GenPush

Spec == Init /\ [][Next]_vars

-----------------------------------------------------------------------------
TypeOK ==
  /\ chain \in Seq(Block) /\ old \in Seq(Block) /\ fork \in Nat
  /\ session \in BOOLEAN /\ late \in BOOLEAN /\ phantom \in Nat
  /\ applied \in Seq(Tx) /\ pending \in Seq(Tx) /\ todo \in Seq(Tx)
  /\ pc \in {"idle", "pop", "apply", "unpop", "restore", "retry", "generate"}
  /\ gen \in [when : Nat, txs : Seq(Tx), used : Nat, postponed : Nat, linked : BOOLEAN]
  /\ owed \subseteq Tx /\ culled \subseteq Tx /\ delayed \in BOOLEAN

\* No transaction is on the chain twice, although the index that recognizes
\* duplicates forgets transactions when they expire, pending transactions
\* are applied again and again, and popped ones come back.
NoDoubleInclusion ==
  \A i, j \in 1 .. Len(chain) : \A m \in 1 .. Len(chain[i].txs), n \in 1 .. Len(chain[j].txs) :
    chain[i].txs[m] = chain[j].txs[n] => (i = j /\ m = n)

\* A transaction that was pending or in a block of the chain is on the chain,
\* pending or waiting to be tried again, until it was tried and failed: not
\* lost by a switch of forks, a failed one, an exception in pop_block, the
\* time limit or the production of a block.
NothingLost == owed \subseteq ChainTxs(chain) \cup ToSet(pending) \cup ToSet(todo)

\* The session never holds a transaction that is not pending, so that one
\* which is applied in the node's state can be put into a block.
AppliedIsPending == ToSet(applied) \subseteq ToSet(pending)

\* "Pending transactions which no longer validate will be culled", and only
\* those: what one push gives up cannot be applied at its end either.  (Once
\* the time limit has struck, a postponed transaction can come to stand
\* before one it needs.)
NoNeedlessCull ==
  (~ delayed /\ pc = "retry" /\ todo = <<>>) => \A t \in culled : ~ CanApply(t)

\* A block generated on the head of the chain is applied by the push_block
\* that follows, whatever was pending, postponed or expired.
ProducedBlockApplies ==
  [][(GenPush /\ gen.linked) => chain' = Append(chain, Generated)]_vars

-----------------------------------------------------------------------------
(***************************************************************************)
(* The inductive invariant behind the theorems of PendingPool_proofs.      *)
(***************************************************************************)
\* Every block was applicable on top of the blocks before it.
ChainOk(ch) == /\ Len(ch) > 0 /\ ch[1] = Genesis
               /\ \A n \in 2 .. Len(ch) : BlockOk(SubSeq(ch, 1, n - 1), ch[n])

\* While forks are switched, the chain and the old one agree up to the fork.
SwitchOk ==
  pc \in {"pop", "apply", "unpop", "restore"} =>
    /\ ChainOk(old)
    /\ fork \in 1 .. Len(chain) /\ fork < Len(old)
    /\ pc \in {"pop", "unpop"} => fork < Len(chain)
    /\ pc = "restore" => fork = Len(chain)
    /\ SubSeq(chain, 1, fork) = SubSeq(old, 1, fork)

\* The session holds exactly the transactions of the block being generated,
\* each applicable after the ones before it.
GenOk ==
  pc = "generate" =>
    /\ phantom = 0
    /\ gen.txs = applied
    /\ AllApply(chain, applied)
    /\ gen.linked => HeadTime(chain) < gen.when
    /\ ToSet(todo) \subseteq ToSet(pending)

IInv == /\ TypeOK
        /\ ChainOk(chain)
        /\ SwitchOk
        /\ GenOk
        /\ pc = "idle" => todo = <<>>
        /\ NothingLost
        /\ AppliedIsPending

\* Whatever a transaction of s needs is in base or stands before it.
NeedsMet(s, base) ==
  \A n \in 1 .. Len(s) : Needs[s[n]] \subseteq base \cup {s[m] : m \in 1 .. n - 1}

\* Nothing that is applied later in this push can make t applicable.
Hopeless(t) ==
  LET done == ChainTxs(chain) \cup ToSet(applied)
  IN \/ ~ (Now < Expiry[t] /\ Expiry[t] <= Now + MaxAhead)
     \/ Conflicts[t] \cap done # {}
     \/ \E u \in Needs[t] : u \in culled /\ u \notin done

\* Until the time limit strikes, transactions are tried in an order in which
\* each comes after the ones it needs, and what was given up is hopeless.
CullInv ==
  ~ delayed =>
    /\ NeedsMet(pending, ChainTxs(chain))
    /\ pc \in {"pop", "apply", "unpop", "restore"} =>
         pending = <<>> /\ applied = <<>> /\ culled = {}
    /\ pc \in {"pop", "apply", "unpop", "restore", "retry"} =>
         NeedsMet(todo, ChainTxs(chain) \cup ToSet(applied) \cup culled)
    /\ pc = "retry" => \A t \in culled : Hopeless(t)
=============================================================================
