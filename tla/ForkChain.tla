------------------------------ MODULE ForkChain ------------------------------
(***************************************************************************)
(* How one node keeps its chain: fork_database, the push/switch/pop logic  *)
(* of chain::database, the block log, the undo stack of the chain state,   *)
(* and stopping, crashing, reopening and replaying.                        *)
(*                                                                         *)
(* A block is the sequence of everything from block 1 up to itself: a      *)
(* block id is a hash that covers the previous id, so a block has one      *)
(* history.  <<>> is the zero id: genesis for the chain state, and "no     *)
(* head" for the fork database.  The state of the chain is a function of   *)
(* its head block, so it is represented by it.                             *)
(***************************************************************************)
EXTENDS Integers, Sequences, FiniteSets

CONSTANTS Blocks,         \* the blocks peers may send, with their ancestors
          Fate,           \* Fate[b]: "ok", or where applying b throws: "early",
                          \* before irreversibility is updated, or "late", after
          LibOf,          \* LibOf[b]: last irreversible block number at head b
          InitChain,      \* the chain the node has at the start
          Checkpoints,    \* the blocks the operator has fixed
          MaxUndo,        \* MAX_UNDO_HISTORY
          DefaultSize,    \* the fork database's initial _max_size
          Redeliver       \* whether a block that the fork database has may be
                          \* pushed again: the network layer drops only the
                          \* ones among its most recent accepted blocks

Num(b)       == Len(b)
Prefix(b, n) == SubSeq(b, 1, n)
Prev(b)      == Prefix(b, Len(b) - 1)
Max2(m, n)   == IF m > n THEN m ELSE n
Chains       == Blocks \cup {<<>>}
OnChain(a, b) == Num(a) <= Num(b) /\ Prefix(b, Num(a)) = a    \* a is b or an ancestor

\* A block all of whose ancestors, and itself, can be applied.
Valid(b) == \A n \in 1 .. Num(b) : Fate[Prefix(b, n)] = "ok"

Headers == UNION {{b[n] : n \in 1 .. Len(b)} : b \in Blocks}

ASSUME BlocksAssumption ==
  /\ Blocks \subseteq Seq(Headers)
  /\ \A b \in Blocks : Num(b) > 0 /\ \A n \in 1 .. Num(b) : Prefix(b, n) \in Blocks
ASSUME FateAssumption == Fate \in [Blocks -> {"ok", "early", "late"}]
ASSUME LibAssumption ==
  /\ LibOf \in [Chains -> Nat]
  /\ \A b \in Chains : LibOf[b] <= Num(b)
  /\ \A a, b \in Chains : OnChain(a, b) => LibOf[a] <= LibOf[b]
ASSUME CheckpointAssumption == Checkpoints \subseteq Blocks
ASSUME InitAssumption ==
  /\ InitChain \in Chains /\ Valid(InitChain)
  /\ \A c \in Checkpoints : Num(c) <= Num(InitChain) => OnChain(c, InitChain)
ASSUME BoundsAssumption == MaxUndo \in Nat \ {0} /\ DefaultSize \in Nat /\ Redeliver \in BOOLEAN

\* What the witnesses' votes guarantee, and no node can enforce alone: two
\* valid blocks never make conflicting blocks irreversible, and the chain
\* the node starts from is not contradicted either.
Final(p) == \A b \in Chains :
  Valid(b) => OnChain(p, b) \/ OnChain(Prefix(b, LibOf[b]), p)

ASSUME FinalityAssumption ==
  /\ \A b \in Chains : Valid(b) => Final(Prefix(b, LibOf[b]))
  /\ Final(InitChain)

VARIABLES
  head, undo, revision,          \* chain state (memory-mapped: survives a crash):
                                 \* head block, undo stack (oldest first), revision
  index, orphan, fhead, maxSize, \* fork database: _index, the items whose prev
                                 \* pointer is dead, _head, _max_size
  log, buf,                      \* block log: what is in the file, what is
                                 \* written but not flushed
  pc, mode, target, old, fork, skipUndo, \* control and locals of push_block
  announced                      \* history: the blocks observers were told are
                                 \* irreversible in this process, with the fate of
                                 \* the block that was being applied

stateVars == <<head, undo, revision>>
forkVars  == <<index, orphan, fhead, maxSize>>
logVars   == <<log, buf>>
pushVars  == <<mode, target, old, fork, skipUndo>>
vars      == <<stateVars, forkVars, logVars, pc, pushVars, announced>>

UndoEntry == [to : Chains, rev : Nat]
Notice    == [block : Blocks, fate : {"ok", "early", "late"}]

LogAll == log \o buf
InLog(l, b) == Num(b) > 0 => (Num(b) <= Len(l) /\ l[Num(b)] = b)

\* Where undo_all() leads.
Base == IF undo = <<>> THEN head ELSE undo[1].to

Init ==
  /\ head = InitChain /\ undo = <<>> /\ revision = Num(InitChain)
  /\ index = {InitChain} \ {<<>>} /\ orphan = index /\ fhead = InitChain
  /\ maxSize = DefaultSize
  /\ log = [n \in 1 .. Num(InitChain) |-> Prefix(InitChain, n)] /\ buf = <<>>
  /\ pc = "idle" /\ mode = "direct" /\ target = <<>> /\ old = <<>> /\ fork = 0
  /\ skipUndo = FALSE
  /\ announced = {}

-----------------------------------------------------------------------------
\* Blocks kept alive by the branches a switch holds in its local vectors.
Held == IF mode = "direct" \/ pc = "idle" THEN {}
        ELSE {Prefix(target, n) : n \in fork + 1 .. Num(target)}
             \cup {Prefix(old, n) : n \in fork + 1 .. Num(old)}

NoLocals == /\ mode' = "direct" /\ target' = <<>> /\ old' = <<>> /\ fork' = 0
            /\ skipUndo' = FALSE

\* The push returns or throws: its locals go, and with them the items that
\* nothing else holds.
Return(idx, orp, fh) ==
  /\ pc' = "idle"
  /\ NoLocals
  /\ index' = idx
  /\ fhead' = fh
  /\ orphan' = {b \in idx \cup ({fh} \ {<<>>}) : b \in orp \/ Prev(b) \notin idx \cup {fh}}

\* fork_database::push_block: the index, dead links and head after b is in.
TooOld(b)   == fhead # <<>> /\ Num(b) <= Max2(0, Num(fhead) - maxSize)
Links(b)    == fhead = <<>> \/ Prev(b) = <<>> \/ Prev(b) \in index
\* Mutant: the checkpoint is not compared.
Accepts_NoCheckpoint(b) == ~ TooOld(b) /\ Links(b)

Accepts(b)  == /\ \A c \in Checkpoints : Num(c) = Num(b) => c = b
               /\ ~ TooOld(b)
               /\ Links(b)
Index1(b)   == index \cup {b}
\* Mutant: a block of the same height takes over.
Head1_Equal(b) == IF Num(b) >= Num(fhead) THEN b ELSE fhead

Head1(b)    == IF Num(b) > Num(fhead) THEN b ELSE fhead
\* A head that is not indexed dies when another block takes its place.
Orphan1(b)  == (IF b \in index THEN orphan
                ELSE IF fhead = <<>> \/ Prev(b) = <<>> THEN orphan \cup {b}
                ELSE orphan \ {b})
               \cup {x \in index : Prev(x) \notin Index1(b) \cup {Head1(b)}}

\* fetch_branch_from(a, h): both branches, down to a common previous block;
\* it throws when an end is not indexed or a prev pointer on the way is dead.
ForkPoint(a, h) ==
  CHOOSE n \in 0 .. Num(h) :
    /\ n < Num(a) /\ n < Num(h)
    /\ Prefix(a, n) = Prefix(h, n)
    /\ \A m \in n + 1 .. Num(h) - 1 : m < Num(a) => Prefix(a, m) # Prefix(h, m)

BranchesFound(a, h, idx, orp) ==
  /\ a \in idx /\ h \in idx
  /\ \A n \in ForkPoint(a, h) + 2 .. Num(a) : Prefix(a, n) \notin orp
  /\ \A n \in ForkPoint(a, h) + 2 .. Num(h) : Prefix(h, n) \notin orp

\* Up to the last checkpoint push_block skips the undo history check.
SkipsUndoCheck(b) == \E c \in Checkpoints : Num(b) <= Num(c)

\* push_block() up to the decision what to do with the block.  A block that
\* Accepts refuses throws and changes nothing.
Pushed(b) ==
  /\ pc = "idle"
  /\ b \in index => Redeliver
  /\ Accepts(b)
  /\ index' = Index1(b)
  /\ orphan' = Orphan1(b)
  /\ fhead' = Head1(b)
  /\ UNCHANGED <<stateVars, maxSize, logVars, announced>>

\* The fork database's head builds on the chain's head: apply the block.
PushDirect(b) ==
  /\ Pushed(b)
  /\ Prev(Head1(b)) = head
  /\ pc' = "apply" /\ mode' = "direct" /\ target' = b /\ skipUndo' = SkipsUndoCheck(b)
  /\ UNCHANGED <<old, fork>>

\* It is no higher than the chain's head: keep the block, do nothing.
PushKept(b) ==
  /\ Pushed(b)
  /\ Prev(Head1(b)) # head
  /\ Num(Head1(b)) <= Num(head)
  /\ UNCHANGED <<pc, pushVars>>

\* It is higher: switch to it.
PushSwitch(b) ==
  /\ Pushed(b)
  /\ Prev(Head1(b)) # head
  /\ Num(Head1(b)) > Num(head)
  /\ BranchesFound(Head1(b), head, Index1(b), Orphan1(b))
  /\ pc' = "pop" /\ mode' = "switch" /\ target' = Head1(b) /\ old' = head
  /\ fork' = ForkPoint(Head1(b), head) /\ skipUndo' = SkipsUndoCheck(b)

\* It is higher but fetch_branch_from throws: the fork database keeps its
\* new head.
PushThrows(b) ==
  /\ Pushed(b)
  /\ Prev(Head1(b)) # head
  /\ Num(Head1(b)) > Num(head)
  /\ ~ BranchesFound(Head1(b), head, Index1(b), Orphan1(b))
  /\ UNCHANGED <<pc, pushVars>>

-----------------------------------------------------------------------------
\* pop_block(), in the loop back to the fork point.  undo() of an empty stack
\* does nothing.
ForkHeadHasPrev == /\ fhead # <<>>
                   /\ fhead \notin orphan
                   /\ Prev(fhead) \in index \cup Held

CanPop == /\ head \in index \/ (head # <<>> /\ InLog(LogAll, head))
          /\ ForkHeadHasPrev

AtForkPoint == head = Prefix(old, fork)

\* Mutant: the fork database's head stays.
Pop_KeepsForkHead ==
  /\ pc \in {"pop", "unpop"} /\ ~ AtForkPoint /\ CanPop
  /\ IF undo = <<>>
     THEN UNCHANGED stateVars
     ELSE /\ head' = undo[Len(undo)].to
          /\ undo' = SubSeq(undo, 1, Len(undo) - 1)
          /\ revision' = revision - 1
  /\ UNCHANGED <<forkVars, logVars, pc, pushVars, announced>>

\* Mutant: the revision stays.
Pop_KeepsRevision ==
  /\ pc \in {"pop", "unpop"} /\ ~ AtForkPoint /\ CanPop
  /\ fhead' = Prev(fhead)
  /\ IF undo = <<>>
     THEN UNCHANGED stateVars
     ELSE /\ head' = undo[Len(undo)].to
          /\ undo' = SubSeq(undo, 1, Len(undo) - 1)
          /\ UNCHANGED revision
  /\ UNCHANGED <<index, orphan, maxSize, logVars, pc, pushVars, announced>>

Pop ==
  /\ pc \in {"pop", "unpop"}
  /\ ~ AtForkPoint
  /\ CanPop
  /\ fhead' = Prev(fhead)
  /\ IF undo = <<>>
     THEN UNCHANGED stateVars
     ELSE /\ head' = undo[Len(undo)].to
          /\ undo' = SubSeq(undo, 1, Len(undo) - 1)
          /\ revision' = revision - 1
  /\ UNCHANGED <<index, orphan, maxSize, logVars, pc, pushVars, announced>>

\* pop_block() throws: the exception leaves push_block, nothing is restored.
PopThrows ==
  /\ pc \in {"pop", "unpop"}
  /\ ~ AtForkPoint
  /\ ~ CanPop
  /\ Return(index, orphan, fhead)
  /\ UNCHANGED <<stateVars, maxSize, logVars, announced>>

Popped ==
  /\ pc \in {"pop", "unpop"}
  /\ AtForkPoint
  /\ pc' = "apply"
  /\ mode' = IF pc = "pop" THEN "switch" ELSE "restore"
  /\ UNCHANGED <<stateVars, forkVars, logVars, target, old, fork, skipUndo, announced>>

-----------------------------------------------------------------------------
\* The next block of the branch being applied, and the fork database's head
\* then (set_head in a switch).
Cur == CASE mode = "direct"  -> target
         [] mode = "switch"  -> Prefix(target, Num(head) + 1)
         [] mode = "restore" -> Prefix(old, Num(head) + 1)

\* Mutant: set_head is forgotten when the old branch is restored.
CurForkHead_NotRestored == IF mode = "switch" THEN Cur ELSE fhead

CurForkHead == IF mode = "direct" THEN fhead ELSE Cur

\* Mutant: any block of that number.
MainBlock_AnyBranch(n, fh) ==
  LET there == {b \in index : Num(b) = n}
  IN IF there = {} THEN <<>> ELSE CHOOSE b \in there : TRUE

\* fetch_block_on_main_branch_by_number(n), with fork database head fh: the
\* only block of that number, whatever its branch, or else the one found by
\* walking back from the head; <<>> when there is none.
MainBlock(n, fh) ==
  LET there == {b \in index : Num(b) = n}
  IN IF Cardinality(there) = 1 THEN CHOOSE b \in there : TRUE
     ELSE IF there = {} \/ n > Num(fh) THEN <<>>
     ELSE IF \A m \in n + 1 .. Num(fh) : Prefix(fh, m) \notin orphan THEN Prefix(fh, n)
     ELSE <<>>

\* Mutant: the undo limit is off by one.
HeaderOk_OffByOne(b) == /\ Prev(b) = head
                        /\ Fate[b] # "early"
                        /\ skipUndo \/ Num(b) - LibOf[head] <= MaxUndo

\* The part of _apply_block before irreversibility is updated.
HeaderOk(b) == /\ Prev(b) = head
               /\ Fate[b] # "early"
               /\ skipUndo \/ Num(b) - LibOf[head] < MaxUndo
\* The checks of migrate_irreversible_state.
MigrateOk(b, fh) ==
  /\ fh # <<>> => Num(fh) = Num(b)
  /\ \A n \in Len(LogAll) + 1 .. LibOf[b] : MainBlock(n, fh) # <<>>

Applicable(b, fh) == HeaderOk(b) /\ Fate[b] = "ok" /\ MigrateOk(b, fh)

\* notify_irreversible_block, from the old to the new number.
Announce(b) ==
  announced' = announced \cup
    {[block |-> Prefix(b, n), fate |-> Fate[b]] : n \in {m \in LibOf[head] .. LibOf[b] : m > 0}}

\* start_undo_session and apply_block up to the checks of
\* migrate_irreversible_state.
Apply ==
  /\ pc = "apply"
  /\ Applicable(Cur, CurForkHead)
  /\ head' = Cur
  /\ undo' = Append(undo, [to |-> head, rev |-> revision + 1])
  /\ revision' = revision + 1
  /\ fhead' = CurForkHead
  /\ Announce(Cur)
  /\ pc' = "append"
  /\ UNCHANGED <<index, orphan, maxSize, logVars, pushVars>>

\* Mutant: the head is removed from the fork database, not the new block.
ApplyThrows_RemovesHead ==
  /\ pc = "apply"
  /\ ~ Applicable(Cur, CurForkHead)
  /\ IF HeaderOk(Cur) THEN Announce(Cur) ELSE UNCHANGED announced
  /\ mode = "direct" /\ Return(index \ {head}, orphan, fhead)
  /\ UNCHANGED <<stateVars, maxSize, logVars>>

\* apply_block throws and the session is undone.  Outside a switch the new
\* block is removed from the fork database.  In a switch the rest of the new
\* branch is removed and the old branch is restored; an exception while
\* restoring leaves push_block.
ApplyThrows ==
  /\ pc = "apply"
  /\ ~ Applicable(Cur, CurForkHead)
  /\ IF HeaderOk(Cur) THEN Announce(Cur) ELSE UNCHANGED announced
  /\ CASE mode = "direct" -> Return(index \ {target}, orphan, fhead)
       [] mode = "switch" ->
            /\ index' = index \ {Prefix(target, n) : n \in Num(Cur) .. Num(target)}
            /\ fhead' = Cur
            /\ pc' = "unpop"
            /\ UNCHANGED <<orphan, pushVars>>
       [] mode = "restore" -> Return(index, orphan, Cur)
  /\ UNCHANGED <<stateVars, maxSize, logVars>>

\* migrate_irreversible_state: append what became irreversible to the block
\* log, flush it, trim the fork database, commit the chain state.
AppendBlock ==
  /\ pc = "append"
  /\ Len(LogAll) < LibOf[head]
  /\ buf' = Append(buf, MainBlock(Len(LogAll) + 1, fhead))
  /\ UNCHANGED <<stateVars, forkVars, log, pc, pushVars, announced>>

\* Mutant: the state is committed before the log is flushed.
FlushLog_Unflushed ==
  /\ pc = "append"
  /\ Len(LogAll) >= LibOf[head]
  /\ pc' = "commit"
  /\ UNCHANGED <<stateVars, forkVars, logVars, pushVars, announced>>

FlushLog ==
  /\ pc = "append"
  /\ Len(LogAll) >= LibOf[head]
  /\ log' = LogAll
  /\ buf' = <<>>
  /\ pc' = "commit"
  /\ UNCHANGED <<stateVars, forkVars, pushVars, announced>>

Size1  == Num(head) - LibOf[head] + 1
Trimmed == IF fhead = <<>> THEN index
           ELSE {b \in index : Num(b) >= Max2(0, Num(fhead) - Size1)}
PushDone == \/ mode = "direct"
            \/ mode = "switch" /\ head = target
            \/ mode = "restore" /\ head = old

\* Mutant: the state is not committed.
Commit_KeepsUndo ==
  /\ pc = "commit"
  /\ maxSize' = Size1
  /\ IF PushDone
     THEN Return(Trimmed, orphan, fhead)
     ELSE pc' = "apply" /\ index' = Trimmed /\ UNCHANGED <<orphan, fhead, pushVars>>
  /\ UNCHANGED <<stateVars, logVars, announced>>

\* The rest of migrate_irreversible_state.  commit() goes through the indices
\* one by one, which is one step here.
Commit ==
  /\ pc = "commit"
  /\ maxSize' = Size1
  /\ \E k \in 0 .. Len(undo) :
       /\ \A j \in 1 .. k : undo[j].rev <= LibOf[head]
       /\ k < Len(undo) => undo[k + 1].rev > LibOf[head]
       /\ undo' = SubSeq(undo, k + 1, Len(undo))
  /\ IF PushDone
     THEN Return(Trimmed, orphan, fhead)
     ELSE pc' = "apply" /\ index' = Trimmed /\ UNCHANGED <<orphan, fhead, pushVars>>
  /\ UNCHANGED <<head, revision, logVars, announced>>

-----------------------------------------------------------------------------
ForkReset == /\ index' = {} /\ orphan' = {} /\ fhead' = <<>> /\ maxSize' = DefaultSize
ForkStart(b) == /\ index' = {b} \ {<<>>} /\ orphan' = {b} \ {<<>>} /\ fhead' = b

\* close() between two pushes.
Close ==
  /\ pc = "idle"
  /\ pc' = "closed"
  /\ ForkReset
  /\ announced' = {}
  /\ UNCHANGED <<stateVars, logVars, pushVars>>

\* The process dies.  Part of what was written to the log's stream may have
\* reached the file: whole blocks, a torn one being BlockLog's subject.
Crash ==
  /\ pc \notin {"idle", "closed"}
  /\ pc' = "closed"
  /\ ForkReset
  /\ \E n \in 0 .. Len(buf) : log' = log \o SubSeq(buf, 1, n)
  /\ buf' = <<>>
  /\ announced' = {}
  /\ NoLocals
  /\ UNCHANGED stateVars

\* open(): undo everything, check revision and block log, start the fork
\* database at the head.
OpenOk == /\ revision - Len(undo) = Num(Base)
          /\ InLog(log, Base)

Open ==
  /\ pc = "closed"
  /\ OpenOk
  /\ head' = Base /\ undo' = <<>> /\ revision' = revision - Len(undo)
  /\ ForkStart(Base)
  /\ pc' = "idle"
  /\ UNCHANGED <<maxSize, logVars, pushVars, announced>>

OpenThrows ==
  /\ pc = "closed"
  /\ ~ OpenOk
  /\ head' = Base /\ undo' = <<>> /\ revision' = revision - Len(undo)
  /\ UNCHANGED <<forkVars, logVars, pc, pushVars, announced>>

\* reindex(): wipe the state and apply the block log from block 1, without
\* undo sessions; the revision is set at the end.
Reindex ==
  /\ pc = "closed"
  /\ head' = <<>> /\ undo' = <<>> /\ revision' = 0
  /\ pc' = IF log = <<>> THEN "closed" ELSE "reindex"
  /\ UNCHANGED <<forkVars, logVars, pushVars, announced>>

NextLogged  == log[Num(head) + 1]

\* Mutant: the limit is off by one.
CanReindex_OffByOne == /\ Prev(NextLogged) = head /\ Fate[NextLogged] = "ok"
                       /\ Num(NextLogged) - LibOf[head] < MaxUndo - 1

\* Checkpoints play no role in a replay.
CanReindex  == /\ Prev(NextLogged) = head /\ Fate[NextLogged] = "ok"
               /\ Num(NextLogged) - LibOf[head] < MaxUndo

ReindexBlock ==
  /\ pc = "reindex"
  /\ Num(head) < Len(log)
  /\ CanReindex
  /\ head' = NextLogged
  /\ maxSize' = Num(NextLogged) - LibOf[NextLogged] + 1
  /\ Announce(NextLogged)
  /\ UNCHANGED <<undo, revision, index, orphan, fhead, logVars, pc, pushVars>>

\* apply_block throws out of reindex(), which does not skip the undo history
\* check.
ReindexThrows ==
  /\ pc = "reindex"
  /\ Num(head) < Len(log)
  /\ ~ CanReindex
  /\ pc' = "closed"
  /\ maxSize' = DefaultSize
  /\ announced' = {}
  /\ UNCHANGED <<stateVars, index, orphan, fhead, logVars, pushVars>>

ReindexDone ==
  /\ pc = "reindex"
  /\ Num(head) = Len(log)
  /\ revision' = Num(head)
  /\ ForkStart(log[Len(log)])
  /\ pc' = "idle"
  /\ UNCHANGED <<head, undo, maxSize, logVars, pushVars, announced>>

-----------------------------------------------------------------------------
\* The steps of the one thread that holds the write lock.
Work == \/ Pop \/ PopThrows \/ Popped \/ Apply \/ ApplyThrows
        \/ AppendBlock \/ FlushLog \/ Commit \/ ReindexBlock \/ ReindexThrows \/ ReindexDone

Next == \/ \E b \in Blocks : PushDirect(b) \/ PushKept(b) \/ PushSwitch(b) \/ PushThrows(b)
        \/ Work
        \/ Close \/ Crash \/ Open \/ OpenThrows \/ Reindex

Spec == Init /\ [][Next]_vars

-----------------------------------------------------------------------------
TypeOK ==
  /\ head \in Chains /\ undo \in Seq(UndoEntry) /\ revision \in Nat
  /\ index \subseteq Blocks /\ orphan \subseteq Blocks /\ fhead \in Chains
  /\ maxSize \in Nat
  /\ log \in Seq(Blocks) /\ buf \in Seq(Blocks)
  /\ pc \in {"idle", "closed", "pop", "unpop", "apply", "append", "commit", "reindex"}
  /\ mode \in {"direct", "switch", "restore"}
  /\ target \in Chains /\ old \in Chains /\ fork \in Nat /\ skipUndo \in BOOLEAN
  /\ announced \subseteq Notice

\* The undo stack leads back from the head one block at a time, and its
\* revisions are block numbers, as commit(last_irreversible_block_num) takes
\* for granted.  Only an interrupted replay leaves a state without revision.
LeadsBack(h, u, r) ==
  /\ r = Num(h)
  /\ Len(u) <= Num(h)
  /\ \A k \in 1 .. Len(u) : /\ u[k].to = Prefix(h, Num(h) - Len(u) + k - 1)
                            /\ u[k].rev = Num(h) - Len(u) + k

StackIsChain == LeadsBack(head, undo, revision) \/ (undo = <<>> /\ revision = 0)

\* The block log is one chain from block 1, whatever forks, failures, crashes
\* and restarts happened while it was written.
LogIsChain ==
  \A n \in 1 .. Len(LogAll) : LogAll[n] = Prefix(LogAll[Len(LogAll)], n)

\* "Blocks should only be written to the log after they irreverisble as the
\* log is append only": when a state is committed, the log holds the head's
\* own ancestors up to the last irreversible block.
LogIsIrreversible ==
  pc = "commit" => \A n \in 1 .. LibOf[head] : n <= Len(log) /\ log[n] = Prefix(head, n)

\* If the process dies before or after any block is appended, the flush, or
\* the commit, open() finds the block that undo_all() leads to in the block
\* log ("Chain state does not match block log" is never the answer).  A crash
\* inside a replay, after which open() refuses the revision, is left out.
Recoverable == revision = Num(head) => InLog(log, Base)

\* What was announced by a block that did not throw later.
Confirmed == {r.block : r \in {q \in announced : q.fate = "ok"}}

\* A block announced as irreversible stays on the chain: neither a longer
\* fork, nor a block that fails in the middle of a switch, nor one that fails
\* after it has announced others takes it back.  What that last one announced
\* itself is excepted: see AnnouncedStays.
IrreversibleStays == \A b \in Confirmed : OnChain(b, head)

\* "it is the only thing that is not reversible" (of
\* migrate_irreversible_state, the last call of applying a block): nothing
\* that observers were told while a block was applied is off the chain when a
\* push has ended.
AnnouncedStays == pc = "idle" => \A r \in announced : OnChain(r.block, head)

\* A switch of forks that fails ends at the head it started from, unless it
\* would have had to take back a committed block.
SwitchUnwinds ==
  [][(PopThrows \/ (ApplyThrows /\ mode = "restore")) => fork < Num(Base)]_vars

\* The fork database keeps "a linked tree of all blocks that branch from the
\* start_block": the chain's head is in it, so that the next block links.
HeadStaysLinked == (pc = "idle" /\ head # <<>>) => head \in index

\* The chain goes through the operator's checkpoints.
CheckpointsHold == \A c \in Checkpoints : Num(head) >= Num(c) => OnChain(c, head)

\* Below the last checkpoint aside, the undo stack stays below the limit.
UndoBounded == Len(undo) < MaxUndo \/ \E c \in Checkpoints : Num(head) <= Num(c)

\* What push_block let into the block log, reindex() can replay, but for a
\* block that it let pass the undo limit for the sake of a checkpoint: that
\* one is where the replay ends.
ReplaySucceeds ==
  [][ReindexThrows => SkipsUndoCheck(NextLogged) /\ Num(NextLogged) - LibOf[head] >= MaxUndo]_vars

\* A push ends: the loop that pops until the fork point, and the loops over
\* the branches, terminate.
PushEnds == pc \in {"pop", "unpop", "apply", "append", "commit"} ~> pc \in {"idle", "closed"}

-----------------------------------------------------------------------------
(***************************************************************************)
(* The inductive invariant behind TypeOK, StackIsChain and UndoBounded.    *)
(***************************************************************************)
\* Outside an interrupted or running replay the revision is the head's number.
RevisionIsNumber ==
  /\ pc \notin {"closed", "reindex"} => revision = Num(head)
  /\ pc = "reindex" => undo = <<>> /\ revision = 0 /\ log # <<>>

Branches == /\ target \in Blocks /\ old \in Blocks
            /\ fork < Num(target) /\ fork < Num(old)
            /\ Prefix(target, fork) = Prefix(old, fork)

\* What push_block knows about its locals at each point.
LocalsOk ==
  /\ pc \in {"pop", "unpop"} => mode = "switch"
  /\ (pc \in {"pop", "unpop", "apply", "append", "commit"} /\ mode # "direct") => Branches
  /\ (pc = "apply" /\ mode = "direct") => target \in Blocks
  /\ (pc \in {"apply", "append", "commit"} /\ mode = "switch") => OnChain(head, target)
  /\ (pc \in {"apply", "append", "commit"} /\ mode = "restore") => OnChain(head, old)
  /\ (pc = "apply" /\ mode = "switch") => Num(head) < Num(target)
  /\ (pc = "apply" /\ mode = "restore") => Num(head) < Num(old)
  /\ pc = "pop" => OnChain(head, old)
  /\ pc = "unpop" => OnChain(head, target)
  /\ (pc \in {"pop", "unpop", "apply", "append", "commit"} /\ mode # "direct") => fork <= Num(head)

\* Every block that is still to be appended was found.
AppendReady ==
  pc = "append" => \A n \in Len(LogAll) + 1 .. LibOf[head] : MainBlock(n, fhead) # <<>>

IInv == TypeOK /\ StackIsChain /\ RevisionIsNumber /\ LocalsOk /\ AppendReady

\* Between the steps of applying a block, what can be undone is what is not
\* irreversible; without checkpoints the limit is always checked.
LimitInv ==
  /\ skipUndo = FALSE
  /\ Len(undo) < MaxUndo
  /\ pc \in {"idle", "pop", "unpop", "apply"} => LibOf[head] <= Num(head) - Len(undo)

\* What makes CheckpointsHold inductive: every block that can be reached from
\* an item of the fork database through live prev pointers was compared with
\* the checkpoints, and so was every block of the log.
Passed(b)     == \A c \in Checkpoints : Num(c) = Num(b) => c = b
Reaches(b, n) == \A m \in n + 1 .. Num(b) : Prefix(b, m) \notin orphan
Vouched(b)    == \A n \in 1 .. Num(b) : Reaches(b, n) => Passed(Prefix(b, n))

CheckpointInv ==
  /\ CheckpointsHold
  /\ \A b \in index \cup {fhead} : Vouched(b)
  /\ \A n \in 1 .. Len(LogAll) : Passed(LogAll[n])
  /\ (pc \in {"pop", "unpop", "apply", "append", "commit"} /\ mode # "direct") =>
       \A b \in {target, old} : Vouched(b) /\ Reaches(b, fork + 1)
  /\ (pc = "apply" /\ mode = "direct") => Passed(target)

(***************************************************************************)
(* The inductive invariant behind the properties of the block log, of the  *)
(* irreversible blocks and of failed switches, for a node that is not sent *)
(* blocks it has, without checkpoints, and with more than one witness (so  *)
(* that a block does not make itself irreversible).                        *)
(***************************************************************************)
\* Whether b can be applied is decided by b alone, once its previous block is
\* the head.
Good(b)  == Fate[b] = "ok" /\ Num(b) - LibOf[Prev(b)] < MaxUndo
Sound(b) == \A n \in 1 .. Num(b) : Good(Prefix(b, n))

Ordinary == /\ Checkpoints = {} /\ Redeliver = FALSE
            /\ \A b \in Blocks : LibOf[b] < Num(b)
            /\ Sound(InitChain)

\* The block log is one chain, and the network will never contradict it.
LogTop == IF LogAll = <<>> THEN <<>> ELSE LogAll[Len(LogAll)]

LogOk == /\ LogTop \in Chains /\ Num(LogTop) = Len(LogAll)
         /\ \A n \in 1 .. Len(LogAll) : LogAll[n] = Prefix(LogTop, n)
         /\ Sound(LogTop) /\ Final(LogTop)
         /\ pc # "append" => buf = <<>>

StateOk == /\ Sound(head)
           /\ Recoverable
           /\ pc \in {"idle", "pop", "unpop", "apply", "commit"} => LibOf[head] <= Len(LogAll)
           /\ pc = "reindex" => OnChain(head, LogTop)

Running == pc \notin {"closed", "reindex"}
Busy    == pc \in {"pop", "unpop", "apply", "append", "commit"}
\* Nothing was applied yet.
Genesis == head = <<>> /\ (pc = "idle" \/ (pc = "apply" /\ mode = "direct"))

\* The block is never applied (again).
Gone(b) == Num(b) < Num(Base) \/ ~ Sound(b)
\* An item whose previous block is or may become part of the chain has it in
\* the fork database, and points to it.
Linked(b) == \/ Prev(b) = <<>> \/ Gone(Prev(b))
             \/ Prev(b) \in index /\ b \notin orphan

Items == (index \cup {fhead}) \ {<<>>}

TreeOk ==
  /\ IsFiniteSet(index)
  /\ Running => \A n \in 1 .. Num(head) : n >= Num(Base) => Prefix(head, n) \in index
  /\ Running /\ ~ Genesis => fhead # <<>> /\ \A b \in Items : Linked(b)
  /\ Running => fhead \in index \cup {<<>>} \/ Gone(fhead)
  /\ pc = "idle" => \A b \in Items \ orphan : Prev(b) \in index \cup {fhead}
  /\ Genesis /\ pc = "idle" => (index = {} /\ Num(fhead) <= 1) \/ Num(fhead) > 1
  /\ Genesis /\ pc = "apply" => index = {target} /\ Num(target) = 1

\* What push_block knows about the branches it holds.
PushOk ==
  /\ pc = "apply" /\ mode = "direct" =>
       /\ fhead # <<>> /\ Prev(fhead) = head /\ target \in index
       /\ \A n \in 1 .. Num(head) : n >= Num(Base) => Prefix(head, n) # target
       /\ \A b \in Items : Prev(b) = target => Gone(target)
  /\ pc \in {"append", "commit"} =>
       fhead # <<>> /\ Num(fhead) = Num(head) /\ Prev(fhead) = Prev(head)
  /\ Busy /\ mode # "direct" =>
       /\ Sound(old) /\ LibOf[old] <= Len(LogAll) /\ Num(old) < Num(target)
       /\ \A n \in fork + 1 .. Num(old) - 1 : Prefix(target, n) # Prefix(old, n)
       /\ Reaches(target, fork + 1)
       /\ \A n \in fork + 1 .. Num(old) : n >= Num(Base) => Prefix(old, n) \in index
  /\ pc = "pop" \/ (Busy /\ pc # "unpop" /\ mode = "switch") =>
       \A n \in fork + 1 .. Num(target) : n >= Num(Base) => Prefix(target, n) \in index
  /\ pc \in {"pop", "unpop"} =>
       /\ fhead # <<>> /\ OnChain(fhead, target)
       /\ \A n \in fork + 1 .. Num(fhead) - 1 : n >= Num(Base) => Prefix(target, n) \in index
       /\ Num(Base) <= fork => Num(fhead) > Num(head)

\* What was announced is below what can be undone, or about to be.
AnnouncedOk ==
  /\ pc = "closed" => announced = {}
  /\ \A b \in Confirmed : OnChain(b, head) /\ Num(b) <= Max2(LibOf[head], Num(Base))

ChainInv == LogOk /\ StateOk /\ TreeOk /\ PushOk
=============================================================================
