------------------------------ MODULE UndoIndex ------------------------------
(***************************************************************************)
(* chainbase::generic_index: a table of objects, each with a numeric id    *)
(* and a unique secondary key, and the stack of undo states that lets the  *)
(* node take back a transaction or a block.  An undo state is a change set *)
(* (old values, removed values, new ids), not a copy of the table.         *)
(*                                                                         *)
(* `snap' is a history variable: the table as it was when each session on  *)
(* the stack was started.  No action reads it except to keep it aligned    *)
(* with `stack'.                                                           *)
(***************************************************************************)
EXTENDS Integers, Sequences

CONSTANTS MaxId,        \* ids are 0 .. MaxId - 1
          Keys, Data,   \* an object is a key and other data
          None,         \* "no object"
          MaxDepth,     \* bound on the number of undo states
          MaxRevision   \* bound on revision numbers

Ids    == 0 .. MaxId - 1
Values == [key : Keys, data : Data]
Slot   == Values \cup {None}
Tables == [Ids -> Slot]

ASSUME BoundsAssumption == MaxId \in Nat /\ MaxDepth \in Nat /\ MaxRevision \in Nat
ASSUME NoneAssumption   == None \notin Values

VARIABLES obj,        \* _indices: the table
          nextId,     \* _next_id
          stack,      \* _stack: undo states, oldest first
          revision,   \* _revision
          status,     \* "ok", "unwinding" (an exception is on its way to the
                      \* session's destructor), "undo_all", or "fault" (undo threw)
          snap        \* history: [tab, next] at the start of each session

vars == <<obj, nextId, stack, revision, status, snap>>

NoValues == [i \in Ids |-> None]

UndoState == [old_values : Tables, removed_values : Tables, new_ids : SUBSET Ids,
              old_next_id : 0 .. MaxId, revision : 1 .. MaxRevision]

Snapshot == [tab : Tables, next : 0 .. MaxId]

Top == stack[Len(stack)]

\* A value cannot be stored under id i while another object has its key.
Clash(t, i, v) == \E j \in Ids \ {i} : t[j] # None /\ t[j].key = v.key

Init == /\ obj = NoValues
        /\ nextId = 0
        /\ stack = <<>>
        /\ revision = 0
        /\ status = "ok"
        /\ snap = <<>>

-----------------------------------------------------------------------------
\* The bookkeeping on_create, on_modify and on_remove do in the newest undo
\* state, as functions from undo state to undo state.

on_create(st, i) == [st EXCEPT !.new_ids = @ \cup {i}]

\* Mutant: every modify() overwrites the recorded old value.
on_modify_Overwrites(st, i) ==
  IF i \in st.new_ids THEN st ELSE [st EXCEPT !.old_values[i] = obj[i]]

on_modify(st, i) ==
  IF i \in st.new_ids \/ st.old_values[i] # None
  THEN st
  ELSE [st EXCEPT !.old_values[i] = obj[i]]

\* Mutant: a removed object stays among the old values.
on_remove_KeepsOld(st, i) ==
  IF i \in st.new_ids THEN [st EXCEPT !.new_ids = @ \ {i}]
  ELSE [st EXCEPT !.removed_values[i] = obj[i]]

on_remove(st, i) ==
  IF i \in st.new_ids THEN [st EXCEPT !.new_ids = @ \ {i}]
  ELSE IF st.old_values[i] # None
       THEN [st EXCEPT !.removed_values[i] = st.old_values[i], !.old_values[i] = None]
  ELSE IF st.removed_values[i] # None THEN st
  ELSE [st EXCEPT !.removed_values[i] = obj[i]]

\* The stack after the newest undo state became st; nothing is recorded
\* when there is no undo state.
Recorded(st) == IF stack = <<>> THEN stack ELSE [stack EXCEPT ![Len(stack)] = st]

\* emplace(): a key clash throws before anything has changed.
Create(v) ==
  /\ status = "ok"
  /\ nextId < MaxId
  /\ ~ Clash(obj, nextId, v)
  /\ obj' = [obj EXCEPT ![nextId] = v]
  /\ nextId' = nextId + 1
  /\ stack' = Recorded(on_create(Top, nextId))
  /\ UNCHANGED <<revision, status, snap>>

Modify(i, v) ==
  /\ status = "ok"
  /\ obj[i] # None
  /\ ~ Clash(obj, i, v)
  /\ obj' = [obj EXCEPT ![i] = v]
  /\ stack' = Recorded(on_modify(Top, i))
  /\ UNCHANGED <<nextId, revision, status, snap>>

\* The container's modify() erases an object it cannot re-index; the
\* exception then reaches the destructor of the session, which undoes.
ModifyFails(i, v) ==
  /\ status = "ok"
  /\ stack # <<>>
  /\ obj[i] # None
  /\ Clash(obj, i, v)
  /\ obj' = [obj EXCEPT ![i] = None]
  /\ stack' = Recorded(on_modify(Top, i))
  /\ status' = "unwinding"
  /\ UNCHANGED <<nextId, revision, snap>>

Remove(i) ==
  /\ status = "ok"
  /\ obj[i] # None
  /\ obj' = [obj EXCEPT ![i] = None]
  /\ stack' = Recorded(on_remove(Top, i))
  /\ UNCHANGED <<nextId, revision, status, snap>>

-----------------------------------------------------------------------------
StartUndoSession ==
  /\ status = "ok"
  /\ Len(stack) < MaxDepth
  /\ revision < MaxRevision
  /\ revision' = revision + 1
  /\ stack' = Append(stack, [old_values |-> NoValues, removed_values |-> NoValues,
                             new_ids |-> {}, old_next_id |-> nextId,
                             revision |-> revision + 1])
  /\ snap' = Append(snap, [tab |-> obj, next |-> nextId])
  /\ UNCHANGED <<obj, nextId, status>>

\* undo() in three passes: put the old values back in id order (a modify or
\* an emplace each, which fails on a key clash), erase the new ids, emplace
\* the removed values.
OldRestored(st, t) ==
  [i \in Ids |-> IF st.old_values[i] # None THEN st.old_values[i] ELSE t[i]]

NewErased(st, t) == [i \in Ids |-> IF i \in st.new_ids THEN None ELSE t[i]]

\* Mutant: the removed objects are not put back.
Reverted_NoRemoved(st, t) == NewErased(st, OldRestored(st, t))

Reverted(st, t) ==
  [i \in Ids |-> IF st.removed_values[i] # None THEN st.removed_values[i]
                 ELSE NewErased(st, OldRestored(st, t))[i]]

\* The table the first pass has reached when it comes to id i.
RestoredBelow(st, t, i) ==
  [j \in Ids |-> IF j < i /\ st.old_values[j] # None THEN st.old_values[j] ELSE t[j]]

RestoreClashes(st, t, i) ==
  st.old_values[i] # None /\ Clash(RestoredBelow(st, t, i), i, st.old_values[i])

\* Erasing a new id that is not in the table is undefined behaviour.
ErasesMissing(st, t) == \E i \in st.new_ids : OldRestored(st, t)[i] = None

EmplaceClashes(st, t) ==
  \E i \in Ids : /\ st.removed_values[i] # None
                 /\ \/ NewErased(st, OldRestored(st, t))[i] # None
                    \/ Clash(Reverted(st, t), i, st.removed_values[i])

UndoThrows(st, t) == \/ \E i \in Ids : RestoreClashes(st, t, i)
                     \/ ErasesMissing(st, t)
                     \/ EmplaceClashes(st, t)

\* Mutant: undo_all() stops one undo state early.
Undo_StopsEarly ==
  /\ stack # <<>>
  /\ status \in {"ok", "unwinding", "undo_all"}
  /\ ~ UndoThrows(Top, obj)
  /\ obj' = Reverted(Top, obj)
  /\ nextId' = Top.old_next_id
  /\ stack' = SubSeq(stack, 1, Len(stack) - 1)
  /\ snap' = SubSeq(snap, 1, Len(snap) - 1)
  /\ revision' = revision - 1
  /\ status' = IF status = "undo_all" /\ Len(stack) > 2 THEN "undo_all" ELSE "ok"

Undo ==
  /\ stack # <<>>
  /\ status \in {"ok", "unwinding", "undo_all"}
  /\ ~ UndoThrows(Top, obj)
  /\ obj' = Reverted(Top, obj)
  /\ nextId' = Top.old_next_id
  /\ stack' = SubSeq(stack, 1, Len(stack) - 1)
  /\ snap' = SubSeq(snap, 1, Len(snap) - 1)
  /\ revision' = revision - 1
  /\ status' = IF status = "undo_all" /\ Len(stack) > 1 THEN "undo_all" ELSE "ok"

\* The first old value that does not fit is lost (its object is erased),
\* the ones before it are restored, the rest of undo() does not run.
UndoFails ==
  /\ stack # <<>>
  /\ status \in {"ok", "unwinding", "undo_all"}
  /\ UndoThrows(Top, obj)
  /\ status' = "fault"
  /\ IF \E i \in Ids : RestoreClashes(Top, obj, i)
     THEN \E i \in Ids :
            /\ RestoreClashes(Top, obj, i)
            /\ \A j \in 0 .. i - 1 : ~ RestoreClashes(Top, obj, j)
            /\ obj' = [RestoredBelow(Top, obj, i) EXCEPT ![i] = None]
     ELSE obj' \in Tables
  /\ UNCHANGED <<nextId, stack, revision, snap>>

\* Mutant: updated, then removed, keeps the newer of the two old values.
Merged_NewerValue(a, b) ==
  [a EXCEPT
     !.old_values =
        [i \in Ids |-> IF b.removed_values[i] # None THEN None
                       ELSE IF a.old_values[i] # None \/ i \in a.new_ids THEN a.old_values[i]
                       ELSE b.old_values[i]],
     !.new_ids = (a.new_ids \cup b.new_ids) \ {i \in Ids : b.removed_values[i] # None},
     !.removed_values =
        [i \in Ids |-> IF a.removed_values[i] # None THEN a.removed_values[i]
                       ELSE IF i \in a.new_ids \cup b.new_ids THEN None
                       ELSE b.removed_values[i]]]

\* The 4 x 4 merge of the two newest undo states, a before b.
Merged(a, b) ==
  [a EXCEPT
     !.old_values =
        [i \in Ids |-> IF b.removed_values[i] # None THEN None
                       ELSE IF a.old_values[i] # None \/ i \in a.new_ids THEN a.old_values[i]
                       ELSE b.old_values[i]],
     !.new_ids = (a.new_ids \cup b.new_ids) \ {i \in Ids : b.removed_values[i] # None},
     !.removed_values =
        [i \in Ids |-> IF a.removed_values[i] # None THEN a.removed_values[i]
                       ELSE IF b.removed_values[i] = None \/ i \in a.new_ids \cup b.new_ids
                            THEN None
                       ELSE IF a.old_values[i] # None THEN a.old_values[i]
                       ELSE b.removed_values[i]]]

\* With a single undo state squash() drops it and leaves _revision alone.
SquashLast ==
  /\ status = "ok"
  /\ Len(stack) = 1
  /\ stack' = <<>>
  /\ snap' = SubSeq(snap, 1, Len(snap) - 1)
  /\ UNCHANGED <<obj, nextId, revision, status>>

SquashTwo ==
  /\ status = "ok"
  /\ Len(stack) > 1
  /\ stack' = [SubSeq(stack, 1, Len(stack) - 1)
                 EXCEPT ![Len(stack) - 1] = Merged(stack[Len(stack) - 1], Top)]
  /\ snap' = SubSeq(snap, 1, Len(snap) - 1)
  /\ revision' = revision - 1
  /\ UNCHANGED <<obj, nextId, status>>

Squash == SquashLast \/ SquashTwo

\* Drops undo states from the front while their revision is at most r.
Commit(r) ==
  /\ status = "ok"
  /\ \E k \in 1 .. Len(stack) :
       /\ \A j \in 1 .. k : stack[j].revision <= r
       /\ k < Len(stack) => stack[k + 1].revision > r
       /\ stack' = SubSeq(stack, k + 1, Len(stack))
       /\ snap' = SubSeq(snap, k + 1, Len(snap))
  /\ UNCHANGED <<obj, nextId, revision, status>>

\* undo_all() is a loop of undo(): only Undo and UndoFails can follow.
UndoAll ==
  /\ status = "ok"
  /\ stack # <<>>
  /\ status' = "undo_all"
  /\ UNCHANGED <<obj, nextId, stack, revision, snap>>

\* set_revision() throws while there are undo states.
SetRevision(r) ==
  /\ status = "ok"
  /\ stack = <<>>
  /\ revision' = r
  /\ UNCHANGED <<obj, nextId, stack, status, snap>>

Next == \/ \E v \in Values : Create(v)
        \/ \E i \in Ids, v \in Values : Modify(i, v) \/ ModifyFails(i, v)
        \/ \E i \in Ids : Remove(i)
        \/ StartUndoSession
        \/ Undo
        \/ UndoFails
        \/ Squash
        \/ \E r \in 0 .. MaxRevision : Commit(r) \/ SetRevision(r)
        \/ UndoAll

\* Unwinding and undo_all are loops of one thread that nothing suspends.
Fairness == WF_vars((Undo \/ UndoFails) /\ status # "ok")

Spec == Init /\ [][Next]_vars

FairSpec == Spec /\ Fairness

-----------------------------------------------------------------------------
TypeOK ==
  /\ obj \in Tables
  /\ nextId \in 0 .. MaxId
  /\ stack \in Seq(UndoState)
  /\ revision \in 0 .. MaxRevision
  /\ status \in {"ok", "unwinding", "undo_all", "fault"}
  /\ snap \in Seq(Snapshot)
  /\ Len(snap) = Len(stack)

\* The table as it was when session k ended: the start of session k + 1, or now.
After(k) == IF k = Len(stack) THEN [tab |-> obj, next |-> nextId] ELSE snap[k + 1]

\* The four relations an object can have to an undo state (the comment in
\* squash()), each with what it says of the object before and after.
IsNop(st, i, b, a) == st.old_values[i] = None /\ st.removed_values[i] = None
                      /\ i \notin st.new_ids /\ b[i] = a[i]
IsNew(st, i, b, a) == st.old_values[i] = None /\ st.removed_values[i] = None
                      /\ i \in st.new_ids /\ b[i] = None /\ a[i] # None
                      /\ i >= st.old_next_id
IsUpd(st, i, b, a) == st.old_values[i] = b[i] /\ st.removed_values[i] = None
                      /\ i \notin st.new_ids /\ b[i] # None /\ a[i] # None
IsDel(st, i, b, a) == st.old_values[i] = None /\ st.removed_values[i] = b[i]
                      /\ i \notin st.new_ids /\ b[i] # None /\ a[i] = None

Entry(st, i, b, a) == \/ IsNop(st, i, b, a)
                      \/ IsNew(st, i, b, a)
                      \/ IsUpd(st, i, b, a)
                      \/ IsDel(st, i, b, a)

\* The exception in ModifyFails leaves the object erased although its undo
\* state says new or updated.
Orphan(st, i, b, a) ==
  /\ a[i] = None
  /\ st.removed_values[i] = None
  /\ \/ st.old_values[i] = None /\ i \in st.new_ids /\ b[i] = None /\ i >= st.old_next_id
     \/ st.old_values[i] = b[i] /\ i \notin st.new_ids /\ b[i] # None

\* Every undo state describes exactly what its session did to every object:
\* the four cases squash() is written for are the only ones, and no object
\* is in two of them.
UndoStatesExact ==
  \A k \in 1 .. Len(stack), i \in Ids :
    \/ Entry(stack[k], i, snap[k].tab, After(k).tab)
    \/ status = "fault" /\ k = Len(stack)
    \/ /\ status = "unwinding" /\ k = Len(stack)
       /\ Orphan(stack[k], i, snap[k].tab, After(k).tab)

\* An undo that returns brings back the table and the next id of the start
\* of the session, whenever it is called, also after a failed modify(), after
\* any sequence of creates, modifies, removes and squashes (the promise above
\* undo()).  An undo() that throws half way keeps no promise: UndoSafe says
\* when there is none.
UndoRestores ==
  (stack # <<>> /\ status # "fault" /\ ~ UndoThrows(Top, obj)) =>
    /\ Reverted(Top, obj) = snap[Len(snap)].tab
    /\ Top.old_next_id = snap[Len(snap)].next

\* An id in use is below _next_id, so emplace() never meets its own id, even
\* after undo() has lowered _next_id.
FreshIds ==
  status # "fault" => \A i \in Ids : obj[i] # None => i < nextId

\* Revisions on the stack are consecutive and end at _revision: what
\* commit(revision) and the node's revision = head block number rely on.
RevisionsConsecutive ==
  \A k \in 1 .. Len(stack) : stack[k].revision = revision - (Len(stack) - k)

\* Ids in use are below the next id in every snapshot, and next ids only
\* grow from one session to the next.
SnapshotsOrdered ==
  \A k \in 1 .. Len(stack) :
    /\ stack[k].old_next_id = snap[k].next
    /\ snap[k].next <= After(k).next
    /\ \A i \in Ids : snap[k].tab[i] # None => i < snap[k].next

\* No two objects share a key, now or in a snapshot.
Unique(t) ==
  \A i, j \in Ids : (t[i] # None /\ t[j] # None /\ t[i].key = t[j].key) => i = j
KeysUnique ==
  /\ status # "fault" => Unique(obj)
  /\ \A k \in 1 .. Len(stack) : Unique(snap[k].tab)

\* The inductive invariant behind the theorems of UndoIndex_proofs.
IInv == /\ TypeOK
        /\ UndoStatesExact
        /\ SnapshotsOrdered
        /\ FreshIds
        /\ RevisionsConsecutive
        /\ KeysUnique

\* undo() does not throw when every object that existed at the start of the
\* session and still exists has the key it had then, whatever objects came
\* and went, and whatever keys they passed on to each other.
SameKeys == \A i \in Ids : (snap[Len(snap)].tab[i] # None /\ obj[i] # None)
                             => snap[Len(snap)].tab[i].key = obj[i].key
UndoSafe ==
  (stack # <<>> /\ status \in {"ok", "undo_all"} /\ SameKeys) => ~ UndoThrows(Top, obj)

\* undo_all() reaches the end of the stack.
UndoAllTerminates == status = "undo_all" ~> (stack = <<>> \/ status = "fault")

\* The index implements the stack of snapshots.
Abs == INSTANCE SnapshotStack
         WITH Tables <- Snapshot,
              cur <- [tab |-> obj, next |-> nextId], saved <- snap

ImplementsSnapshots == Abs!ASpec
=============================================================================
