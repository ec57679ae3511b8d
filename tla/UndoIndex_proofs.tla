--------------------------- MODULE UndoIndex_proofs ---------------------------
(***************************************************************************)
(* Proofs about UndoIndex for every number of ids, every set of keys and   *)
(* values, every depth of the undo stack.                                  *)
(***************************************************************************)
EXTENDS UndoIndex, TLAPS

USE BoundsAssumption, NoneAssumption

(***************************************************************************)
(* Lemmas about the operators.                                             *)
(***************************************************************************)

\* undo() of an exact undo state gives back the object it started from,
\* also when a failed modify() has erased it.
LEMMA RevertedEntry ==
  ASSUME NEW st \in UndoState, NEW b \in Tables, NEW a \in Tables, NEW i \in Ids,
         Entry(st, i, b, a) \/ Orphan(st, i, b, a)
  PROVE  Reverted(st, a)[i] = b[i]
  BY DEF Entry, Orphan, IsNop, IsNew, IsUpd, IsDel, Reverted, NewErased, OldRestored,
         UndoState, Tables

\* Merging two exact undo states gives the exact undo state of both sessions.
LEMMA MergedEntry ==
  ASSUME NEW x \in UndoState, NEW y \in UndoState,
         NEW t0 \in Tables, NEW t1 \in Tables, NEW t2 \in Tables, NEW i \in Ids,
         Entry(x, i, t0, t1), Entry(y, i, t1, t2),
         x.old_next_id <= y.old_next_id,
         t0[i] # None => i < x.old_next_id
  PROVE  Entry(Merged(x, y), i, t0, t2)
  BY DEF Entry, IsNop, IsNew, IsUpd, IsDel, Merged, UndoState, Tables, Ids

\* The types of the operators on undo states.
LEMMA MergedType ==
  ASSUME NEW x \in UndoState, NEW y \in UndoState
  PROVE  Merged(x, y) \in UndoState
  BY DEF Merged, UndoState, Tables, Slot

LEMMA RevertedType ==
  ASSUME NEW st \in UndoState, NEW t \in Tables
  PROVE  Reverted(st, t) \in Tables
  BY DEF Reverted, NewErased, OldRestored, UndoState, Tables, Slot

\* on_create, on_modify and on_remove keep an undo state exact.
LEMMA CreateEntry ==
  ASSUME NEW st \in UndoState, NEW b \in Tables, NEW a \in Tables, NEW a2 \in Tables,
         NEW i \in Ids, NEW j \in Ids, Entry(st, i, b, a),
         b[j] = None, a[j] = None, j >= st.old_next_id, a2[j] # None,
         i # j => a2[i] = a[i]
  PROVE  Entry(on_create(st, j), i, b, a2)
  BY DEF Entry, IsNop, IsNew, IsUpd, IsDel, on_create, UndoState, Tables, Ids

LEMMA ModifyEntry ==
  ASSUME NEW st \in UndoState, NEW b \in Tables, NEW a2 \in Tables,
         obj \in Tables, NEW i \in Ids, NEW j \in Ids, Entry(st, i, b, obj),
         obj[j] # None, a2[j] # None,
         i # j => a2[i] = obj[i]
  PROVE  Entry(on_modify(st, j), i, b, a2)
  BY DEF Entry, IsNop, IsNew, IsUpd, IsDel, on_modify, UndoState, Tables

LEMMA ModifyFailsEntry ==
  ASSUME NEW st \in UndoState, NEW b \in Tables, NEW a2 \in Tables,
         obj \in Tables, NEW i \in Ids, NEW j \in Ids, Entry(st, i, b, obj),
         obj[j] # None, a2[j] = None,
         i # j => a2[i] = obj[i]
  PROVE  Entry(on_modify(st, j), i, b, a2) \/ Orphan(on_modify(st, j), i, b, a2)
  BY DEF Entry, Orphan, IsNop, IsNew, IsUpd, IsDel, on_modify, UndoState, Tables

LEMMA RemoveEntry ==
  ASSUME NEW st \in UndoState, NEW b \in Tables, NEW a2 \in Tables,
         obj \in Tables, NEW i \in Ids, NEW j \in Ids, Entry(st, i, b, obj),
         obj[j] # None, a2[j] = None,
         i # j => a2[i] = obj[i]
  PROVE  Entry(on_remove(st, j), i, b, a2)
  BY DEF Entry, IsNop, IsNew, IsUpd, IsDel, on_remove, UndoState, Tables

LEMMA BookkeepingTypes ==
  ASSUME NEW st \in UndoState, obj \in Tables, NEW j \in Ids
  PROVE  /\ on_create(st, j) \in UndoState
         /\ on_modify(st, j) \in UndoState
         /\ on_remove(st, j) \in UndoState
         /\ on_create(st, j).old_next_id = st.old_next_id
         /\ on_modify(st, j).old_next_id = st.old_next_id
         /\ on_remove(st, j).old_next_id = st.old_next_id
         /\ on_create(st, j).revision = st.revision
         /\ on_modify(st, j).revision = st.revision
         /\ on_remove(st, j).revision = st.revision
  BY DEF on_create, on_modify, on_remove, UndoState, Tables, Slot

(***************************************************************************)
(* The inductive invariant.                                                *)
(***************************************************************************)

\* The undo states and snapshots on the stack have their types.
LEMMA ElementTypes ==
  ASSUME TypeOK
  PROVE  \A k \in 1 .. Len(stack) :
           /\ stack[k] \in UndoState
           /\ snap[k] \in Snapshot
           /\ snap[k].tab \in Tables
           /\ snap[k].next \in 0 .. MaxId
<1> SUFFICES ASSUME NEW k \in 1 .. Len(stack)
             PROVE  stack[k] \in UndoState /\ snap[k] \in Snapshot
  BY DEF Snapshot
<1>1. stack[k] \in UndoState
  BY DEF TypeOK
<1>2. snap[k] \in Snapshot
  BY DEF TypeOK
<1> QED BY <1>1, <1>2

\* The step shared by emplace(), modify() and remove(): the table becomes t
\* and the newest undo state becomes st.
LEMMA ChangeStep ==
  ASSUME IInv, status = "ok", status' \in {"ok", "unwinding"},
         NEW t \in Tables, NEW st,
         obj' = t, stack' = Recorded(st), snap' = snap, revision' = revision,
         nextId' \in 0 .. MaxId, nextId <= nextId',
         status' = "unwinding" => stack # <<>>,
         stack # <<>> =>
           /\ st \in UndoState
           /\ st.old_next_id = Top.old_next_id
           /\ st.revision = Top.revision
           /\ \A i \in Ids : \/ Entry(st, i, snap[Len(stack)].tab, t)
                             \/ /\ status' = "unwinding"
                                /\ Orphan(st, i, snap[Len(stack)].tab, t),
         \A i \in Ids : t[i] # None => i < nextId' /\ (obj[i] # None \/ i >= nextId),
         Unique(t)
  PROVE  IInv'
<1> DEFINE n == Len(stack)
<1>1. /\ Len(stack') = n /\ n \in Nat
      /\ \A k \in 1 .. n : k < n => stack'[k] = stack[k]
      /\ n > 0 => stack'[n] = st
      /\ stack' \in Seq(UndoState)
      /\ n > 0 <=> stack # <<>>
  BY DEF Recorded, IInv, TypeOK
<1>0. \A k \in 1 .. n : /\ snap[k].tab \in Tables /\ snap[k].next \in 0 .. MaxId
                        /\ stack[k] \in UndoState
  BY ElementTypes DEF IInv
<1>2. TypeOK'
  BY <1>1 DEF IInv, TypeOK
<1>3. \A k \in 1 .. n : /\ k < n => After(k)' = After(k)
                        /\ k = n => After(k)' = [tab |-> t, next |-> nextId']
                        /\ k = n => After(k) = [tab |-> obj, next |-> nextId]
  BY <1>1 DEF After
<1>4. UndoStatesExact'
  BY <1>1, <1>3 DEF IInv, UndoStatesExact, TypeOK
<1>5. SnapshotsOrdered'
  <2> SUFFICES ASSUME NEW k \in 1 .. n
               PROVE  /\ stack'[k].old_next_id = snap[k].next
                      /\ snap[k].next <= After(k)'.next
                      /\ \A i \in Ids : snap[k].tab[i] # None => i < snap[k].next
    BY <1>1 DEF SnapshotsOrdered
  <2>1. /\ stack[k].old_next_id = snap[k].next
        /\ snap[k].next <= After(k).next
        /\ \A i \in Ids : snap[k].tab[i] # None => i < snap[k].next
    BY DEF IInv, SnapshotsOrdered
  <2>2. CASE k < n
    BY <1>1, <1>3, <2>1, <2>2
  <2>3. CASE k = n
    <3>1. snap[k].next \in Int /\ nextId \in Int /\ nextId' \in Int
      BY <1>0, BoundsAssumption DEF IInv, TypeOK
    <3>2. After(k).next = nextId /\ After(k)'.next = nextId'
      BY <1>3, <2>3
    <3> QED BY <1>1, <2>1, <2>3, <3>1, <3>2 DEF Top
  <2> QED BY <2>2, <2>3, <1>1
<1>6. FreshIds'
  BY DEF FreshIds
<1>7. RevisionsConsecutive'
  <2> SUFFICES ASSUME NEW k \in 1 .. n
               PROVE  stack'[k].revision = revision - (n - k)
    BY <1>1 DEF RevisionsConsecutive
  <2>1. stack[k].revision = revision - (n - k)
    BY DEF IInv, RevisionsConsecutive
  <2>2. CASE k < n
    BY <1>1, <2>1, <2>2
  <2>3. CASE k = n
    BY <1>1, <2>1, <2>3 DEF Top
  <2> QED BY <2>2, <2>3, <1>1
<1>8. KeysUnique'
  BY <1>1 DEF IInv, KeysUnique, Unique
<1> QED BY <1>2, <1>4, <1>5, <1>6, <1>7, <1>8 DEF IInv

\* A fresh id is unused in every snapshot.
LEMMA NextIdUnused ==
  ASSUME IInv, status = "ok", nextId < MaxId
  PROVE  /\ nextId \in Ids
         /\ obj[nextId] = None
         /\ \A k \in 1 .. Len(stack) : k = Len(stack) =>
              snap[k].tab[nextId] = None /\ stack[k].old_next_id <= nextId
<1>1. nextId \in Ids /\ obj[nextId] = None
  BY BoundsAssumption DEF IInv, TypeOK, FreshIds, Ids
<1>2. ASSUME NEW k \in 1 .. Len(stack), k = Len(stack)
      PROVE  snap[k].tab[nextId] = None /\ stack[k].old_next_id <= nextId
  <2>1. /\ stack[k].old_next_id = snap[k].next
        /\ snap[k].next <= nextId
        /\ \A i \in Ids : snap[k].tab[i] # None => i < snap[k].next
    BY <1>2 DEF IInv, SnapshotsOrdered, After
  <2>2. snap[k].next \in Int /\ nextId \in Int
    BY ElementTypes, BoundsAssumption DEF IInv, TypeOK
  <2> QED BY <1>1, <2>1, <2>2
<1> QED BY <1>1, <1>2

LEMMA CreateInv ==
  ASSUME IInv, NEW v \in Values, Create(v)
  PROVE  IInv'
<1> DEFINE t == [obj EXCEPT ![nextId] = v]
           n == Len(stack)
<1>1. /\ nextId \in Ids /\ obj[nextId] = None /\ obj \in Tables /\ nextId \in Int
      /\ status = "ok" /\ status' = "ok"
  BY NextIdUnused, BoundsAssumption DEF Create, IInv, TypeOK
<1>2. /\ t \in Tables /\ t[nextId] = v /\ v # None
      /\ \A i \in Ids : i # nextId => t[i] = obj[i]
  BY <1>1, NoneAssumption DEF Tables, Slot
<1>3. ASSUME stack # <<>>
      PROVE  /\ on_create(Top, nextId) \in UndoState
             /\ on_create(Top, nextId).old_next_id = Top.old_next_id
             /\ on_create(Top, nextId).revision = Top.revision
             /\ \A i \in Ids : Entry(on_create(Top, nextId), i, snap[n].tab, t)
  <2>1. n \in 1 .. Len(stack) /\ Top = stack[n] /\ Top \in UndoState /\ snap[n].tab \in Tables
    BY <1>3, ElementTypes DEF IInv, TypeOK, Top
  <2>2. snap[n].tab[nextId] = None /\ Top.old_next_id <= nextId
    BY <2>1, NextIdUnused, <1>1 DEF Create
  <2>3. \A i \in Ids : Entry(Top, i, snap[n].tab, obj)
    BY <2>1, <1>1 DEF IInv, UndoStatesExact, After
  <2>4. Top.old_next_id \in Int
    BY <2>1, BoundsAssumption DEF UndoState
  <2>5. nextId >= Top.old_next_id
    BY <2>2, <2>4, <1>1
  <2>6. \A i \in Ids : Entry(on_create(Top, nextId), i, snap[n].tab, t)
    BY <2>1, <2>2, <2>3, <2>5, <1>1, <1>2, CreateEntry
  <2> QED BY <2>1, <2>6, <1>1, BookkeepingTypes
<1>4. \A i \in Ids : t[i] # None => i < nextId + 1 /\ (obj[i] # None \/ i >= nextId)
  BY <1>1, <1>2 DEF IInv, FreshIds, Ids
<1>5. Unique(obj) => Unique(t)
  BY <1>1, <1>2 DEF Unique, Clash, Create
<1>6. nextId + 1 \in 0 .. MaxId /\ nextId <= nextId + 1
  BY <1>1 DEF Create, IInv, TypeOK
<1> HIDE DEF t
<1>7. /\ obj' = t /\ stack' = Recorded(on_create(Top, nextId)) /\ snap' = snap
      /\ revision' = revision /\ nextId' = nextId + 1
  BY DEF Create, t
<1>8. Unique(t)
  BY <1>1, <1>5 DEF IInv, KeysUnique
<1> QED
  BY <1>1, <1>2, <1>3, <1>4, <1>6, <1>7, <1>8, ChangeStep

LEMMA ModifyInv ==
  ASSUME IInv, NEW j \in Ids, NEW v \in Values, Modify(j, v)
  PROVE  IInv'
<1> DEFINE t == [obj EXCEPT ![j] = v]
           n == Len(stack)
<1>1. /\ obj[j] # None /\ obj \in Tables /\ nextId \in Int /\ nextId \in 0 .. MaxId
      /\ status = "ok" /\ status' = "ok"
  BY BoundsAssumption DEF Modify, IInv, TypeOK
<1>2. /\ t \in Tables /\ t[j] = v /\ v # None
      /\ \A i \in Ids : i # j => t[i] = obj[i]
  BY <1>1, NoneAssumption DEF Tables, Slot
<1>3. ASSUME stack # <<>>
      PROVE  /\ on_modify(Top, j) \in UndoState
             /\ on_modify(Top, j).old_next_id = Top.old_next_id
             /\ on_modify(Top, j).revision = Top.revision
             /\ \A i \in Ids : Entry(on_modify(Top, j), i, snap[n].tab, t)
  <2>1. n \in 1 .. Len(stack) /\ Top = stack[n] /\ Top \in UndoState /\ snap[n].tab \in Tables
    BY <1>3, ElementTypes DEF IInv, TypeOK, Top
  <2>2. \A i \in Ids : Entry(Top, i, snap[n].tab, obj)
    BY <2>1, <1>1 DEF IInv, UndoStatesExact, After
  <2>3. \A i \in Ids : Entry(on_modify(Top, j), i, snap[n].tab, t)
    BY <2>1, <2>2, <1>1, <1>2, ModifyEntry
  <2> QED BY <2>1, <2>3, <1>1, BookkeepingTypes
<1>4. \A i \in Ids : t[i] # None => i < nextId /\ (obj[i] # None \/ i >= nextId)
  BY <1>1, <1>2 DEF IInv, FreshIds
<1>5. Unique(obj) => Unique(t)
  BY <1>1, <1>2 DEF Unique, Clash, Modify
<1>8. Unique(t)
  BY <1>1, <1>5 DEF IInv, KeysUnique
<1> HIDE DEF t
<1>7. /\ obj' = t /\ stack' = Recorded(on_modify(Top, j)) /\ snap' = snap
      /\ revision' = revision /\ nextId' = nextId
  BY DEF Modify, t
<1> QED
  BY <1>1, <1>2, <1>3, <1>4, <1>7, <1>8, ChangeStep

LEMMA ModifyFailsInv ==
  ASSUME IInv, NEW j \in Ids, NEW v \in Values, ModifyFails(j, v)
  PROVE  IInv'
<1> DEFINE t == [obj EXCEPT ![j] = None]
           n == Len(stack)
<1>1. /\ obj[j] # None /\ obj \in Tables /\ nextId \in Int /\ nextId \in 0 .. MaxId
      /\ status = "ok" /\ status' = "unwinding" /\ stack # <<>>
  BY BoundsAssumption DEF ModifyFails, IInv, TypeOK
<1>2. /\ t \in Tables /\ t[j] = None
      /\ \A i \in Ids : i # j => t[i] = obj[i]
  BY <1>1 DEF Tables, Slot
<1>3. /\ on_modify(Top, j) \in UndoState
      /\ on_modify(Top, j).old_next_id = Top.old_next_id
      /\ on_modify(Top, j).revision = Top.revision
      /\ \A i \in Ids : \/ Entry(on_modify(Top, j), i, snap[n].tab, t)
                        \/ Orphan(on_modify(Top, j), i, snap[n].tab, t)
  <2>1. n \in 1 .. Len(stack) /\ Top = stack[n] /\ Top \in UndoState /\ snap[n].tab \in Tables
    BY <1>1, ElementTypes DEF IInv, TypeOK, Top
  <2>2. \A i \in Ids : Entry(Top, i, snap[n].tab, obj)
    BY <2>1, <1>1 DEF IInv, UndoStatesExact, After
  <2>3. \A i \in Ids : \/ Entry(on_modify(Top, j), i, snap[n].tab, t)
                       \/ Orphan(on_modify(Top, j), i, snap[n].tab, t)
    BY <2>1, <2>2, <1>1, <1>2, ModifyFailsEntry
  <2> QED BY <2>1, <2>3, <1>1, BookkeepingTypes
<1>4. \A i \in Ids : t[i] # None => i < nextId /\ (obj[i] # None \/ i >= nextId)
  BY <1>1, <1>2 DEF IInv, FreshIds
<1>8. Unique(t)
  BY <1>1, <1>2 DEF IInv, KeysUnique, Unique
<1> HIDE DEF t
<1>7. /\ obj' = t /\ stack' = Recorded(on_modify(Top, j)) /\ snap' = snap
      /\ revision' = revision /\ nextId' = nextId
  BY DEF ModifyFails, t
<1> QED
  BY <1>1, <1>2, <1>3, <1>4, <1>7, <1>8, ChangeStep

LEMMA RemoveInv ==
  ASSUME IInv, NEW j \in Ids, Remove(j)
  PROVE  IInv'
<1> DEFINE t == [obj EXCEPT ![j] = None]
           n == Len(stack)
<1>1. /\ obj[j] # None /\ obj \in Tables /\ nextId \in Int /\ nextId \in 0 .. MaxId
      /\ status = "ok" /\ status' = "ok"
  BY BoundsAssumption DEF Remove, IInv, TypeOK
<1>2. /\ t \in Tables /\ t[j] = None
      /\ \A i \in Ids : i # j => t[i] = obj[i]
  BY <1>1 DEF Tables, Slot
<1>3. ASSUME stack # <<>>
      PROVE  /\ on_remove(Top, j) \in UndoState
             /\ on_remove(Top, j).old_next_id = Top.old_next_id
             /\ on_remove(Top, j).revision = Top.revision
             /\ \A i \in Ids : Entry(on_remove(Top, j), i, snap[n].tab, t)
  <2>1. n \in 1 .. Len(stack) /\ Top = stack[n] /\ Top \in UndoState /\ snap[n].tab \in Tables
    BY <1>3, ElementTypes DEF IInv, TypeOK, Top
  <2>2. \A i \in Ids : Entry(Top, i, snap[n].tab, obj)
    BY <2>1, <1>1 DEF IInv, UndoStatesExact, After
  <2>3. \A i \in Ids : Entry(on_remove(Top, j), i, snap[n].tab, t)
    BY <2>1, <2>2, <1>1, <1>2, RemoveEntry
  <2> QED BY <2>1, <2>3, <1>1, BookkeepingTypes
<1>4. \A i \in Ids : t[i] # None => i < nextId /\ (obj[i] # None \/ i >= nextId)
  BY <1>1, <1>2 DEF IInv, FreshIds
<1>5. Unique(obj) => Unique(t)
  BY <1>1, <1>2 DEF Unique
<1>8. Unique(t)
  BY <1>1, <1>5 DEF IInv, KeysUnique
<1> HIDE DEF t
<1>7. /\ obj' = t /\ stack' = Recorded(on_remove(Top, j)) /\ snap' = snap
      /\ revision' = revision /\ nextId' = nextId
  BY DEF Remove, t
<1> QED
  BY <1>1, <1>2, <1>3, <1>4, <1>7, <1>8, ChangeStep

LEMMA StartInv ==
  ASSUME IInv, StartUndoSession
  PROVE  IInv'
<1> DEFINE n == Len(stack)
           e == [old_values |-> NoValues, removed_values |-> NoValues, new_ids |-> {},
                 old_next_id |-> nextId, revision |-> revision + 1]
           s == [tab |-> obj, next |-> nextId]
<1>1. /\ n \in Nat /\ stack \in Seq(UndoState) /\ snap \in Seq(Snapshot) /\ Len(snap) = n
      /\ obj \in Tables /\ nextId \in 0 .. MaxId /\ revision \in 0 .. MaxRevision
      /\ revision < MaxRevision /\ status = "ok"
      /\ status' = "ok" /\ obj' = obj /\ nextId' = nextId /\ revision' = revision + 1
  BY DEF IInv, TypeOK, StartUndoSession
<1>2. e \in UndoState /\ s \in Snapshot
  BY <1>1, BoundsAssumption DEF UndoState, Snapshot, NoValues, Tables, Slot
<1>3. /\ e.old_values = NoValues /\ e.removed_values = NoValues /\ e.new_ids = {}
      /\ e.old_next_id = nextId /\ e.revision = revision + 1
      /\ s.tab = obj /\ s.next = nextId
  OBVIOUS
<1>4. stack' = Append(stack, e) /\ snap' = Append(snap, s)
  BY DEF StartUndoSession
<1> HIDE DEF e, s
<1>5. /\ Len(stack') = n + 1 /\ Len(snap') = n + 1
      /\ stack'[n + 1] = e /\ snap'[n + 1] = s
      /\ \A k \in 1 .. n : stack'[k] = stack[k] /\ snap'[k] = snap[k]
      /\ stack' \in Seq(UndoState) /\ snap' \in Seq(Snapshot)
  BY <1>1, <1>2, <1>4
<1>6. TypeOK'
  BY <1>1, <1>5, BoundsAssumption DEF TypeOK
<1>7. \A k \in 1 .. n + 1 : /\ k = n + 1 => After(k)' = s
                            /\ k <= n => /\ After(k)'.tab = After(k).tab
                                         /\ After(k)'.next = After(k).next
  <2> SUFFICES ASSUME NEW k \in 1 .. n + 1
               PROVE  /\ k = n + 1 => After(k)' = s
                      /\ k <= n => /\ After(k)'.tab = After(k).tab
                                   /\ After(k)'.next = After(k).next
    OBVIOUS
  <2>1. CASE k = n + 1
    BY <2>1, <1>1, <1>5 DEF After, s
  <2>2. CASE k = n
    BY <2>2, <1>1, <1>3, <1>5 DEF After
  <2>3. CASE k < n
    <3>1. k + 1 \in 1 .. n /\ k # n /\ k # n + 1
      BY <2>3, <1>1
    <3> QED BY <3>1, <1>1, <1>5, <2>3 DEF After
  <2> QED BY <1>1, <2>1, <2>2, <2>3
<1>8. UndoStatesExact'
  <2> SUFFICES ASSUME NEW k \in 1 .. n + 1, NEW i \in Ids
               PROVE  Entry(stack'[k], i, snap'[k].tab, After(k)'.tab)
    BY <1>5 DEF UndoStatesExact
  <2>1. CASE k = n + 1
    BY <2>1, <1>3, <1>5, <1>7 DEF Entry, IsNop, NoValues
  <2>2. CASE k <= n
    <3>1. k \in 1 .. n
      BY <2>2, <1>1
    <3>2. Entry(stack[k], i, snap[k].tab, After(k).tab)
      BY <3>1, <1>1 DEF IInv, UndoStatesExact
    <3> QED BY <3>1, <3>2, <2>2, <1>5, <1>7
  <2> QED BY <2>1, <2>2, <1>1
<1>9. SnapshotsOrdered'
  <2> SUFFICES ASSUME NEW k \in 1 .. n + 1
               PROVE  /\ stack'[k].old_next_id = snap'[k].next
                      /\ snap'[k].next <= After(k)'.next
                      /\ \A i \in Ids : snap'[k].tab[i] # None => i < snap'[k].next
    BY <1>5 DEF SnapshotsOrdered
  <2>1. CASE k = n + 1
    BY <2>1, <1>1, <1>3, <1>5, <1>7 DEF IInv, FreshIds
  <2>2. CASE k <= n
    <3>1. k \in 1 .. n
      BY <2>2, <1>1
    <3> QED BY <3>1, <2>2, <1>5, <1>7 DEF IInv, SnapshotsOrdered
  <2> QED BY <2>1, <2>2, <1>1
<1>10. FreshIds'
  BY <1>1 DEF IInv, FreshIds
<1>11. RevisionsConsecutive'
  <2> SUFFICES ASSUME NEW k \in 1 .. n + 1
               PROVE  stack'[k].revision = (revision + 1) - ((n + 1) - k)
    BY <1>1, <1>5 DEF RevisionsConsecutive
  <2>1. CASE k = n + 1
    BY <2>1, <1>1, <1>3, <1>5
  <2>2. CASE k <= n
    <3>1. k \in 1 .. n
      BY <2>2, <1>1
    <3>2. stack[k].revision = revision - (n - k)
      BY <3>1 DEF IInv, RevisionsConsecutive
    <3> QED BY <3>1, <3>2, <1>1, <1>5
  <2> QED BY <2>1, <2>2, <1>1
<1>12. KeysUnique'
  <2>1. ASSUME NEW k \in 1 .. n + 1
        PROVE  Unique(snap'[k].tab)
    <3>1. CASE k = n + 1
      BY <3>1, <1>1, <1>3, <1>5 DEF IInv, KeysUnique, StartUndoSession
    <3>2. CASE k <= n
      <4>1. k \in 1 .. n
        BY <3>2, <1>1
      <4> QED BY <4>1, <1>5 DEF IInv, KeysUnique
    <3> QED BY <3>1, <3>2, <1>1
  <2> QED BY <2>1, <1>1, <1>5 DEF IInv, KeysUnique, Unique, StartUndoSession
<1> QED BY <1>6, <1>8, <1>9, <1>10, <1>11, <1>12 DEF IInv

\* The step shared by undo() and squash() of two undo states: the newest
\* snapshot goes, and the undo state below it becomes st.
LEMMA PopStep ==
  ASSUME IInv, NEW n, n = Len(stack), n > 0, NEW st,
         stack' \in Seq(UndoState), Len(stack') = n - 1, n > 1 => stack'[n - 1] = st,
         \A k \in 1 .. n - 1 : k < n - 1 => stack'[k] = stack[k],
         snap' = SubSeq(snap, 1, n - 1), revision' = revision - 1,
         status' \in {"ok", "undo_all"},
         obj' \in Tables, nextId' \in 0 .. MaxId,
         n > 1 => /\ st.old_next_id = stack[n - 1].old_next_id
                  /\ st.revision = stack[n - 1].revision
                  /\ \A i \in Ids : Entry(st, i, snap[n - 1].tab, obj'),
         snap[n].next <= nextId',
         \A i \in Ids : obj'[i] # None => i < nextId',
         Unique(obj')
  PROVE  IInv'
<1>1. /\ n \in Nat /\ stack \in Seq(UndoState) /\ snap \in Seq(Snapshot) /\ Len(snap) = n
      /\ revision \in 0 .. MaxRevision /\ n - 1 \in Nat
  BY DEF IInv, TypeOK
<1>2. /\ Len(stack') = n - 1 /\ Len(snap') = n - 1
      /\ n > 1 => stack'[n - 1] = st
      /\ \A k \in 1 .. n - 1 : snap'[k] = snap[k] /\ (k < n - 1 => stack'[k] = stack[k])
      /\ snap' \in Seq(Snapshot)
  BY <1>1
<1>4. revision - 1 \in 0 .. MaxRevision
  <2>1. stack[n].revision = revision - (n - n) /\ stack[n] \in UndoState
    BY <1>1, ElementTypes DEF IInv, RevisionsConsecutive
  <2>2. revision \in 1 .. MaxRevision
    BY <2>1, <1>1, BoundsAssumption DEF UndoState
  <2> QED BY <2>2, BoundsAssumption
<1>5. TypeOK'
  BY <1>2, <1>4 DEF TypeOK
<1>6. \A k \in 1 .. n - 1 : /\ k < n - 1 => After(k)' = After(k)
                            /\ k = n - 1 => After(k)'.tab = obj' /\ After(k)'.next = nextId'
                            /\ k = n - 1 => After(k) = snap[n]
  <2> SUFFICES ASSUME NEW k \in 1 .. n - 1
               PROVE  /\ k < n - 1 => After(k)' = After(k)
                      /\ k = n - 1 => After(k)'.tab = obj' /\ After(k)'.next = nextId'
                      /\ k = n - 1 => After(k) = snap[n]
    OBVIOUS
  <2>1. CASE k = n - 1
    BY <2>1, <1>1, <1>2 DEF After
  <2>2. CASE k < n - 1
    <3>1. k + 1 \in 1 .. n - 1 /\ k # n - 1 /\ k # n
      BY <2>2, <1>1
    <3> QED BY <3>1, <2>2, <1>1, <1>2 DEF After
  <2> QED BY <2>1, <2>2, <1>1
<1>7. UndoStatesExact'
  <2> SUFFICES ASSUME NEW k \in 1 .. n - 1, NEW i \in Ids
               PROVE  Entry(stack'[k], i, snap'[k].tab, After(k)'.tab)
    BY <1>2 DEF UndoStatesExact
  <2>1. CASE k = n - 1
    BY <2>1, <1>1, <1>2, <1>6
  <2>2. CASE k < n - 1
    <3>1. k \in 1 .. n /\ k # n
      BY <2>2, <1>1
    <3>2. Entry(stack[k], i, snap[k].tab, After(k).tab)
      BY <3>1 DEF IInv, UndoStatesExact
    <3> QED BY <3>2, <2>2, <1>2, <1>6
  <2> QED BY <2>1, <2>2, <1>1
<1>8. SnapshotsOrdered'
  <2> SUFFICES ASSUME NEW k \in 1 .. n - 1
               PROVE  /\ stack'[k].old_next_id = snap[k].next
                      /\ snap[k].next <= After(k)'.next
                      /\ \A i \in Ids : snap[k].tab[i] # None => i < snap[k].next
    BY <1>2 DEF SnapshotsOrdered
  <2>1. k \in 1 .. n /\ n \in 1 .. n
    BY <1>1
  <2>2. /\ stack[k].old_next_id = snap[k].next
        /\ snap[k].next <= After(k).next
        /\ \A i \in Ids : snap[k].tab[i] # None => i < snap[k].next
    BY <2>1 DEF IInv, SnapshotsOrdered
  <2>3. CASE k = n - 1
    <3>1. snap[k].next \in Int /\ snap[n].next \in Int /\ nextId' \in Int
      BY <2>1, ElementTypes, BoundsAssumption DEF IInv
    <3>2. snap[k].next <= nextId'
      BY <3>1, <2>2, <2>3, <1>6
    <3> QED BY <3>2, <2>2, <2>3, <1>1, <1>2, <1>6
  <2>4. CASE k < n - 1
    BY <2>2, <2>4, <1>2, <1>6
  <2> QED BY <2>3, <2>4, <1>1
<1>9. FreshIds'
  BY DEF FreshIds
<1>10. RevisionsConsecutive'
  <2> SUFFICES ASSUME NEW k \in 1 .. n - 1
               PROVE  stack'[k].revision = (revision - 1) - ((n - 1) - k)
    BY <1>2 DEF RevisionsConsecutive
  <2>0. k \in 1 .. Len(stack)
    BY <1>1
  <2>1. stack[k].revision = revision - (n - k)
    BY <2>0 DEF IInv, RevisionsConsecutive
  <2>2. CASE k = n - 1
    BY <2>1, <2>2, <1>1, <1>2
  <2>3. CASE k < n - 1
    BY <2>1, <2>3, <1>1, <1>2
  <2> QED BY <2>2, <2>3, <1>1
<1>11. KeysUnique'
  <2>1. ASSUME NEW k \in 1 .. n - 1
        PROVE  Unique(snap'[k].tab)
    <3>1. k \in 1 .. Len(stack)
      BY <1>1
    <3>2. Unique(snap[k].tab)
      BY <3>1 DEF IInv, KeysUnique
    <3> QED BY <3>2, <1>2
  <2> QED BY <2>1, <1>2 DEF KeysUnique, Unique
<1> QED BY <1>5, <1>7, <1>8, <1>9, <1>10, <1>11 DEF IInv

LEMMA UndoInv ==
  ASSUME IInv, Undo
  PROVE  IInv'
<1> DEFINE n == Len(stack)
           st == stack[n - 1]
<1>1. /\ n \in Nat /\ n > 0 /\ stack \in Seq(UndoState) /\ snap \in Seq(Snapshot)
      /\ Len(snap) = n /\ Top = stack[n] /\ obj \in Tables /\ status # "fault"
  BY DEF IInv, TypeOK, Undo, Top
<1>2. n \in 1 .. Len(stack) /\ stack[n] \in UndoState /\ snap[n].tab \in Tables
      /\ snap[n].next \in 0 .. MaxId
  BY <1>1, ElementTypes DEF IInv
<1>3. Reverted(Top, obj) = snap[n].tab
  <2>1. \A i \in Ids : Entry(Top, i, snap[n].tab, obj) \/ Orphan(Top, i, snap[n].tab, obj)
    BY <1>1, <1>2 DEF IInv, UndoStatesExact, After
  <2>2. \A i \in Ids : Reverted(Top, obj)[i] = snap[n].tab[i]
    BY <2>1, <1>1, <1>2, RevertedEntry
  <2>3. Reverted(Top, obj) \in Tables
    BY <1>1, <1>2, RevertedType
  <2> QED BY <2>2, <2>3, <1>2 DEF Tables
<1>4. /\ obj' = snap[n].tab /\ nextId' = snap[n].next
      /\ snap' = SubSeq(snap, 1, n - 1) /\ stack' = SubSeq(stack, 1, n - 1)
      /\ revision' = revision - 1 /\ status' \in {"ok", "undo_all"}
  BY <1>1, <1>2, <1>3 DEF Undo, IInv, SnapshotsOrdered
<1>5. /\ stack' \in Seq(UndoState) /\ Len(stack') = n - 1
      /\ \A k \in 1 .. n - 1 : stack'[k] = stack[k]
  BY <1>1, <1>4
<1>6. n > 1 => stack'[n - 1] = st
  BY <1>1, <1>5
<1>7. ASSUME n > 1
      PROVE  /\ n - 1 \in 1 .. Len(stack) /\ n - 1 # n
             /\ After(n - 1) = snap[n]
             /\ \A i \in Ids : Entry(st, i, snap[n - 1].tab, snap[n].tab)
  <2>1. n - 1 \in 1 .. Len(stack) /\ n - 1 # Len(stack) /\ (n - 1) + 1 = n
    BY <1>1, <1>7
  <2>2. After(n - 1) = snap[n]
    BY <2>1 DEF After
  <2> QED BY <2>1, <2>2 DEF IInv, UndoStatesExact
<1>8. \A i \in Ids : snap[n].tab[i] # None => i < snap[n].next
  BY <1>2 DEF IInv, SnapshotsOrdered
<1>9. Unique(snap[n].tab)
  BY <1>2 DEF IInv, KeysUnique
<1>10. snap[n].next <= snap[n].next
  BY <1>2, BoundsAssumption
<1> HIDE DEF n, st
<1>11. n = Len(stack) /\ (n > 1 => st = stack[n - 1])
  BY DEF n, st
<1> QED BY <1>1, <1>2, <1>4, <1>5, <1>6, <1>7, <1>8, <1>9, <1>10, <1>11, PopStep

LEMMA SquashTwoInv ==
  ASSUME IInv, SquashTwo
  PROVE  IInv'
<1> DEFINE n == Len(stack)
           st == Merged(stack[n - 1], stack[n])
<1>1. /\ n \in Nat /\ n > 1 /\ stack \in Seq(UndoState) /\ snap \in Seq(Snapshot)
      /\ Len(snap) = n /\ Top = stack[n] /\ status = "ok"
      /\ obj \in Tables /\ nextId \in 0 .. MaxId
  BY DEF IInv, TypeOK, SquashTwo, Top
<1>2. /\ n \in 1 .. Len(stack) /\ n - 1 \in 1 .. Len(stack) /\ n - 1 # Len(stack)
      /\ (n - 1) + 1 = n
  BY <1>1
<1>3. /\ stack[n] \in UndoState /\ stack[n - 1] \in UndoState
      /\ snap[n].tab \in Tables /\ snap[n - 1].tab \in Tables
      /\ snap[n].next \in 0 .. MaxId /\ snap[n - 1].next \in 0 .. MaxId
  BY <1>2, ElementTypes DEF IInv
<1>4. /\ After(n - 1) = snap[n] /\ After(n).tab = obj /\ After(n).next = nextId
  BY <1>2 DEF After
<1>5. /\ obj' = obj /\ nextId' = nextId /\ status' = "ok" /\ revision' = revision - 1
      /\ snap' = SubSeq(snap, 1, n - 1)
      /\ stack' = [SubSeq(stack, 1, n - 1) EXCEPT ![n - 1] = st]
  BY <1>1 DEF SquashTwo
<1>6. st \in UndoState /\ st.old_next_id = stack[n - 1].old_next_id
      /\ st.revision = stack[n - 1].revision
  BY <1>3, MergedType DEF Merged, UndoState
<1>7. \A i \in Ids : Entry(st, i, snap[n - 1].tab, obj)
  <2> TAKE i \in Ids
  <2>1. Entry(stack[n - 1], i, snap[n - 1].tab, snap[n].tab) /\ Entry(stack[n], i, snap[n].tab, obj)
    BY <1>1, <1>2, <1>4 DEF IInv, UndoStatesExact
  <2>2. /\ stack[n - 1].old_next_id <= stack[n].old_next_id
        /\ snap[n - 1].tab[i] # None => i < stack[n - 1].old_next_id
    BY <1>2, <1>4 DEF IInv, SnapshotsOrdered
  <2> QED BY <2>1, <2>2, <1>1, <1>3, MergedEntry
<1>8. Unique(obj)
  BY <1>1 DEF IInv, KeysUnique
<1>9. \A i \in Ids : obj[i] # None => i < nextId
  BY <1>1 DEF IInv, FreshIds
<1>10. snap[n].next <= nextId
  BY <1>2, <1>4 DEF IInv, SnapshotsOrdered
<1> HIDE DEF st
<1> DEFINE u == SubSeq(stack, 1, n - 1)
<1>11. u \in Seq(UndoState) /\ Len(u) = n - 1 /\ \A k \in 1 .. n - 1 : u[k] = stack[k]
  BY <1>1
<1>14. stack' = [u EXCEPT ![n - 1] = st]
  BY <1>5
<1> HIDE DEF u
<1>12. /\ stack' \in Seq(UndoState) /\ Len(stack') = n - 1 /\ stack'[n - 1] = st
       /\ \A k \in 1 .. n - 1 : k < n - 1 => stack'[k] = stack[k]
  <2>1. n - 1 \in 1 .. Len(u)
    BY <1>1, <1>11
  <2>2. [u EXCEPT ![n - 1] = st] \in Seq(UndoState)
    BY <2>1, <1>6, <1>11
  <2>3. Len([u EXCEPT ![n - 1] = st]) = Len(u)
    BY <2>1, <1>11
  <2>4. [u EXCEPT ![n - 1] = st][n - 1] = st
    BY <2>1, <1>11
  <2>5. \A k \in 1 .. n - 1 : k < n - 1 => [u EXCEPT ![n - 1] = st][k] = stack[k]
    BY <2>1, <1>11
  <2> QED BY <2>2, <2>3, <2>4, <2>5, <1>11, <1>14
<1> HIDE DEF n
<1>13. n = Len(stack) /\ n > 0 /\ n > 1
  BY <1>1 DEF n
<1> QED BY <1>1, <1>5, <1>6, <1>7, <1>8, <1>9, <1>10, <1>12, <1>13, PopStep

LEMMA CommitInv ==
  ASSUME IInv, NEW r \in 0 .. MaxRevision, Commit(r)
  PROVE  IInv'
<1> DEFINE n == Len(stack)
<1>1. /\ n \in Nat /\ stack \in Seq(UndoState) /\ snap \in Seq(Snapshot)
      /\ Len(snap) = n /\ status = "ok" /\ status' = "ok" /\ obj' = obj
      /\ nextId' = nextId /\ revision' = revision
  BY DEF IInv, TypeOK, Commit
<1>2. PICK d \in 1 .. n : /\ stack' = SubSeq(stack, d + 1, n)
                          /\ snap' = SubSeq(snap, d + 1, n)
  BY <1>1 DEF Commit
<1>3. /\ Len(stack') = n - d /\ Len(snap') = n - d
      /\ stack' \in Seq(UndoState) /\ snap' \in Seq(Snapshot)
      /\ \A k \in 1 .. n - d : /\ stack'[k] = stack[k + d] /\ snap'[k] = snap[k + d]
                               /\ k + d \in 1 .. n
  BY <1>1, <1>2
<1>4. \A k \in 1 .. n - d : After(k)' = After(k + d)
  <2> TAKE k \in 1 .. n - d
  <2>1. CASE k = n - d
    BY <2>1, <1>1, <1>3 DEF After
  <2>2. CASE k < n - d
    <3>1. k + 1 \in 1 .. n - d /\ k # n - d /\ k + d # n /\ (k + 1) + d = (k + d) + 1
      BY <2>2, <1>1
    <3> QED BY <3>1, <1>3 DEF After
  <2> QED BY <2>1, <2>2, <1>1
<1>5. TypeOK'
  BY <1>1, <1>3 DEF IInv, TypeOK
<1>6. UndoStatesExact'
  BY <1>1, <1>3, <1>4 DEF IInv, UndoStatesExact
<1>7. SnapshotsOrdered'
  BY <1>3, <1>4 DEF IInv, SnapshotsOrdered
<1>8. FreshIds'
  BY <1>1 DEF IInv, FreshIds
<1>9. RevisionsConsecutive'
  <2> SUFFICES ASSUME NEW k \in 1 .. n - d
               PROVE  stack'[k].revision = revision - ((n - d) - k)
    BY <1>1, <1>3 DEF RevisionsConsecutive
  <2>1. stack[k + d].revision = revision - (n - (k + d))
    BY <1>3 DEF IInv, RevisionsConsecutive
  <2>2. n - (k + d) = (n - d) - k
    BY <1>1
  <2> QED BY <2>1, <2>2, <1>3
<1>10. KeysUnique'
  <2>1. ASSUME NEW k \in 1 .. n - d
        PROVE  Unique(snap'[k].tab)
    <3>1. Unique(snap[k + d].tab)
      BY <1>3 DEF IInv, KeysUnique
    <3> QED BY <3>1, <1>3
  <2> QED BY <2>1, <1>1, <1>3 DEF IInv, KeysUnique, Unique
<1> QED BY <1>5, <1>6, <1>7, <1>8, <1>9, <1>10 DEF IInv

LEMMA SquashLastInv ==
  ASSUME IInv, SquashLast
  PROVE  IInv'
<1>1. /\ stack' = <<>> /\ obj' = obj /\ nextId' = nextId
      /\ revision' = revision /\ status' = "ok" /\ status = "ok"
  BY DEF SquashLast
<1>2. Len(stack') = 0 /\ Len(snap') = 0 /\ stack' \in Seq(UndoState) /\ snap' \in Seq(Snapshot)
  <2>1. snap \in Seq(Snapshot) /\ Len(snap) = 1 /\ snap' = SubSeq(snap, 1, Len(snap) - 1)
    BY DEF SquashLast, IInv, TypeOK
  <2>2. SubSeq(snap, 1, 0) \in Seq(Snapshot) /\ Len(SubSeq(snap, 1, 0)) = 0
    BY <2>1
  <2> QED BY <1>1, <2>1, <2>2
<1> QED BY <1>1, <1>2 DEF IInv, TypeOK, UndoStatesExact, SnapshotsOrdered, FreshIds,
                          RevisionsConsecutive, KeysUnique, Unique

\* While the surviving objects have their old keys no pass of undo() can fail.
LEMMA NeverThrows ==
  ASSUME IInv, SameKeys, status \in {"ok", "undo_all"}, stack # <<>>
  PROVE  ~ UndoThrows(Top, obj)
<1> DEFINE n == Len(stack)
           b == snap[n].tab
<1>1. /\ n \in 1 .. Len(stack) /\ Top = stack[n] /\ Top \in UndoState /\ b \in Tables
      /\ obj \in Tables /\ status \in {"ok", "undo_all"}
  BY ElementTypes DEF IInv, TypeOK, Top
<1>2. \A i \in Ids : Entry(Top, i, b, obj)
  BY <1>1 DEF IInv, UndoStatesExact, After
<1>3. /\ Unique(obj) /\ Unique(b)
      /\ \A i \in Ids : (b[i] # None /\ obj[i] # None) => b[i].key = obj[i].key
  BY <1>1 DEF IInv, TypeOK, KeysUnique, SameKeys
<1>4. \A i \in Ids : Reverted(Top, obj)[i] = b[i]
  BY <1>1, <1>2, RevertedEntry
<1> HIDE DEF b
<1>5. ASSUME NEW i \in Ids, RestoreClashes(Top, obj, i)
      PROVE  FALSE
  <2>1. Top.old_values[i] # None
    BY <1>5 DEF RestoreClashes
  <2>2. PICK j \in Ids \ {i} : /\ RestoredBelow(Top, obj, i)[j] # None
                               /\ RestoredBelow(Top, obj, i)[j].key = Top.old_values[i].key
    BY <1>5 DEF RestoreClashes, Clash
  <2>3. b[i] = Top.old_values[i] /\ b[i] # None /\ obj[i] # None
    BY <1>2, <2>1 DEF Entry, IsNop, IsNew, IsUpd, IsDel
  <2>4. obj[i].key = Top.old_values[i].key
    BY <2>3, <1>3
  <2>5. \/ RestoredBelow(Top, obj, i)[j] = obj[j]
        \/ Top.old_values[j] # None /\ RestoredBelow(Top, obj, i)[j] = Top.old_values[j]
    BY DEF RestoredBelow
  <2>6. CASE RestoredBelow(Top, obj, i)[j] = obj[j]
    BY <2>2, <2>3, <2>4, <2>6, <1>3 DEF Unique
  <2>7. CASE Top.old_values[j] # None /\ RestoredBelow(Top, obj, i)[j] = Top.old_values[j]
    <3>1. b[j] = Top.old_values[j] /\ b[j] # None
      BY <2>7, <1>2 DEF Entry, IsNop, IsNew, IsUpd, IsDel
    <3> QED BY <3>1, <2>2, <2>3, <2>7, <1>3 DEF Unique
  <2> QED BY <2>5, <2>6, <2>7
<1>6. ASSUME ErasesMissing(Top, obj)
      PROVE  FALSE
  <2>1. PICK i \in Top.new_ids : OldRestored(Top, obj)[i] = None
    BY <1>6 DEF ErasesMissing
  <2>2. i \in Ids
    BY <1>1 DEF UndoState
  <2>3. Top.old_values[i] = None /\ obj[i] # None
    BY <2>2, <1>2 DEF Entry, IsNop, IsNew, IsUpd, IsDel
  <2> QED BY <2>1, <2>2, <2>3 DEF OldRestored
<1>7. ASSUME EmplaceClashes(Top, obj)
      PROVE  FALSE
  <2>1. PICK i \in Ids :
          /\ Top.removed_values[i] # None
          /\ \/ NewErased(Top, OldRestored(Top, obj))[i] # None
             \/ Clash(Reverted(Top, obj), i, Top.removed_values[i])
    BY <1>7 DEF EmplaceClashes
  <2>2. Top.removed_values[i] = b[i] /\ b[i] # None /\ obj[i] = None /\ Top.old_values[i] = None
    BY <2>1, <1>2 DEF Entry, IsNop, IsNew, IsUpd, IsDel
  <2>3. NewErased(Top, OldRestored(Top, obj))[i] = None
    BY <2>2 DEF NewErased, OldRestored
  <2>4. ~ Clash(Reverted(Top, obj), i, Top.removed_values[i])
    BY <2>2, <1>3, <1>4 DEF Clash, Unique
  <2> QED BY <2>1, <2>3, <2>4
<1> QED BY <1>5, <1>6, <1>7 DEF UndoThrows

LEMMA UndoFailsInv ==
  ASSUME IInv, UndoFails
  PROVE  IInv'
<1>1. /\ stack' = stack /\ snap' = snap /\ nextId' = nextId /\ revision' = revision
      /\ status' = "fault"
  BY DEF UndoFails
<1>2. obj' \in Tables
  <2>1. CASE \E i \in Ids : RestoreClashes(Top, obj, i)
    <3>1. PICK i \in Ids : obj' = [RestoredBelow(Top, obj, i) EXCEPT ![i] = None]
      BY <2>1 DEF UndoFails
    <3>2. Top \in UndoState /\ obj \in Tables
      BY ElementTypes DEF IInv, TypeOK, UndoFails, Top
    <3>3. RestoredBelow(Top, obj, i) \in Tables
      BY <3>2 DEF RestoredBelow, UndoState, Tables, Slot
    <3> QED BY <3>1, <3>3 DEF Tables, Slot
  <2>2. CASE ~ \E i \in Ids : RestoreClashes(Top, obj, i)
    BY <2>2 DEF UndoFails
  <2> QED BY <2>1, <2>2
<1>4. \A k \in 1 .. Len(stack) : k # Len(stack) => After(k)' = After(k)
  BY <1>1 DEF After
<1>5. TypeOK'
  BY <1>1, <1>2 DEF IInv, TypeOK
<1>6. UndoStatesExact'
  BY <1>1, <1>4 DEF IInv, UndoStatesExact
<1>7. SnapshotsOrdered'
  <2>1. \A k \in 1 .. Len(stack) : After(k)'.next = After(k).next
    BY <1>1 DEF After
  <2> QED BY <1>1, <2>1 DEF IInv, SnapshotsOrdered
<1> QED BY <1>1, <1>5, <1>6, <1>7 DEF IInv, FreshIds, RevisionsConsecutive, KeysUnique, Unique

\* Steps that leave table, stack and snapshots alone.
LEMMA QuietInv ==
  ASSUME IInv, UNCHANGED <<obj, nextId, stack, snap>>,
         \/ revision' = revision /\ status' = status
         \/ revision' = revision /\ status = "ok" /\ status' = "undo_all"
         \/ revision' \in 0 .. MaxRevision /\ stack = <<>> /\ status' = status
  PROVE  IInv'
<1>1. \A k \in 1 .. Len(stack) : After(k)' = After(k)
  BY DEF After
<1>2. TypeOK'
  BY DEF IInv, TypeOK
<1>3. UndoStatesExact'
  BY <1>1 DEF IInv, UndoStatesExact
<1>4. SnapshotsOrdered'
  BY <1>1 DEF IInv, SnapshotsOrdered
<1>5. RevisionsConsecutive'
  <2>1. CASE revision' = revision
    BY <2>1 DEF IInv, RevisionsConsecutive
  <2>2. CASE stack = <<>>
    BY <2>2 DEF RevisionsConsecutive
  <2> QED BY <2>1, <2>2
<1>6. KeysUnique'
  BY DEF IInv, KeysUnique, Unique
<1> QED BY <1>2, <1>3, <1>4, <1>5, <1>6 DEF IInv, FreshIds

LEMMA InitInv == Init => IInv
<1> SUFFICES ASSUME Init PROVE IInv
  OBVIOUS
<1>1. /\ obj \in Tables /\ nextId = 0 /\ stack = <<>> /\ snap = <<>> /\ revision = 0
      /\ status = "ok" /\ \A i \in Ids : obj[i] = None
  BY DEF Init, NoValues, Tables, Slot
<1>2. TypeOK
  BY <1>1, BoundsAssumption DEF TypeOK
<1> QED BY <1>1, <1>2 DEF IInv, UndoStatesExact, SnapshotsOrdered, FreshIds,
                          RevisionsConsecutive, KeysUnique, Unique

LEMMA NextInv == IInv /\ [Next]_vars => IInv'
<1> SUFFICES ASSUME IInv, [Next]_vars PROVE IInv'
  OBVIOUS
<1>1. CASE \E v \in Values : Create(v)
  BY <1>1, CreateInv
<1>2. CASE \E i \in Ids, v \in Values : Modify(i, v)
  BY <1>2, ModifyInv
<1>3. CASE \E i \in Ids, v \in Values : ModifyFails(i, v)
  BY <1>3, ModifyFailsInv
<1>4. CASE \E i \in Ids : Remove(i)
  BY <1>4, RemoveInv
<1>5. CASE StartUndoSession
  BY <1>5, StartInv
<1>6. CASE Undo
  BY <1>6, UndoInv
<1>7. CASE UndoFails
  BY <1>7, UndoFailsInv
<1>8. CASE Squash
  BY <1>8, SquashLastInv, SquashTwoInv DEF Squash
<1>9. CASE \E r \in 0 .. MaxRevision : Commit(r)
  BY <1>9, CommitInv
<1>10. CASE \E r \in 0 .. MaxRevision : SetRevision(r)
  BY <1>10, QuietInv DEF SetRevision
<1>11. CASE UndoAll
  BY <1>11, QuietInv DEF UndoAll
<1>12. CASE UNCHANGED vars
  BY <1>12, QuietInv DEF vars
<1> QED
  BY <1>1, <1>2, <1>3, <1>4, <1>5, <1>6, <1>7, <1>8, <1>9, <1>10, <1>11, <1>12 DEF Next

\* The inductive invariant holds in every behaviour.
THEOREM Invariance == Spec => []IInv
  BY InitInv, NextInv, PTL DEF Spec

\* Type correctness of the index and its undo stack.
THEOREM TypeCorrect == Spec => []TypeOK
<1>1. IInv => TypeOK
  BY DEF IInv
<1> QED BY <1>1, Invariance, PTL

\* Whatever was done since a session started, an undo() that does not throw
\* restores the table and the next id of that moment.
THEOREM UndoRestoresAlways == Spec => []UndoRestores
<1>1. IInv => UndoRestores
  <2> SUFFICES ASSUME IInv, stack # <<>>, status # "fault", ~ UndoThrows(Top, obj)
               PROVE  /\ Reverted(Top, obj) = snap[Len(snap)].tab
                      /\ Top.old_next_id = snap[Len(snap)].next
    BY DEF UndoRestores
  <2> DEFINE n == Len(stack)
  <2>1. /\ n \in 1 .. Len(stack) /\ Len(snap) = n /\ Top = stack[n] /\ obj \in Tables
        /\ stack[n] \in UndoState /\ snap[n].tab \in Tables
    BY ElementTypes DEF IInv, TypeOK, Top
  <2>2. \A i \in Ids : Entry(Top, i, snap[n].tab, obj) \/ Orphan(Top, i, snap[n].tab, obj)
    BY <2>1 DEF IInv, UndoStatesExact, After
  <2>3. \A i \in Ids : Reverted(Top, obj)[i] = snap[n].tab[i]
    BY <2>2, <2>1, RevertedEntry
  <2>4. Reverted(Top, obj) \in Tables
    BY <2>1, RevertedType
  <2>5. Reverted(Top, obj) = snap[n].tab
    BY <2>1, <2>3, <2>4 DEF Tables
  <2> QED BY <2>1, <2>5 DEF IInv, SnapshotsOrdered
<1> QED BY <1>1, Invariance, PTL

\* undo() never throws while the objects that survived the session have the
\* unique keys they had at its start.
THEOREM UndoSafeAlways == Spec => []UndoSafe
<1>1. IInv => UndoSafe
  BY NeverThrows DEF UndoSafe
<1> QED BY <1>1, Invariance, PTL

\* Every step of the index is a step, or a stutter, of the snapshot stack.
LEMMA StepRefines ==
  ASSUME IInv, IInv', [Next]_vars
  PROVE  [Abs!ANext]_(Abs!avars)
<1> DEFINE c == [tab |-> obj, next |-> nextId]
<1>1. c' \in Snapshot /\ snap \in Seq(Snapshot) /\ Len(snap) = Len(stack) /\ stack \in Seq(UndoState)
  BY DEF IInv, TypeOK, Snapshot
<1>2. ASSUME snap' = snap PROVE Abs!ANext
  BY <1>1, <1>2 DEF Abs!ANext, Abs!AChange
<1>3. CASE StartUndoSession
  BY <1>3 DEF StartUndoSession, Abs!ANext, Abs!AStart
<1>4. CASE Undo
  <2>1. /\ snap # <<>> /\ snap' = SubSeq(snap, 1, Len(snap) - 1)
    BY <1>1, <1>4 DEF Undo
  <2>2. UndoRestores
    <3> DEFINE n == Len(stack)
    <3>1. /\ n \in 1 .. Len(stack) /\ Len(snap) = n /\ Top = stack[n] /\ obj \in Tables
          /\ stack[n] \in UndoState /\ snap[n].tab \in Tables /\ status # "fault"
      BY <1>4, ElementTypes DEF IInv, TypeOK, Top, Undo
    <3>2. \A i \in Ids : Entry(Top, i, snap[n].tab, obj) \/ Orphan(Top, i, snap[n].tab, obj)
      BY <3>1 DEF IInv, UndoStatesExact, After
    <3>3. \A i \in Ids : Reverted(Top, obj)[i] = snap[n].tab[i]
      BY <3>2, <3>1, RevertedEntry
    <3>4. Reverted(Top, obj) \in Tables
      BY <3>1, RevertedType
    <3>5. Reverted(Top, obj) = snap[n].tab
      BY <3>1, <3>3, <3>4 DEF Tables
    <3> QED BY <3>1, <3>5 DEF IInv, SnapshotsOrdered, UndoRestores
  <2>3. c'.tab = snap[Len(snap)].tab /\ c'.next = snap[Len(snap)].next
    BY <2>2, <1>4 DEF Undo, UndoRestores
  <2>4. snap[Len(snap)] \in Snapshot
    BY <2>1, <1>1
  <2>5. c' = snap[Len(snap)]
    BY <2>3, <2>4, <1>1 DEF Snapshot
  <2> QED BY <2>1, <2>5 DEF Abs!ANext, Abs!AUndo
<1>5. CASE Squash
  <2>1. c' = c /\ snap # <<>> /\ snap' = SubSeq(snap, 1, Len(snap) - 1)
    BY <1>1, <1>5 DEF Squash, SquashLast, SquashTwo
  <2> QED BY <2>1 DEF Abs!ANext, Abs!ASquash
<1>6. CASE \E r \in 0 .. MaxRevision : Commit(r)
  <2>1. c' = c /\ \E k \in 1 .. Len(snap) : snap' = SubSeq(snap, k + 1, Len(snap))
    BY <1>1, <1>6 DEF Commit
  <2> QED BY <2>1 DEF Abs!ANext, Abs!ACommit
<1>7. CASE \/ \E v \in Values : Create(v)
           \/ \E i \in Ids, v \in Values : Modify(i, v) \/ ModifyFails(i, v)
           \/ \E i \in Ids : Remove(i)
           \/ UndoFails
           \/ UndoAll
           \/ \E r \in 0 .. MaxRevision : SetRevision(r)
  <2>1. snap' = snap
    BY <1>7 DEF Create, Modify, ModifyFails, Remove, UndoFails, UndoAll, SetRevision
  <2> QED BY <2>1, <1>2
<1>8. CASE UNCHANGED vars
  BY <1>8 DEF vars, Abs!avars
<1> QED BY <1>3, <1>4, <1>5, <1>6, <1>7, <1>8 DEF Next

\* The index with its change sets implements the stack of full snapshots.
THEOREM Refinement == Spec => ImplementsSnapshots
<1>1. Init => Abs!AInit
  BY InitInv DEF Init, Abs!AInit, IInv, TypeOK, Snapshot
<1>2. IInv /\ IInv' /\ [Next]_vars => [Abs!ANext]_(Abs!avars)
  BY StepRefines
<1> QED BY <1>1, <1>2, Invariance, PTL DEF Spec, ImplementsSnapshots, Abs!ASpec
=============================================================================
