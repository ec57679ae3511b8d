-------------------------- MODULE WriteQueue_proofs --------------------------
(***************************************************************************)
(* Proofs about WriteQueue for any number of API threads, any ring of      *)
(* locks, any width of the lock number and any number of calls and reads.  *)
(***************************************************************************)
EXTENDS WriteQueue, SequenceTheorems, FiniteSetTheorems, TLAPS

(***************************************************************************)
(* Lemmas about slots and readers.                                         *)
(***************************************************************************)

\* A lock number is turned into a slot of the ring, and counts on modulo the
\* width of the number.
LEMMA SlotTypes ==
  ASSUME NEW n \in 0 .. LockNums - 1
  PROVE  SlotOf(n) \in Slots /\ (n + 1) % LockNums \in 0 .. LockNums - 1
BY WriteQueueAssumption DEF SlotOf, Slots

\* What a reader or the writer changes of one slot.
LEMMA SlotUpdate ==
  ASSUME NEW f \in [Slots -> [excl : BOOLEAN, shared : Int]], NEW s \in Slots
  PROVE  /\ [f EXCEPT ![s].shared = @ + 1] \in [Slots -> [excl : BOOLEAN, shared : Int]]
         /\ [f EXCEPT ![s].shared = @ - 1] \in [Slots -> [excl : BOOLEAN, shared : Int]]
         /\ \A b \in BOOLEAN : [f EXCEPT ![s].excl = b] \in [Slots -> [excl : BOOLEAN, shared : Int]]
OBVIOUS

LEMMA ThreadsFinite == IsFiniteSet(Threads)
<1>1. IsFiniteSet({P2P}) /\ IsFiniteSet({P2P} \cup {Main})
  BY FS_Singleton, FS_AddElement
<1>2. IsFiniteSet(({P2P} \cup {Main}) \cup Api)
  BY <1>1, FS_Union, WriteQueueAssumption
<1>3. Threads = ({P2P} \cup {Main}) \cup Api
  BY DEF Threads
<1> QED  BY <1>2, <1>3

LEMMA ReadersFinite ==
  ASSUME NEW s
  PROVE  IsFiniteSet(ReadersOf(s)) /\ Cardinality(ReadersOf(s)) \in Nat
<1>1. ReadersOf(s) \in SUBSET Threads
  BY DEF ReadersOf
<1> QED  BY <1>1, ThreadsFinite, FS_Subset, FS_CardinalityType

(***************************************************************************)
(* Lemmas about the queue of contexts.                                     *)
(***************************************************************************)

LEMMA QueueAppend ==
  ASSUME NEW S, NEW q \in Seq(S), NEW x \in S
  PROVE  /\ Append(q, x) \in Seq(S) /\ Range(Append(q, x)) = Range(q) \cup {x}
         /\ IsInjective(q) /\ x \notin Range(q) => IsInjective(Append(q, x))
<1>1. /\ Append(q, x) \in Seq(S) /\ Len(Append(q, x)) = Len(q) + 1 /\ Len(q) \in Nat
      /\ \A i \in 1 .. Len(q) : Append(q, x)[i] = q[i]
      /\ Append(q, x)[Len(q) + 1] = x
  BY AppendProperties, LenProperties
<1>2. DOMAIN q = 1 .. Len(q) /\ DOMAIN Append(q, x) = (1 .. Len(q)) \cup {Len(q) + 1}
  BY <1>1, LenProperties
<1>3. Range(Append(q, x)) = Range(q) \cup {x}
  BY <1>1, <1>2 DEF Range
<1>4. ASSUME IsInjective(q), x \notin Range(q) PROVE IsInjective(Append(q, x))
  BY <1>1, <1>2, <1>4 DEF IsInjective, Range
<1> QED  BY <1>1, <1>3, <1>4

LEMMA QueuePop ==
  ASSUME NEW S, NEW q \in Seq(S), q # <<>>
  PROVE  /\ Head(q) \in S /\ Tail(q) \in Seq(S) /\ Head(q) \in Range(q)
         /\ Range(Tail(q)) \subseteq Range(q)
         /\ IsInjective(q) => IsInjective(Tail(q)) /\ Head(q) \notin Range(Tail(q))
<1>1. /\ Head(q) \in S /\ Tail(q) \in Seq(S) /\ Len(Tail(q)) = Len(q) - 1
      /\ Len(q) \in Nat /\ Len(q) > 0 /\ Head(q) = q[1]
      /\ \A i \in 1 .. Len(q) - 1 : Tail(q)[i] = q[i + 1]
  BY HeadTailProperties, EmptySeq, LenProperties
<1>2. DOMAIN q = 1 .. Len(q) /\ DOMAIN Tail(q) = 1 .. Len(q) - 1
  BY <1>1, LenProperties
<1>3. \A i \in DOMAIN Tail(q) : i + 1 \in DOMAIN q /\ i + 1 # 1 /\ Tail(q)[i] = q[i + 1]
  BY <1>1, <1>2
<1>4. 1 \in DOMAIN q /\ Head(q) \in Range(q)
  BY <1>1, <1>2 DEF Range
<1>5. Range(Tail(q)) \subseteq Range(q)
  BY <1>3 DEF Range
<1>6. ASSUME IsInjective(q) PROVE IsInjective(Tail(q)) /\ Head(q) \notin Range(Tail(q))
  <2>1. ASSUME NEW a \in DOMAIN Tail(q), NEW b \in DOMAIN Tail(q), Tail(q)[a] = Tail(q)[b]
        PROVE  a = b
    <3>1. a + 1 = b + 1
      BY <1>3, <1>6, <2>1 DEF IsInjective
    <3> QED  BY <3>1, <1>2
  <2>2. Head(q) \notin Range(Tail(q))
    BY <1>1, <1>3, <1>4, <1>6 DEF Range, IsInjective
  <2> QED  BY <2>1, <2>2 DEF IsInjective
<1> QED  BY <1>1, <1>4, <1>5, <1>6

(***************************************************************************)
(* Every step keeps the types.                                             *)
(***************************************************************************)
LEMMA TypeInit == Init => TypeOK
BY SlotTypes, WriteQueueAssumption DEF Init, TypeOK, Fresh, Slots

LEMMA TypeStep == TypeOK /\ [Next]_vars => TypeOK'
<1> SUFFICES ASSUME TypeOK, [Next]_vars PROVE TypeOK'
  OBVIOUS
<1> USE DEF TypeOK, lockVars, appVars, history
<1>1. ASSUME NEW t \in Threads, Enter(t) PROVE TypeOK'
  <2>1. active' \in [Threads -> BOOLEAN]
    BY <1>1 DEF Enter
  <2> QED  BY <1>1, <2>1 DEF Enter
<1>15. ASSUME NEW t \in Threads, Leave(t) PROVE TypeOK'
  <2>1. active' \in [Threads -> BOOLEAN]
    BY <1>15 DEF Leave
  <2> QED  BY <1>15, <2>1 DEF Leave
<1>14. ASSUME NEW t \in Threads, Return(t) \/ ReadTimeout(t) PROVE TypeOK'
  <2>1. pc' = [pc EXCEPT ![t] = "idle"]
    BY <1>14 DEF Return, ReadTimeout
  <2>2. pc' \in [Threads -> {"idle", "fetched", "reading", "waiting"}]
    BY <2>1
  <2>3. CASE Return(t)
    BY <2>2, <2>3 DEF Return
  <2>4. CASE ReadTimeout(t)
    BY <2>2, <2>4 DEF ReadTimeout
  <2> QED  BY <1>14, <2>3, <2>4
<1>2. ASSUME NEW t \in Threads, Accept(t) PROVE TypeOK'
  BY <1>2, QueueAppend DEF Accept
<1>3. ASSUME NEW t \in Threads, FetchReadLock(t) PROVE TypeOK'
  BY <1>3 DEF FetchReadLock
<1>4. ASSUME NEW t \in Threads, ReadLock(t) PROVE TypeOK'
  <2>1. slots' \in [Slots -> [excl : BOOLEAN, shared : Int]]
    BY <1>4, SlotUpdate, SlotTypes DEF ReadLock
  <2> QED  BY <1>4, <2>1 DEF ReadLock
<1>5. ASSUME NEW t \in Threads, ReadUnlock(t) PROVE TypeOK'
  <2>1. slots' \in [Slots -> [excl : BOOLEAN, shared : Int]]
    BY <1>5, SlotUpdate, SlotTypes DEF ReadUnlock
  <2> QED  BY <1>5, <2>1 DEF ReadUnlock
<1>6. CASE PopFirst \/ PopNext
  <2>1. queue # <<>> /\ cxt' = Head(queue) /\ queue' = Tail(queue)
    BY <1>6 DEF PopFirst, PopNext
  <2>2. cxt' \in Threads /\ queue' \in Seq(Threads)
    BY <2>1, QueuePop
  <2> QED  BY <1>6, <2>2 DEF PopFirst, PopNext
<1>7. CASE WriterExit \/ Acquire \/ Execute \/ Answer
  BY <1>7, WriteQueueAssumption DEF WriterExit, Acquire, Execute, Answer
<1>8. CASE Claim
  BY <1>8, SlotTypes DEF Claim
<1>9. CASE AcquireTimeout
  BY <1>9, SlotTypes DEF AcquireTimeout
<1>10. CASE ConstructLock
  <2>1. slots' \in [Slots -> [excl : BOOLEAN, shared : Int]]
    BY <1>10, SlotTypes DEF ConstructLock, Fresh
  <2>2. wiped' \subseteq Threads
    BY <1>10 DEF ConstructLock, ReadersOf
  <2> QED  BY <1>10, <2>1, <2>2 DEF ConstructLock
<1>11. CASE Release
  BY <1>11 DEF Release
<1>12. CASE Signal \/ Shutdown
  BY <1>12 DEF Signal, Shutdown, ShutdownP2P, ShutdownWeb, ThreadsStopped, ShutdownChain, CloseDatabase
<1>13. CASE UNCHANGED vars
  BY <1>13 DEF vars
<1> QED
  BY <1>1, <1>2, <1>3, <1>4, <1>5, <1>6, <1>7, <1>8, <1>9, <1>10, <1>11, <1>12, <1>13, <1>14, <1>15 DEF Next, ThreadStep, Writer

(***************************************************************************)
(* Contexts.  A thread is added to the queue when it is idle, hence not in *)
(* service; it leaves the service when its promise is set, and only then   *)
(* its stack.                                                              *)
(***************************************************************************)
Busy == {"fetch", "lock", "construct", "inner", "answer"}

LEMMA ContextsInit == Init => ContextsValid
BY DEF Init, ContextsValid, InService, Range, IsInjective

LEMMA ContextsStep == TypeOK /\ ContextsValid /\ [Next]_vars => ContextsValid'
<1> SUFFICES ASSUME TypeOK, ContextsValid, [Next]_vars PROVE ContextsValid'
  OBVIOUS
<1> USE DEF lockVars, appVars, history
<1>t. queue \in Seq(Threads) /\ pc \in [Threads -> {"idle", "fetched", "reading", "waiting"}]
      /\ prom \in [Threads -> BOOLEAN]
  BY DEF TypeOK
\* Steps that take nothing into service and end no wait of a thread in service
<1>f. ASSUME queue' = queue, cxt' = cxt, wpc' \in Busy => wpc \in Busy,
             \A t \in Threads : InService(t) => pc'[t] = pc[t] /\ prom'[t] = prom[t]
      PROVE  ContextsValid'
  <2>1. \A t \in Threads : InService(t)' => InService(t)
    BY <1>f DEF InService, Busy
  <2> QED  BY <1>f, <2>1 DEF ContextsValid, Busy
<1>1. ASSUME NEW t \in Threads, Enter(t) \/ Leave(t) PROVE ContextsValid'
  BY <1>1, <1>f DEF Enter, Leave
<1>2. ASSUME NEW t \in Threads, Accept(t) PROVE ContextsValid'
  <2>1. pc[t] = "idle" /\ pc' = [pc EXCEPT ![t] = "waiting"] /\ prom' = [prom EXCEPT ![t] = FALSE]
        /\ queue' = Append(queue, t) /\ wpc' = wpc /\ cxt' = cxt
    BY <1>2 DEF Accept
  <2>2. ~InService(t)
    BY <2>1 DEF ContextsValid
  <2>3. t \notin Range(queue) /\ (wpc \in Busy => cxt # t)
    BY <2>2 DEF InService, Busy
  <2>4. Range(queue') = Range(queue) \cup {t} /\ IsInjective(queue')
    BY <1>t, <2>1, <2>3, QueueAppend DEF ContextsValid
  <2>5. ASSUME NEW u \in Threads, InService(u)' PROVE pc'[u] = "waiting" /\ ~prom'[u]
    <3>1. CASE u = t
      BY <1>t, <2>1, <3>1
    <3>2. CASE u # t
      <4>1. InService(u)
        BY <2>1, <2>4, <2>5, <3>2 DEF InService
      <4> QED  BY <1>t, <2>1, <3>2, <4>1 DEF ContextsValid
    <3> QED  BY <3>1, <3>2
  <2>6. wpc' \in Busy => cxt' \notin Range(queue')
    BY <2>1, <2>3, <2>4 DEF ContextsValid, Busy
  <2> QED  BY <2>4, <2>5, <2>6 DEF ContextsValid, Busy
<1>3. ASSUME NEW t \in Threads, Return(t) PROVE ContextsValid'
  <2>1. ~InService(t)
    BY <1>3 DEF Return, ContextsValid
  <2> QED  BY <1>3, <1>f, <1>t, <2>1 DEF Return
<1>4. ASSUME NEW t \in Threads, FetchReadLock(t) \/ ReadLock(t) \/ ReadTimeout(t) \/ ReadUnlock(t)
      PROVE  ContextsValid'
  <2>1. ~InService(t)
    BY <1>4 DEF FetchReadLock, ReadLock, ReadTimeout, ReadUnlock, ContextsValid
  <2>2. queue' = queue /\ cxt' = cxt /\ wpc' = wpc /\ prom' = prom
    BY <1>4 DEF FetchReadLock, ReadLock, ReadTimeout, ReadUnlock
  <2>3. \A u \in Threads : u # t => pc'[u] = pc[u]
    BY <1>4, <1>t DEF FetchReadLock, ReadLock, ReadTimeout, ReadUnlock
  <2> QED  BY <1>f, <2>1, <2>2, <2>3
<1>5. CASE PopFirst \/ PopNext
  <2>1. queue # <<>> /\ cxt' = Head(queue) /\ queue' = Tail(queue) /\ pc' = pc /\ prom' = prom
    BY <1>5 DEF PopFirst, PopNext
  <2>2. /\ cxt' \in Range(queue) /\ Range(queue') \subseteq Range(queue)
        /\ IsInjective(queue') /\ cxt' \notin Range(queue')
    BY <1>t, <2>1, QueuePop DEF ContextsValid
  <2>3. \A t \in Threads : InService(t)' => InService(t)
    BY <2>2 DEF InService
  <2> QED  BY <2>1, <2>2, <2>3 DEF ContextsValid
<1>6. CASE WriterExit \/ Claim \/ Acquire \/ AcquireTimeout \/ ConstructLock \/ Execute \/ Release
  BY <1>6, <1>f DEF WriterExit, Claim, Acquire, AcquireTimeout, ConstructLock, Execute, Release, Busy
<1>7. CASE Answer
  <2>1. wpc = "answer" /\ wpc' = "next" /\ queue' = queue /\ cxt' = cxt /\ pc' = pc
        /\ prom' = [prom EXCEPT ![cxt] = TRUE]
    BY <1>7 DEF Answer
  <2>2. cxt \notin Range(queue)
    BY <2>1 DEF ContextsValid
  <2>3. ASSUME NEW t \in Threads, InService(t)' PROVE pc'[t] = "waiting" /\ ~prom'[t]
    <3>1. t \in Range(queue) /\ t # cxt
      BY <2>1, <2>2, <2>3 DEF InService
    <3> QED  BY <1>t, <2>1, <3>1 DEF ContextsValid, InService
  <2> QED  BY <2>1, <2>3 DEF ContextsValid
<1>8. CASE Signal \/ Shutdown
  BY <1>8, <1>f DEF Signal, Shutdown, ShutdownP2P, ShutdownWeb, ThreadsStopped, ShutdownChain, CloseDatabase
<1>9. CASE UNCHANGED vars
  BY <1>9, <1>f DEF vars
<1> QED
  BY <1>1, <1>2, <1>3, <1>4, <1>5, <1>6, <1>7, <1>8, <1>9 DEF Next, ThreadStep, Writer

(***************************************************************************)
(* Locks.  A mutex counts its readers; the writer's lock is the current    *)
(* one and closed to readers; once acquired it has none.                   *)
(***************************************************************************)
Locks == Counted /\ Claimed /\ Alone

LEMMA LocksInit == Init => Locks
<1> SUFFICES ASSUME Init PROVE Locks
  OBVIOUS
<1>1. ASSUME NEW s \in Slots PROVE slots[s].shared = Cardinality(ReadersOf(s))
  <2>1. ReadersOf(s) = {}
    BY DEF Init, ReadersOf
  <2> QED  BY <2>1, FS_EmptySet DEF Init, Fresh
<1> QED  BY <1>1 DEF Init, Locks, Counted, Claimed, Alone

LEMMA LocksStep == TypeOK /\ Locks /\ [Next]_vars => Locks'
<1> SUFFICES ASSUME TypeOK, Locks, [Next]_vars PROVE Locks'
  OBVIOUS
<1> USE DEF lockVars, appVars, history
<1>t. /\ slots \in [Slots -> [excl : BOOLEAN, shared : Int]] /\ wlock \in Slots
      /\ cur \in 0 .. LockNums - 1 /\ num \in [Threads -> 0 .. LockNums - 1]
      /\ pc \in [Threads -> {"idle", "fetched", "reading", "waiting"}]
      /\ SlotOf(cur) \in Slots /\ \A t \in Threads : SlotOf(num[t]) \in Slots
  BY SlotTypes DEF TypeOK
\* The readers of a slot are the threads that read with a number of that slot
<1>r. ASSUME \A t \in Threads : pc'[t] = "reading" <=> pc[t] = "reading",
             \A t \in Threads : pc[t] = "reading" => num'[t] = num[t]
      PROVE  \A s : ReadersOf(s)' = ReadersOf(s)
  BY <1>r DEF ReadersOf
<1>f. ASSUME \A s : ReadersOf(s)' = ReadersOf(s), slots' = slots, wlock' = wlock, cur' = cur, wiped' = wiped,
             \/ wpc' = wpc
             \/ wpc' \in {"outer", "fetch", "exited"}
             \/ wpc \in {"inner", "answer", "next"} /\ wpc' \in {"inner", "answer", "next"}
      PROVE  Locks'
  BY <1>f DEF Locks, Counted, Claimed, Alone
<1>1. ASSUME NEW t \in Threads, Enter(t) \/ Leave(t) PROVE Locks'
  BY <1>1, <1>f, <1>r DEF Enter, Leave
<1>2. ASSUME NEW t \in Threads, Accept(t) \/ Return(t) \/ FetchReadLock(t) \/ ReadTimeout(t) PROVE Locks'
  <2>1. slots' = slots /\ wlock' = wlock /\ cur' = cur /\ wiped' = wiped /\ wpc' = wpc
    BY <1>2 DEF Accept, Return, FetchReadLock, ReadTimeout
  <2>2. pc[t] # "reading" /\ pc'[t] # "reading" /\ \A u \in Threads : u # t => pc'[u] = pc[u] /\ num'[u] = num[u]
    BY <1>2, <1>t DEF Accept, Return, FetchReadLock, ReadTimeout
  <2> QED  BY <1>f, <1>r, <2>1, <2>2
<1>3. ASSUME NEW t \in Threads, ReadLock(t) PROVE Locks'
  <2> DEFINE r == SlotOf(num[t])
  <2>1. /\ pc[t] = "fetched" /\ ~slots[r].excl /\ r \in Slots
        /\ pc' = [pc EXCEPT ![t] = "reading"] /\ slots' = [slots EXCEPT ![r].shared = @ + 1]
        /\ wlock' = wlock /\ cur' = cur /\ wiped' = wiped /\ wpc' = wpc /\ num' = num
    BY <1>3, <1>t DEF ReadLock, CanRead
  <2>2. /\ slots'[r].shared = slots[r].shared + 1 /\ slots'[r].excl = slots[r].excl
        /\ \A s \in Slots : s # r => slots'[s] = slots[s]
    BY <1>t, <2>1
  <2>3. ReadersOf(r)' = ReadersOf(r) \cup {t} /\ t \notin ReadersOf(r)
        /\ \A s \in Slots : s # r => ReadersOf(s)' = ReadersOf(s)
    BY <1>t, <2>1 DEF ReadersOf
  <2>4. Cardinality(ReadersOf(r)') = Cardinality(ReadersOf(r)) + 1
    BY <2>3, FS_AddElement, ReadersFinite
  <2>5. Counted'
    BY <2>1, <2>2, <2>3, <2>4 DEF Locks, Counted
  <2>6. wpc \in {"lock", "inner", "answer", "next"} => wlock # r
    BY <2>1 DEF Locks, Claimed
  <2>7. Claimed' /\ Alone'
    BY <1>t, <2>1, <2>2, <2>6 DEF Locks, Claimed, Alone
  <2> QED  BY <2>5, <2>7 DEF Locks
<1>4. ASSUME NEW t \in Threads, ReadUnlock(t) PROVE Locks'
  <2> DEFINE r == SlotOf(num[t])
  <2>1. /\ pc[t] = "reading" /\ r \in Slots
        /\ pc' = [pc EXCEPT ![t] = "idle"] /\ slots' = [slots EXCEPT ![r].shared = @ - 1]
        /\ wlock' = wlock /\ cur' = cur /\ wiped' = wiped /\ wpc' = wpc /\ num' = num
    BY <1>4, <1>t DEF ReadUnlock
  <2>2. /\ slots'[r].shared = slots[r].shared - 1 /\ slots'[r].excl = slots[r].excl
        /\ \A s \in Slots : s # r => slots'[s] = slots[s]
    BY <1>t, <2>1
  <2>3. ReadersOf(r)' = ReadersOf(r) \ {t} /\ t \in ReadersOf(r)
        /\ \A s \in Slots : s # r => ReadersOf(s)' = ReadersOf(s)
    BY <1>t, <2>1 DEF ReadersOf
  <2>4. Cardinality(ReadersOf(r)') = Cardinality(ReadersOf(r)) - 1 /\ Cardinality(ReadersOf(r)) # 0
    BY <2>3, FS_RemoveElement, FS_EmptySet, ReadersFinite
  <2>5. Counted'
    BY <2>1, <2>2, <2>3, <2>4 DEF Locks, Counted
  <2>6. wpc \in {"inner", "answer", "next"} /\ wiped = {} => wlock # r
    BY <2>1, <2>4 DEF Locks, Counted, Alone
  <2>7. Claimed'
    BY <1>t, <2>1, <2>2 DEF Locks, Claimed
  <2>8. Alone'
    BY <1>t, <2>1, <2>2, <2>6 DEF Locks, Alone
  <2> QED  BY <2>5, <2>7, <2>8 DEF Locks
<1>5. CASE PopFirst \/ WriterExit \/ Execute \/ Answer \/ PopNext
  BY <1>5, <1>f, <1>r DEF PopFirst, WriterExit, Execute, Answer, PopNext
<1>6. CASE Claim
  <2>1. /\ wlock' = SlotOf(cur) /\ slots' = [slots EXCEPT ![SlotOf(cur)].excl = TRUE] /\ wpc' = "lock"
        /\ cur' = cur /\ pc' = pc /\ num' = num /\ wiped' = wiped
    BY <1>6 DEF Claim
  <2>2. slots'[SlotOf(cur)].excl /\ \A s \in Slots : slots'[s].shared = slots[s].shared
    BY <1>t, <2>1
  <2>3. Claimed' /\ Alone'
    BY <2>1, <2>2 DEF Claimed, Alone
  <2> QED  BY <1>r, <2>1, <2>2, <2>3 DEF Locks, Counted
<1>7. CASE Acquire
  BY <1>7, <1>r DEF Acquire, Locks, Counted, Claimed, Alone
<1>8. CASE AcquireTimeout \/ Release
  <2>1. /\ slots' = [slots EXCEPT ![wlock].excl = FALSE] /\ wpc' \in {"construct", "outer"}
        /\ pc' = pc /\ num' = num /\ wiped' = wiped
    BY <1>8 DEF AcquireTimeout, Release
  <2>2. \A s \in Slots : slots'[s].shared = slots[s].shared
    BY <1>t, <2>1
  <2> QED  BY <1>r, <2>1, <2>2 DEF Locks, Counted, Claimed, Alone
<1>9. CASE ConstructLock
  <2>1. /\ slots' = [slots EXCEPT ![SlotOf(cur)] = Fresh] /\ wpc' = "fetch"
        /\ wiped' = wiped \cup ReadersOf(SlotOf(cur)) /\ pc' = pc /\ num' = num
    BY <1>9 DEF ConstructLock
  <2>2. wiped' = {} => wiped = {} /\ ReadersOf(SlotOf(cur)) = {}
    BY <2>1
  <2>3. slots'[SlotOf(cur)].shared = 0 /\ \A s \in Slots : s # SlotOf(cur) => slots'[s] = slots[s]
    BY <1>t, <2>1 DEF Fresh
  <2>4. Counted'
    BY <1>r, <2>1, <2>2, <2>3, FS_EmptySet DEF Locks, Counted
  <2> QED  BY <2>1, <2>4 DEF Locks, Claimed, Alone
<1>10. CASE Signal \/ Shutdown
  BY <1>10, <1>f, <1>r DEF Signal, Shutdown, ShutdownP2P, ShutdownWeb, ThreadsStopped, ShutdownChain, CloseDatabase
<1>11. CASE UNCHANGED vars
  BY <1>11, <1>f, <1>r DEF vars
<1> QED
  BY <1>1, <1>2, <1>3, <1>4, <1>5, <1>6, <1>7, <1>8, <1>9, <1>10, <1>11 DEF Next, ThreadStep, Writer

(***************************************************************************)
(* Theorems                                                                *)
(***************************************************************************)

\* The inductive invariant holds for every set of API threads, every ring of
\* locks and every number of calls, reads, lock timeouts and shutdowns.
THEOREM Invariance == Spec => []IInv
<1>1. Init => IInv
  BY TypeInit, ContextsInit, LocksInit DEF IInv, Locks
<1>2. IInv /\ [Next]_vars => IInv'
  BY TypeStep, ContextsStep, LocksStep DEF IInv, Locks
<1> QED  BY <1>1, <1>2, PTL DEF Spec

\* The state of the queue, the locks and the threads always has its type.
THEOREM TypeCorrect == Spec => []TypeOK
<1>1. IInv => TypeOK
  BY DEF IInv
<1> QED  BY <1>1, Invariance, PTL

\* The write thread never touches a context whose caller has left its stack
\* frame, and never serves a context twice (chain_plugin.cpp:240).
THEOREM ContextsValidAlways == Spec => []ContextsValid
<1>1. IInv => ContextsValid
  BY DEF IInv
<1> QED  BY <1>1, Invariance, PTL

\* The write thread never works beside a reader of the current lock, unless
\* next_lock constructed a lock again under a reader.
THEOREM IsolationAlways == Spec => []Isolation
<1>1. ASSUME IInv PROVE Isolation
  <2> SUFFICES ASSUME wpc \in {"inner", "answer", "next"}, wiped = {},
                      NEW t \in Threads, pc[t] = "reading", num[t] = cur
               PROVE  FALSE
    BY DEF Isolation
  <2>1. t \in ReadersOf(wlock)
    BY <1>1 DEF IInv, Claimed, ReadersOf
  <2>2. wlock \in Slots /\ Cardinality(ReadersOf(wlock)) = 0
    BY <1>1 DEF IInv, TypeOK, Counted, Alone
  <2> QED  BY <2>1, <2>2, ReadersFinite, FS_EmptySet
<1> QED  BY <1>1, Invariance, PTL
=============================================================================
