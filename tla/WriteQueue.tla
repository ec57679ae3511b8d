----------------------------- MODULE WriteQueue -----------------------------
(***************************************************************************)
(* How the threads of a node share its database: the chain plugin's write  *)
(* queue and the one thread that serves it, the ring of read/write locks   *)
(* of chainbase, and the shutdown of the application.  The callers are the *)
(* peer-to-peer thread (handle_block, handle_transaction), the main thread *)
(* (block production) and the threads of the web server (API calls).  What *)
(* a write does to the chain is the subject of ForkChain and PendingPool.  *)
(***************************************************************************)
EXTENDS Integers, Sequences, SequencesExt, FiniteSets

CONSTANTS P2P, Main,   \* the two threads that are always there
          Api,         \* the threads of the web server
          None,        \* no context
          NumLocks,    \* CHAINBASE_NUM_RW_LOCKS
          LockNums,    \* _current_lock is counted modulo LockNums (2^32)
          StopAtBlock, \* whether the option stop-at-block is given
          MaxCalls,    \* bound: requests pushed
          MaxReads     \* bound: sections under a read lock

Threads == {P2P, Main} \cup Api
Slots   == 0 .. NumLocks - 1

ASSUME WriteQueueAssumption ==
  /\ P2P # Main /\ {P2P, Main} \cap Api = {} /\ None \notin Threads
  /\ IsFiniteSet(Api)
  /\ NumLocks \in Nat \ {0} /\ LockNums \in Nat \ {0}
  /\ StopAtBlock \in BOOLEAN /\ MaxCalls \in Nat /\ MaxReads \in Nat

VARIABLES
  running,         \* chain_plugin_impl::running
  queue,           \* write_queue: a context is named by the thread it is in
  wpc, cxt,        \* the write thread: control, and the context it works on
  syncing,         \* is_syncing
  wlock,           \* the slot its write_lock refers to
  cur,             \* _current_lock
  slots,           \* _locks: claimed by the writer, number of readers
  pc, active,      \* a thread: its control; whether it is inside a handler
  num,             \* the lock number it fetched for reading
  prom,            \* whether the promise of its context is set
  net, web,        \* p2p_plugin running; web server takes requests
  phase,           \* the application: up, quit, the plugin that stops, exited
  down,            \* the plugins that have been shut down
  calls, reads,    \* history: requests pushed; read sections begun,
  wiped            \* readers whose lock was once constructed again under them

lockVars == <<wlock, cur, slots>>
appVars  == <<net, web, phase, down>>
history  == <<calls, reads, wiped>>
vars == <<running, queue, wpc, cxt, syncing, lockVars, pc, active, num, prom, appVars, history>>

Fresh == [excl |-> FALSE, shared |-> 0]
SlotOf(n) == n % NumLocks

Init == /\ running = TRUE /\ queue = <<>> /\ wpc = "outer" /\ cxt = None /\ syncing = TRUE
        /\ wlock = 0 /\ cur = 0 /\ slots = [s \in Slots |-> Fresh]
        /\ pc = [t \in Threads |-> "idle"] /\ active = [t \in Threads |-> FALSE]
        /\ num = [t \in Threads |-> 0] /\ prom = [t \in Threads |-> FALSE]
        /\ net = TRUE /\ web = TRUE /\ phase = "up" /\ down = {}
        /\ calls = 0 /\ reads = 0 /\ wiped = {}

-----------------------------------------------------------------------------
(* Threads                                                                 *)

PluginOf(t) == IF t = P2P THEN "p2p" ELSE IF t = Main THEN "main" ELSE "web"

\* handle_block and handle_transaction ask running first, the io_service
\* and the thread pool start no handler once they are stopped
TakesWork(t) == IF t = P2P THEN net ELSE IF t = Main THEN phase = "up" ELSE web

Enter(t) == /\ pc[t] = "idle" /\ ~active[t] /\ TakesWork(t)
            /\ active' = [active EXCEPT ![t] = TRUE]
            /\ UNCHANGED <<running, queue, wpc, cxt, syncing, lockVars, pc, num, prom, appVars, history>>

\* A handler that ends without a write
Leave(t) == /\ pc[t] = "idle" /\ active[t]
            /\ active' = [active EXCEPT ![t] = FALSE]
            /\ UNCHANGED <<running, queue, wpc, cxt, syncing, lockVars, pc, num, prom, appVars, history>>

\* with_read_lock: the current lock is looked up once ...  The p2p thread
\* also reads outside of the two handlers (has_item, get_block_ids), the main
\* thread reads without a lock
FetchReadLock(t) ==
  /\ pc[t] = "idle" /\ reads < MaxReads
  /\ (t \in Api /\ active[t]) \/ (t = P2P /\ "p2p" \notin down)
  /\ pc' = [pc EXCEPT ![t] = "fetched"] /\ num' = [num EXCEPT ![t] = cur]
  /\ reads' = reads + 1
  /\ UNCHANGED <<running, queue, wpc, cxt, syncing, lockVars, active, prom, appVars, calls, wiped>>

\* -1 is the unsigned count of a mutex that was unlocked once too often: no
\* reader fits in any more and no writer finds it empty
CanRead(s) == ~slots[s].excl /\ slots[s].shared >= 0

\* ... and locked within wait_micro
ReadLock(t) ==
  /\ pc[t] = "fetched" /\ CanRead(SlotOf(num[t]))
  /\ pc' = [pc EXCEPT ![t] = "reading"]
  /\ slots' = [slots EXCEPT ![SlotOf(num[t])].shared = @ + 1]
  /\ UNCHANGED <<running, queue, wpc, cxt, syncing, wlock, cur, active, num, prom, appVars, history>>

\* lock_exception ends the handler
ReadTimeout(t) ==
  /\ pc[t] = "fetched" /\ ~CanRead(SlotOf(num[t]))
  /\ pc' = [pc EXCEPT ![t] = "idle"] /\ active' = [active EXCEPT ![t] = FALSE]
  /\ UNCHANGED <<running, queue, wpc, cxt, syncing, lockVars, num, prom, appVars, history>>

ReadUnlock(t) ==
  /\ pc[t] = "reading"
  /\ pc' = [pc EXCEPT ![t] = "idle"]
  /\ slots' = [slots EXCEPT ![SlotOf(num[t])].shared = @ - 1]
  /\ UNCHANGED <<running, queue, wpc, cxt, syncing, wlock, cur, active, num, prom, appVars, history>>

\* accept_block, accept_transaction, generate_block: promise and context on
\* the stack, the context pushed, wait on the future
Accept(t) ==
  /\ pc[t] = "idle" /\ active[t] /\ calls < MaxCalls
  /\ pc' = [pc EXCEPT ![t] = "waiting"] /\ prom' = [prom EXCEPT ![t] = FALSE]
  /\ queue' = Append(queue, t)
  /\ calls' = calls + 1
  /\ UNCHANGED <<running, wpc, cxt, syncing, lockVars, active, num, appVars, reads, wiped>>

\* a wait that gives up after a time
Return_Impatient(t) ==
  /\ pc[t] = "waiting"
  /\ pc' = [pc EXCEPT ![t] = "idle"] /\ active' = [active EXCEPT ![t] = FALSE]
  /\ UNCHANGED <<running, queue, wpc, cxt, syncing, lockVars, num, prom, appVars, history>>

Return(t) ==
  /\ pc[t] = "waiting" /\ prom[t]
  /\ pc' = [pc EXCEPT ![t] = "idle"] /\ active' = [active EXCEPT ![t] = FALSE]
  /\ UNCHANGED <<running, queue, wpc, cxt, syncing, lockVars, num, prom, appVars, history>>

-----------------------------------------------------------------------------
(* The write thread                                                        *)

PopFirst ==
  /\ wpc = "outer" /\ running /\ queue # <<>>
  /\ cxt' = Head(queue) /\ queue' = Tail(queue) /\ wpc' = "fetch"
  /\ UNCHANGED <<running, syncing, lockVars, pc, active, num, prom, appVars, history>>

WriterExit ==
  /\ wpc = "outer" /\ ~running
  /\ wpc' = "exited"
  /\ UNCHANGED <<running, queue, cxt, syncing, lockVars, pc, active, num, prom, appVars, history>>

\* with_write_lock: the lock is claimed, which keeps new readers out ...
Claim ==
  /\ wpc = "fetch"
  /\ wlock' = SlotOf(cur) /\ slots' = [slots EXCEPT ![SlotOf(cur)].excl = TRUE]
  /\ wpc' = "lock"
  /\ UNCHANGED <<running, queue, cxt, syncing, cur, pc, active, num, prom, appVars, history>>

\* a lock taken without waiting for its readers
Acquire_NoWait ==
  /\ wpc = "lock" /\ wpc' = "inner"
  /\ UNCHANGED <<running, queue, cxt, syncing, lockVars, pc, active, num, prom, appVars, history>>

\* ... and taken when the readers have left, or
Acquire ==
  /\ wpc = "lock" /\ slots[wlock].shared = 0
  /\ wpc' = "inner"
  /\ UNCHANGED <<running, queue, cxt, syncing, lockVars, pc, active, num, prom, appVars, history>>

\* after wait_micro next_lock moves on: first the number ...
AcquireTimeout ==
  /\ wpc = "lock" /\ slots[wlock].shared # 0
  /\ slots' = [slots EXCEPT ![wlock].excl = FALSE]
  /\ cur' = (cur + 1) % LockNums /\ wpc' = "construct"
  /\ UNCHANGED <<running, queue, cxt, syncing, wlock, pc, active, num, prom, appVars, history>>

\* ... and then the new mutex, whoever may hold the old one in that slot
ReadersOf(s) == {t \in Threads : pc[t] = "reading" /\ SlotOf(num[t]) = s}

ConstructLock ==
  /\ wpc = "construct"
  /\ slots' = [slots EXCEPT ![SlotOf(cur)] = Fresh]
  /\ wiped' = wiped \cup ReadersOf(SlotOf(cur))
  /\ wpc' = "fetch"
  /\ UNCHANGED <<running, queue, cxt, syncing, wlock, cur, pc, active, num, prom, appVars, calls, reads>>

\* while( running ): the request is carried out (ForkChain, PendingPool).
\* post_block stops the node when the block it asks for is irreversible; the
\* future of its std::async waits for quit()
Execute ==
  /\ wpc = "inner" /\ running
  /\ \E stop \in {FALSE, StopAtBlock} :
       /\ running' = ~stop
       /\ phase' = IF stop /\ phase = "up" THEN "quit" ELSE phase
  /\ wpc' = "answer"
  /\ UNCHANGED <<queue, cxt, syncing, lockVars, pc, active, num, prom, net, web, down, calls, reads, wiped>>

\* the promise is set only for a write that succeeded
Answer_OnSuccess ==
  /\ wpc = "answer"
  /\ \E success \in BOOLEAN : prom' = IF success THEN [prom EXCEPT ![cxt] = TRUE] ELSE prom
  /\ syncing' \in {syncing, FALSE}
  /\ wpc' = "next"
  /\ UNCHANGED <<running, queue, cxt, lockVars, pc, active, num, appVars, history>>

\* prom_ptr set; sync mode is left when the head block is recent
Answer ==
  /\ wpc = "answer"
  /\ prom' = [prom EXCEPT ![cxt] = TRUE]
  /\ syncing' \in {syncing, FALSE}
  /\ wpc' = "next"
  /\ UNCHANGED <<running, queue, cxt, lockVars, pc, active, num, appVars, history>>

PopNext ==
  /\ wpc = "next" /\ queue # <<>>
  /\ cxt' = Head(queue) /\ queue' = Tail(queue) /\ wpc' = "inner"
  /\ UNCHANGED <<running, syncing, lockVars, pc, active, num, prom, appVars, history>>

\* The lock is given up when the queue is empty, when it was held too long
\* (live mode), or when the node stops with a context popped
Release ==
  /\ \/ wpc = "next" /\ (queue = <<>> \/ ~syncing)
     \/ wpc = "inner" /\ ~running
  /\ slots' = [slots EXCEPT ![wlock].excl = FALSE]
  /\ wpc' = "outer"
  /\ UNCHANGED <<running, queue, cxt, syncing, wlock, cur, pc, active, num, prom, appVars, history>>

-----------------------------------------------------------------------------
(* Shutdown of the application                                             *)

\* SIGINT and SIGTERM are handled by the main thread's io_service
Signal ==
  /\ phase = "up" /\ pc[Main] = "idle" /\ ~active[Main]
  /\ phase' = "quit"
  /\ UNCHANGED <<running, queue, wpc, cxt, syncing, lockVars, pc, active, num, prom, net, web, down, history>>

\* the chain plugin stops writing before the threads that wait for it
ShutdownP2P_ChainFirst ==
  /\ phase = "quit" /\ pc[Main] = "idle" /\ ~active[Main] /\ "p2p" \notin down
  /\ net' = FALSE /\ phase' = "p2p" /\ running' = FALSE
  /\ UNCHANGED <<queue, wpc, cxt, syncing, lockVars, pc, active, num, prom, web, down, history>>

\* application::exec: run() returns when its handler does, shutdown() stops
\* the plugins one by one; the chain plugin, which the others require, last
ShutdownP2P ==
  /\ phase = "quit" /\ pc[Main] = "idle" /\ ~active[Main] /\ "p2p" \notin down
  /\ net' = FALSE /\ phase' = "p2p"
  /\ UNCHANGED <<running, queue, wpc, cxt, syncing, lockVars, pc, active, num, prom, web, down, history>>

ShutdownWeb ==
  /\ phase = "quit" /\ pc[Main] = "idle" /\ ~active[Main] /\ "web" \notin down
  /\ web' = FALSE /\ phase' = "web"
  /\ UNCHANGED <<running, queue, wpc, cxt, syncing, lockVars, pc, active, num, prom, net, down, history>>

\* node->close() and quit() run on the p2p thread; the pool is joined
ThreadsStopped ==
  /\ phase \in {"p2p", "web"}
  /\ \A t \in Threads : PluginOf(t) = phase => pc[t] = "idle" /\ ~active[t]
  /\ down' = down \cup {phase} /\ phase' = "quit"
  /\ UNCHANGED <<running, queue, wpc, cxt, syncing, lockVars, pc, active, num, prom, net, web, history>>

\* stop_write_processing
ShutdownChain ==
  /\ phase = "quit" /\ pc[Main] = "idle" /\ ~active[Main] /\ down = {"p2p", "web"}
  /\ running' = FALSE /\ phase' = "chain"
  /\ UNCHANGED <<queue, wpc, cxt, syncing, lockVars, pc, active, num, prom, net, web, down, history>>

\* join(), then db.close()
CloseDatabase ==
  /\ phase = "chain" /\ wpc = "exited"
  /\ down' = down \cup {"chain"} /\ phase' = "exited"
  /\ UNCHANGED <<running, queue, wpc, cxt, syncing, lockVars, pc, active, num, prom, net, web, history>>

-----------------------------------------------------------------------------
ThreadStep(t) == \/ Enter(t) \/ Leave(t) \/ Accept(t) \/ Return(t)
                 \/ FetchReadLock(t) \/ ReadLock(t) \/ ReadTimeout(t) \/ ReadUnlock(t)

Writer == \/ PopFirst \/ WriterExit \/ Claim \/ Acquire \/ AcquireTimeout \/ ConstructLock
          \/ Execute \/ Answer \/ PopNext \/ Release

Shutdown == ShutdownP2P \/ ShutdownWeb \/ ThreadsStopped \/ ShutdownChain \/ CloseDatabase

Next == (\E t \in Threads : ThreadStep(t)) \/ Writer \/ Signal \/ Shutdown

\* Every thread runs: the write thread, the main thread once it is told to
\* stop, and a handler that has begun (it need not begin another)
Fairness == /\ WF_vars(Writer) /\ WF_vars(Shutdown)
            /\ \A t \in Threads : WF_vars(Leave(t) \/ Accept(t) \/ Return(t) \/ ReadLock(t) \/ ReadTimeout(t) \/ ReadUnlock(t))

Spec == Init /\ [][Next]_vars /\ Fairness

-----------------------------------------------------------------------------
(* Properties                                                              *)

TypeOK ==
  /\ running \in BOOLEAN /\ syncing \in BOOLEAN /\ net \in BOOLEAN /\ web \in BOOLEAN
  /\ queue \in Seq(Threads) /\ cxt \in Threads \cup {None}
  /\ wpc \in {"outer", "fetch", "lock", "construct", "inner", "answer", "next", "exited"}
  /\ wlock \in Slots /\ cur \in 0 .. LockNums - 1
  /\ slots \in [Slots -> [excl : BOOLEAN, shared : Int]]
  /\ pc \in [Threads -> {"idle", "fetched", "reading", "waiting"}]
  /\ active \in [Threads -> BOOLEAN] /\ prom \in [Threads -> BOOLEAN]
  /\ num \in [Threads -> 0 .. LockNums - 1]
  /\ phase \in {"up", "quit", "p2p", "web", "chain", "exited"}
  /\ down \subseteq {"p2p", "web", "chain"}
  /\ calls \in Nat /\ reads \in Nat /\ wiped \subseteq Threads

\* The context of t is in the hands of the write thread and not yet answered
InService(t) == \/ wpc \in {"fetch", "lock", "construct", "inner", "answer"} /\ cxt = t
                \/ t \in Range(queue)

\* "It is the caller's responsibility to ensure the pointer to the write
\* context remains valid until the contained promise is complete"
\* (chain_plugin.cpp:240): whatever context the write thread holds or will
\* pop is on the stack of a caller that still waits, and no context is
\* there twice.
ContextsValid ==
  /\ \A t \in Threads : InService(t) => pc[t] = "waiting" /\ ~prom[t]
  /\ IsInjective(queue)
  /\ wpc \in {"fetch", "lock", "construct", "inner", "answer"} => cxt \notin Range(queue)

\* The write thread works on the database beside a reader only if it gave up
\* waiting for that reader's lock, as long as no lock was constructed again
\* under a reader (a reader that comes between the two statements of
\* next_lock, or stays for a whole turn of the ring).
Isolation ==
  wpc \in {"inner", "answer", "next"} /\ wiped = {}
    => \A t \in Threads : pc[t] = "reading" => num[t] # cur

\* Why Isolation holds.  Until a lock is constructed again under a reader, a
\* mutex counts the readers that hold it; from its claim to its release the
\* writer's lock is the current one and lets no reader in; and once acquired
\* it has none.
Counted == wiped = {} => \A s \in Slots : slots[s].shared = Cardinality(ReadersOf(s))
Claimed == wpc \in {"lock", "inner", "answer", "next"} => wlock = SlotOf(cur) /\ slots[wlock].excl
Alone   == wpc \in {"inner", "answer", "next"} /\ wiped = {} => slots[wlock].shared = 0

IInv == TypeOK /\ ContextsValid /\ Counted /\ Claimed /\ Alone

\* A caller is always answered, also when the node is told to stop
CallsReturn == \A t \in Threads : pc[t] = "waiting" ~> pc[t] # "waiting"

\* The node exits once it was told to stop
QuitExits == phase = "quit" ~> phase = "exited"
=============================================================================
