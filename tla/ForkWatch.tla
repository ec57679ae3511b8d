------------------------------ MODULE ForkWatch ------------------------------
(***************************************************************************)
(* ForkChain with a history of what the node was given, to say when it can *)
(* be expected to be on the longest chain it knows.  It is not always: a   *)
(* longer fork that leaves the chain below the committed state makes       *)
(* pop_block throw half way, and the node goes on with blocks above its    *)
(* head in the fork database, even after the fork itself was trimmed.      *)
(***************************************************************************)
EXTENDS ForkChain

VARIABLE contested  \* whether, since the process was started, the fork
                    \* database took a block that competes with the
                    \* committed state

Competes(b) == ~ OnChain(Base, b) /\ ~ OnChain(b, Base)

WatchInit == Init /\ contested = FALSE

Watch ==
  contested' = (pc' # "closed" /\ (contested \/ \E b \in index' \ index : Competes(b)))

\* Each step of ForkChain, watched.
WatchNext ==
  \/ \E b \in Blocks : \/ PushDirect(b) /\ Watch
                       \/ PushKept(b) /\ Watch
                       \/ PushSwitch(b) /\ Watch
                       \/ PushThrows(b) /\ Watch
  \/ Pop /\ Watch
  \/ PopThrows /\ Watch
  \/ Popped /\ Watch
  \/ Apply /\ Watch
  \/ ApplyThrows /\ Watch
  \/ AppendBlock /\ Watch
  \/ FlushLog /\ Watch
  \/ Commit /\ Watch
  \/ ReindexBlock /\ Watch
  \/ ReindexThrows /\ Watch
  \/ ReindexDone /\ Watch
  \/ Close /\ Watch
  \/ Crash /\ Watch
  \/ Open /\ Watch
  \/ OpenThrows /\ Watch
  \/ Reindex /\ Watch

WatchSpec     == WatchInit /\ [][WatchNext]_<<vars, contested>>

\* Nothing but a crash stops the write thread in the middle of a push.
WatchFairSpec == WatchSpec /\ WF_vars(Work)

\* The node follows the longest chain it knows: as long as it has not been
\* given a block that competes with its committed state, it is at the highest
\* block of the fork database, and that is the fork database's head.
FollowsLongest ==
  (pc = "idle" /\ head # <<>> /\ ~ contested)
    => /\ \A b \in index : Num(b) <= Num(head)
       /\ fhead = head

-----------------------------------------------------------------------------
(***************************************************************************)
(* The inductive invariant behind FollowsLongest, for blocks that can all  *)
(* be applied: what is being applied is the highest block.                 *)
(***************************************************************************)
AllGood    == \A b \in Blocks : Good(b)
Highest(t) == \A b \in index : Num(b) <= Num(t)

LongInv ==
  (~ contested /\ Running) =>
    /\ pc = "idle" => IF head = <<>> THEN Num(fhead) # 1 ELSE fhead = head /\ Highest(head)
    /\ (pc = "apply" /\ mode = "direct") => fhead = target /\ Highest(target)
    /\ (pc \in {"append", "commit"} /\ mode = "direct") => fhead = head /\ Highest(head)
    /\ (Busy /\ mode # "direct") => pc # "unpop" /\ mode = "switch" /\ Highest(target)
    /\ pc = "pop" => Num(Base) <= fork
    /\ pc \in {"append", "commit"} => fhead = head
=============================================================================
