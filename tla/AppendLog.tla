----------------------------- MODULE AppendLog -----------------------------
(***************************************************************************)
(* What the database expects of the block log: a sequence of blocks that   *)
(* grows at its end.  A crash may take back blocks that were not flushed,  *)
(* never others; after a crash the log may turn out unreadable.            *)
(***************************************************************************)
EXTENDS Naturals

VARIABLES len,      \* number of blocks in the log
          durable,  \* number of blocks that no crash can take back
          flushed,  \* number of blocks that the caller was told are durable
          usable    \* whether the log is open

Init == len = 0 /\ durable = 0 /\ flushed = 0 /\ usable = FALSE

Open   == ~usable /\ usable' = TRUE /\ UNCHANGED <<len, durable, flushed>>
Append == usable /\ len' = len + 1 /\ UNCHANGED <<durable, flushed, usable>>

\* A buffer is written to the file, because it is full or flushed
Persist == durable' \in durable .. len /\ UNCHANGED <<len, flushed, usable>>

\* A flush returns when everything is durable
Flush == usable /\ durable = len /\ flushed' = len /\ UNCHANGED <<len, durable, usable>>

Crash == usable /\ usable' = FALSE /\ len' = durable /\ UNCHANGED <<durable, flushed>>

\* An orderly close keeps everything
Close == usable /\ usable' = FALSE /\ durable' = len /\ flushed' = len /\ UNCHANGED len

Next == Open \/ Append \/ Persist \/ Flush \/ Crash \/ Close
Spec == Init /\ [][Next]_<<len, durable, flushed, usable>>
=============================================================================
