----------------------------- MODULE MCForkWatch -----------------------------
(* The block trees of MCForkChain for ForkWatch. *)
EXTENDS MCForkChain, ForkWatch

\* Where a checkpoint is set no block is broken: only the undo limit can keep
\* one from being applied.
ASSUME TreeIsValid == Checkpoints # {} => \A x \in Blocks : Valid(x)
=============================================================================
