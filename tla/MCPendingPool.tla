---------------------------- MODULE MCPendingPool ----------------------------
(***************************************************************************)
(* Three transactions for PendingPool: u spends what t brings, w competes  *)
(* with t; t and w expire early, u is too big to share a block.            *)
(***************************************************************************)
EXTENDS PendingPool

CONSTANTS t, u, w

MCTx        == {t, u, w}
MCExpiry    == (t :> 2) @@ (u :> 4) @@ (w :> 3)
MCSize      == (t :> 1) @@ (u :> 2) @@ (w :> 1)
MCNeeds     == (t :> {}) @@ (u :> {t}) @@ (w :> {})
MCConflicts == (t :> {w}) @@ (u :> {}) @@ (w :> {t})
=============================================================================
