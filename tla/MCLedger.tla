------------------------------ MODULE MCLedger ------------------------------
(***************************************************************************)
(* Three accounts, the second with SBD, for Ledger                         *)
(***************************************************************************)
EXTENDS Ledger

CONSTANTS a, b, c
MCUsers   == {a, b, c}
MCPrices  == {<<1, 1>>, <<2, 3>>, <<2, 1>>}
MCMixes   == {[kinds |-> {"market", "convert"}, ops |-> 5],
              [kinds |-> {"savings", "convert"}, ops |-> 4],
              [kinds |-> {"escrow"}, ops |-> 5]}
MCFeed    == {<<1, 2>>}
MCBalance == [u \in Accounts |-> IF u = a THEN [F |-> 3, D |-> 0]
                                 ELSE IF u = b THEN [F |-> 0, D |-> 3] ELSE [F |-> 0, D |-> 0]]
=============================================================================
