----------------------------- MODULE MCVesting ------------------------------
(***************************************************************************)
(* Three accounts and the null account for Vesting                         *)
(***************************************************************************)
EXTENDS Vesting

MCBalance == [a \in Accounts |-> IF a = 1 THEN 2 ELSE 0]
MCShares  == [a \in Accounts |-> IF a = 1 THEN 4 ELSE IF a = 2 THEN 2 ELSE 0]
MCMixes   == {[kinds |-> {"fund", "withdraw", "route"}, ops |-> 3],
              [kinds |-> {"withdraw", "delegate"}, ops |-> 4],
              [kinds |-> {"vote", "proxy", "decline"}, ops |-> 4],
              [kinds |-> {"vote", "proxy", "fund"}, ops |-> 4],
              [kinds |-> {"vote", "withdraw", "route"}, ops |-> 4]}
=============================================================================
