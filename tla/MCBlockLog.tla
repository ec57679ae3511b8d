----------------------------- MODULE MCBlockLog -----------------------------
(***************************************************************************)
(* Blocks of one and two cells for BlockLog                                *)
(***************************************************************************)
EXTENDS BlockLog

MCSize == [n \in Nums |-> 1 + (n % 2)]
=============================================================================
