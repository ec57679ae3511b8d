------------------------- MODULE MCWitnessSchedule --------------------------
(***************************************************************************)
(* Three witnesses and one to come for WitnessSchedule                     *)
(***************************************************************************)
EXTENDS WitnessSchedule

MCVotes == [w \in 1 .. 3 |-> w]
=============================================================================
