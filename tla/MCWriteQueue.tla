---------------------------- MODULE MCWriteQueue ----------------------------
(***************************************************************************)
(* Three threads and a ring of two locks for WriteQueue                    *)
(***************************************************************************)
EXTENDS WriteQueue

CONSTANTS api
MCApi == {api}
=============================================================================
