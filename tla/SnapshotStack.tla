---------------------------- MODULE SnapshotStack ----------------------------
(***************************************************************************)
(* What an undo-able object table promises its users, with no regard to    *)
(* how it is stored: a current table and a stack of complete snapshots,    *)
(* one per open session, the oldest first.  UndoIndex implements it with   *)
(* change sets instead of snapshots.                                       *)
(***************************************************************************)
EXTENDS Integers, Sequences

CONSTANT Tables   \* every value the table can have

VARIABLES cur,    \* the current table
          saved   \* the table as it was when each open session started

avars == <<cur, saved>>

AInit == cur \in Tables /\ saved = <<>>

\* The user creates, modifies or removes objects.
AChange == cur' \in Tables /\ UNCHANGED saved

AStart == saved' = Append(saved, cur) /\ UNCHANGED cur

\* Undo brings back exactly the newest snapshot.
AUndo == /\ saved # <<>>
         /\ cur' = saved[Len(saved)]
         /\ saved' = SubSeq(saved, 1, Len(saved) - 1)

\* Squash forgets the newest snapshot: an undo then goes back past it.
ASquash == /\ saved # <<>>
           /\ saved' = SubSeq(saved, 1, Len(saved) - 1)
           /\ UNCHANGED cur

\* Commit forgets the k oldest snapshots.
ACommit == /\ \E k \in 1 .. Len(saved) :
                saved' = SubSeq(saved, k + 1, Len(saved))
           /\ UNCHANGED cur

ANext == AChange \/ AStart \/ AUndo \/ ASquash \/ ACommit

ASpec == AInit /\ [][ANext]_avars
=============================================================================
