----------------------------- MODULE MCForkChain -----------------------------
(***************************************************************************)
(* Small block trees for ForkChain.  A header says who signed, what number *)
(* is irreversible with this block as head, whether applying the block     *)
(* throws, and a tag that tells forks apart.                               *)
(***************************************************************************)
EXTENDS ForkChain

CONSTANTS a, b, c     \* witnesses

Irr == INSTANCE Irreversibility
         WITH Witnesses <- {a, b, c}, Threshold <- 7500, MaxWitnesses <- 3, StartVoting <- 1

H(w, l)    == [wit |-> w, lib |-> l, fate |-> "ok", tag |-> 0]
F(w, l)    == [wit |-> w, lib |-> l, fate |-> "ok", tag |-> 1]
Bad(w, l)  == [wit |-> w, lib |-> l, fate |-> "early", tag |-> 1]
Late(w, l) == [wit |-> w, lib |-> l, fate |-> "late", tag |-> 1]

MCFate == [x \in Blocks |-> x[Len(x)].fate]
MCLib  == [x \in Chains |-> IF x = <<>> THEN 0 ELSE x[Len(x)].lib]

\* The numbers written in the headers are the ones the node computes.
ASSUME LibIsComputed == \A x \in Chains : LibOf[x] = Irr!Lib(x)

\* The hypotheses of the proofs about the block log hold of these trees.
ASSUME TreeIsOrdinary == (Checkpoints = {} /\ ~ Redeliver) => Ordinary

Root     == <<H(a, 0)>>
Main     == Root \o <<H(b, 0), H(c, 1), H(a, 2)>>
Fork     == Root \o <<H(b, 0), F(b, 0), F(c, 1), F(a, 3)>>  \* beats Main at block 5
Minority == Root \o <<F(a, 0), F(b, 0), F(a, 0), F(b, 0)>>  \* competes with block 2

Side     == Root \o <<H(b, 0), H(c, 1), F(b, 1), F(b, 1)>> \* leaves Main at block 4

Tree(leaves) == UNION {{SubSeq(l, 1, n) : n \in 1 .. Len(l)} : l \in leaves}

\* Only blocks that can be applied.  With an undo limit of 4 the fourth and
\* fifth block of the longest branch exceed the limit, and pass because the
\* operator has fixed the fifth.
Long        == Fork \o <<F(b, 4), F(c, 5)>>
ValidTree   == Tree({Main, Long, Minority, Side})
ValidPoints == {Fork}

\* Blocks that cannot be applied: on top of the chain, in the middle and at
\* the end of a fork, above the blocks of a longer fork that become
\* irreversible while the node switches to it, and one that throws after it
\* has announced the second block, which Minority can still replace.  With an
\* undo limit of 5, Fork stays just below the limit and Minority would exceed
\* it.
BadTree == Tree({ Main \o <<F(a, 2)>>,
                  Root \o <<H(b, 0), Bad(c, 1), F(a, 2)>>,
                  SubSeq(Main, 1, 3) \o <<Late(a, 2)>>,
                  SubSeq(Fork, 1, 4) \o <<Bad(a, 3)>>,
                  Fork \o <<Bad(b, 4)>>,
                  Minority })
=============================================================================
