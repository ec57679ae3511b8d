--------------------------- MODULE Irreversibility ---------------------------
(***************************************************************************)
(* update_last_irreversible_block as a function of the chain: a block is a *)
(* sequence of headers, the last one its own, and header.wit is the        *)
(* witness who signed.                                                     *)
(***************************************************************************)
EXTENDS Integers, Sequences, FiniteSets

CONSTANTS Witnesses,      \* the scheduled witnesses
          Threshold,      \* IRREVERSIBLE_THRESHOLD, in 1/10000
          MaxWitnesses,   \* MAX_WITNESSES
          StartVoting     \* START_MINER_VOTING_BLOCK

LOCAL MaxOf(S) == CHOOSE x \in S : \A y \in S : x >= y

\* update_signing_witness: the last block of b's chain that w signed.
LastConfirmed(b, w) == MaxOf({0} \cup {n \in 1 .. Len(b) : b[n].wit = w})

\* The position nth_element is asked for, and the value it puts there.
Offset == ((10000 - Threshold) * Cardinality(Witnesses)) \div 10000
NthConfirmed(b) ==
  CHOOSE v \in {LastConfirmed(b, w) : w \in Witnesses} :
    /\ Cardinality({w \in Witnesses : LastConfirmed(b, w) < v}) <= Offset
    /\ Cardinality({w \in Witnesses : LastConfirmed(b, w) <= v}) > Offset

\* Before voting starts a block is irreversible MAX_WITNESSES blocks later.
Candidate(b) ==
  IF Len(b) < StartVoting
  THEN IF Len(b) > MaxWitnesses THEN Len(b) - MaxWitnesses ELSE 0
  ELSE NthConfirmed(b)

\* The number never decreases along a chain.
Lib(b) == MaxOf({0} \cup {Candidate(SubSeq(b, 1, n)) : n \in 1 .. Len(b)})
=============================================================================
