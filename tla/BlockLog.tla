------------------------------ MODULE BlockLog ------------------------------
(***************************************************************************)
(* The two files of the block log.  The main file holds each block         *)
(* followed by the position at which it starts; the index file holds the   *)
(* positions alone.  Both are written through buffers of their own, so a   *)
(* crash leaves any beginning of the one and any beginning of the other.   *)
(* Blocks are known by their number; which block is irreversible, and so   *)
(* appended, is decided in ForkChain.  A file is a sequence of cells, a    *)
(* position the number of cells before it.                                 *)
(***************************************************************************)
EXTENDS Integers, Sequences, SequencesExt, FiniteSets

CONSTANTS MaxBlock,  \* bound: blocks
          Size       \* Size[n]: cells of block n

Nums == 1 .. MaxBlock

ASSUME BlockLogAssumption ==
  /\ MaxBlock \in Nat /\ Size \in [Nums -> Nat \ {0}]

VARIABLES
  data, index,   \* the files
  dbuf, ibuf,    \* what block_stream and index_stream hold back
  dwrite, iwrite,\* block_write, index_write
  head,          \* the number of head, 0 if none
  status,        \* "closed", "open", "flushing" (between the two flushes),
                 \* "finding" (index flushed for a read, blocks not yet),
                 \* "failed": open() has thrown
  flushed        \* history: blocks in the log when it was last flushed

vars == <<data, index, dbuf, ibuf, dwrite, iwrite, head, status, flushed>>

\* The cells append() writes for block n at position p
Cells(n, p) == [i \in 1 .. Size[n] |-> <<"block", n, i>>] \o << <<"pos", p, 1>> >>

Init == /\ data = <<>> /\ index = <<>>
        /\ dbuf = <<>> /\ ibuf = <<>> /\ dwrite = FALSE /\ iwrite = FALSE
        /\ head = 0 /\ status = "closed" /\ flushed = 0

-----------------------------------------------------------------------------
(* Reading the files                                                       *)

IsPos(c) == c[1] = "pos"

\* fc::raw::unpack of a block at position p: 0 where no whole block starts
BlockAt(file, p) ==
  IF p \in 0 .. Len(file) - 1 /\ file[p + 1][1] = "block" /\ file[p + 1][3] = 1
     /\ p + Size[file[p + 1][2]] <= Len(file)
    THEN file[p + 1][2] ELSE 0

\* read_head: the last cell is taken for a position
HeadOf(file) == IF file # <<>> /\ IsPos(Last(file)) THEN BlockAt(file, Last(file)[2]) ELSE 0

\* read_block_by_num: the number of the block it returns, 0 if it throws
Lookup(ix, file, n) == IF n \in 1 .. Len(ix) THEN BlockAt(file, ix[n]) ELSE 0

\* construct_index: while( pos < end_pos ) a block is skipped and the
\* position behind it copied
Trailers(file) ==
  LET ends == {i \in 1 .. Len(file) : IsPos(file[i])}
      nth(k) == CHOOSE i \in ends : Cardinality({j \in ends : j <= i}) = k
  IN  [k \in 1 .. Cardinality(ends) |-> file[nth(k)][2]]

Rebuilt(file) ==
  LET pos == Trailers(file)
      end == Last(file)[2]
      n == IF 0 < end THEN SelectInSeq(pos, LAMBDA p : p >= end) ELSE 0
  IN  SubSeq(pos, 1, n)

-----------------------------------------------------------------------------
(* Operations                                                              *)

\* the positions are taken to agree when the index is at least as long
IndexAgrees_NotAhead == index # <<>> /\ Last(data)[2] <= Last(index)

\* open(): the last position of the one file is that of the other
IndexAgrees == index # <<>> /\ Last(data)[2] = Last(index)

\* open() of a log with blocks; read_head leaves block_stream reading
OpenLog ==
  /\ status = "closed" /\ HeadOf(data) # 0
  /\ head' = HeadOf(data) /\ status' = "open" /\ dwrite' = FALSE
  /\ \/ IndexAgrees /\ iwrite' = FALSE /\ UNCHANGED <<index, ibuf>>
     \/ ~IndexAgrees /\ iwrite' = TRUE /\ index' = <<>> /\ ibuf' = Rebuilt(data)
  /\ UNCHANGED <<data, dbuf, flushed>>

\* open() of an empty log removes the index
OpenEmpty ==
  /\ status = "closed" /\ data = <<>>
  /\ index' = <<>> /\ dwrite' = TRUE /\ iwrite' = TRUE /\ status' = "open" /\ head' = 0
  /\ UNCHANGED <<data, dbuf, ibuf, flushed>>

\* The file ends within a block: read_head follows what is no position
OpenThrows ==
  /\ status = "closed" /\ data # <<>> /\ HeadOf(data) = 0
  /\ status' = "failed"
  /\ UNCHANGED <<data, index, dbuf, ibuf, dwrite, iwrite, head, flushed>>

\* append() throws where the index does not end before the block's entry
IndexFits(n) == Len(index \o ibuf) = n - 1

\* the position is that of the file, not of the stream
AppendBlock_StalePosition ==
  /\ status = "open" /\ head < MaxBlock /\ IndexFits(head + 1)
  /\ dbuf' = dbuf \o Cells(head + 1, Len(data)) /\ ibuf' = ibuf \o <<Len(data)>>
  /\ dwrite' = TRUE /\ iwrite' = TRUE /\ head' = head + 1
  /\ UNCHANGED <<data, index, status, flushed>>

\* append() of the block after the head; a stream that was read from is
\* opened for writing again
AppendBlock ==
  /\ status = "open" /\ head < MaxBlock /\ IndexFits(head + 1)
  /\ LET pos == Len(data \o dbuf) IN dbuf' = dbuf \o Cells(head + 1, pos) /\ ibuf' = ibuf \o <<pos>>
  /\ dwrite' = TRUE /\ iwrite' = TRUE /\ head' = head + 1
  /\ UNCHANGED <<data, index, status, flushed>>

\* A buffer that is full is written to its file, as far as it goes
SpillData ==
  /\ status = "open"
  /\ \E k \in 1 .. Len(dbuf) : /\ data' = data \o SubSeq(dbuf, 1, k)
                               /\ dbuf' = SubSeq(dbuf, k + 1, Len(dbuf))
  /\ UNCHANGED <<index, ibuf, dwrite, iwrite, head, status, flushed>>

SpillIndex ==
  /\ status = "open"
  /\ \E k \in 1 .. Len(ibuf) : /\ index' = index \o SubSeq(ibuf, 1, k)
                               /\ ibuf' = SubSeq(ibuf, k + 1, Len(ibuf))
  /\ UNCHANGED <<data, dbuf, dwrite, iwrite, head, status, flushed>>

\* flush(): block_stream, then index_stream
FlushData ==
  /\ status = "open"
  /\ data' = data \o dbuf /\ dbuf' = <<>> /\ status' = "flushing"
  /\ UNCHANGED <<index, ibuf, dwrite, iwrite, head, flushed>>

FlushIndex ==
  /\ status = "flushing"
  /\ index' = index \o ibuf /\ ibuf' = <<>> /\ status' = "open" /\ flushed' = head
  /\ UNCHANGED <<data, dbuf, dwrite, iwrite, head>>

\* get_block_pos: check_index_read closes the index stream, which flushes it;
\* read_block then does the same to the main file
FindBlock ==
  /\ status = "open" /\ iwrite
  /\ index' = index \o ibuf /\ ibuf' = <<>> /\ iwrite' = FALSE /\ status' = "finding"
  /\ UNCHANGED <<data, dbuf, dwrite, head, flushed>>

ReadBlock ==
  /\ status = "finding"
  /\ IF dwrite THEN data' = data \o dbuf /\ dbuf' = <<>> ELSE UNCHANGED <<data, dbuf>>
  /\ dwrite' = FALSE /\ status' = "open"
  /\ UNCHANGED <<index, ibuf, iwrite, head, flushed>>

\* close(): both streams are destroyed
Close ==
  /\ status = "open"
  /\ data' = data \o dbuf /\ index' = index \o ibuf /\ dbuf' = <<>> /\ ibuf' = <<>>
  /\ status' = "closed" /\ head' = 0 /\ flushed' = head
  /\ UNCHANGED <<dwrite, iwrite>>

Crash ==
  /\ status \in {"open", "flushing", "finding"}
  /\ dbuf' = <<>> /\ ibuf' = <<>> /\ status' = "closed" /\ head' = 0
  /\ UNCHANGED <<data, index, dwrite, iwrite, flushed>>

\* "The index file can be reconstructed": someone has removed it
RemoveIndex ==
  /\ status = "closed" /\ index # <<>> /\ index' = <<>>
  /\ UNCHANGED <<data, dbuf, ibuf, dwrite, iwrite, head, status, flushed>>

Next == \/ OpenLog \/ OpenEmpty \/ OpenThrows \/ AppendBlock \/ SpillData \/ SpillIndex
        \/ FlushData \/ FlushIndex \/ FindBlock \/ ReadBlock \/ Close \/ Crash \/ RemoveIndex

Spec == Init /\ [][Next]_vars

-----------------------------------------------------------------------------
(* Properties                                                              *)

Cell == {"block", "pos"} \X Nat \X Nat

TypeOK ==
  /\ data \in Seq(Cell) /\ dbuf \in Seq(Cell) /\ index \in Seq(Nat) /\ ibuf \in Seq(Nat)
  /\ dwrite \in BOOLEAN /\ iwrite \in BOOLEAN /\ head \in 0 .. MaxBlock /\ flushed \in Nat
  /\ status \in {"closed", "open", "flushing", "finding", "failed"}

Up == status \in {"open", "flushing", "finding"}

\* The block log is what its index says: every block up to the head is found
\* under its number, and the index ends where append() expects it
IndexMatches == /\ \A n \in 1 .. head : Lookup(index \o ibuf, data \o dbuf, n) = n
                /\ IndexFits(head + 1)

\* Whatever crash, removal of the index or pending buffer came before, the
\* index matches while the log is open, but for a log of a single block.
IndexExact == Up /\ head # 1 => IndexMatches

\* Why the index is exact.  Where block n starts depends on the blocks before
\* it alone, so each file with its buffer is a beginning of one fixed layout,
\* whatever crashes took away; the stream ends behind the head, and so does
\* the index (but for a log of a single block); buffers are empty while
\* the log is down, and the blocks' one between the two flushes.
Start[n \in 1 .. MaxBlock + 1] == IF n = 1 THEN 0 ELSE Start[n - 1] + Size[n - 1] + 1

Laid(file) ==
  /\ Len(file) <= Start[MaxBlock + 1]
  /\ \A n \in Nums : \A i \in 1 .. Size[n] : Start[n] + i <= Len(file) => file[Start[n] + i] = <<"block", n, i>>
  /\ \A n \in Nums : Start[n + 1] <= Len(file) => file[Start[n + 1]] = <<"pos", Start[n], 1>>

Entries(ix) == Len(ix) <= MaxBlock /\ \A n \in 1 .. Len(ix) : ix[n] = Start[n]

IInv ==
  /\ TypeOK
  /\ Laid(data \o dbuf) /\ Entries(index \o ibuf)
  /\ Up => Len(data \o dbuf) = Start[head + 1] /\ (head # 1 => Len(index \o ibuf) = head)
  /\ ~Up => head = 0 /\ dbuf = <<>> /\ ibuf = <<>>
  /\ status = "flushing" => dbuf = <<>>

\* The whole blocks of the main file
Blocks(file) == Len(Trailers(file))

A == INSTANCE AppendLog WITH
       len <- IF Up THEN head ELSE Blocks(data), durable <- Blocks(data), flushed <- flushed, usable <- Up

\* The two files implement the append only log of block_log.hpp
ImplementsLog == A!Spec
=============================================================================
