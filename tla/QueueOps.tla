------------------------------ MODULE QueueOps ------------------------------
(***************************************************************************)
(* The queue of bytes that CRingBuffer stands for, as operators on         *)
(* sequences.  A buffer of m_length cells holds fewer than m_length        *)
(* elements, because equal pointers mean "empty".  A chunk that does not   *)
(* fit does not merely get refused: the whole buffer is cleared with it    *)
(* (RingBuffer.h:52-56).                                                   *)
(***************************************************************************)
EXTENDS Integers, Sequences

CONSTANT Length     \* m_length, the number of cells

\* addData() accepts a chunk of n elements when nSamples < freeSpace().
Fits(q, n) == n < Length - Len(q)

\* Variant of Added that takes as much of the chunk as there is room for.
AddedInPart(q, chunk) ==
  q \o SubSeq(chunk, 1, IF Fits(q, Len(chunk)) THEN Len(chunk) ELSE Length - 1 - Len(q))

\* The queue after addData(): a chunk that does not fit clears it.
Added(q, chunk) == IF Fits(q, Len(chunk)) THEN q \o chunk ELSE << >>

\* getData() and peek() succeed when at least n elements are held.
Holds(q, n) == n <= Len(q)

\* The n oldest elements, and the queue without them.
Oldest(q, n) == SubSeq(q, 1, n)
Without(q, n) == SubSeq(q, n + 1, Len(q))
=============================================================================
