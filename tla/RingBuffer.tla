----------------------------- MODULE RingBuffer -----------------------------
(***************************************************************************)
(* CRingBuffer<T> (RingBuffer.h): an array of m_length cells with a write  *)
(* pointer m_iPtr and a read pointer m_oPtr.  Every pipe of audio in the   *)
(* gateway is one of these.  A call is one action; the loops over the      *)
(* elements of a call are written as one update of the array.              *)
(***************************************************************************)
EXTENDS Integers, Sequences

CONSTANTS Length,       \* m_length
          Elements,     \* T
          Zero,         \* the element of all-zero bytes memset() leaves
          Chunks,       \* the arrays callers pass to addData()
          Counts        \* the numbers of elements callers ask for

ASSUME RingAssumption ==
  /\ Length \in Nat \ {0}
  /\ Zero \in Elements
  /\ Chunks \subseteq Seq(Elements)
  /\ Counts \subseteq Nat

VARIABLES buffer,       \* m_buffer
          iPtr,         \* m_iPtr, where the next element is written
          oPtr,         \* m_oPtr, where the next element is read
          reply         \* what the last call returned

vars == << buffer, iPtr, oPtr, reply >>

Cells == 0 .. Length - 1

\* freeSpace(): the pointers being equal means that the buffer is empty.
\* The code's last test, len > m_length, is kept as it stands.
FreeSpace ==
  LET len == IF oPtr > iPtr THEN oPtr - iPtr
             ELSE IF iPtr > oPtr THEN Length - (iPtr - oPtr)
             ELSE Length
  IN  IF len > Length THEN 0 ELSE len

DataSize == Length - FreeSpace

\* Variant of Wrap that lets a pointer stand on the end of the array.
WrapLate(p) == IF p > Length THEN p - Length ELSE p

\* A pointer advanced by at most one lap.
Wrap(p) == IF p >= Length THEN p - Length ELSE p

\* How far cell j lies ahead of the write pointer.
Ahead(j) == IF j >= iPtr THEN j - iPtr ELSE j - iPtr + Length

\* The n elements from the read pointer on, as getData() and peek() copy them.
Read(n) == [k \in 1 .. n |-> buffer[Wrap(oPtr + k - 1)]]

Answer(ok, data) == [ok |-> ok, data |-> data]

\* Variant of Cleared that forgets the read pointer.
ClearedButRead ==
  buffer' = [j \in Cells |-> Zero] /\ iPtr' = 0 /\ oPtr' = oPtr

\* clear()
Cleared == buffer' = [j \in Cells |-> Zero] /\ iPtr' = 0 /\ oPtr' = 0

Init ==
  /\ buffer = [j \in Cells |-> Zero]
  /\ iPtr = 0 /\ oPtr = 0
  /\ reply = Answer(TRUE, << >>)

\* Variant of Store that fills the last free cell.
StoreToTheBrim(chunk) ==
  /\ Len(chunk) <= FreeSpace
  /\ buffer' = [j \in Cells |-> IF Ahead(j) < Len(chunk) THEN chunk[Ahead(j) + 1]
                                                         ELSE buffer[j]]
  /\ iPtr' = Wrap(iPtr + Len(chunk))
  /\ reply' = Answer(TRUE, << >>)
  /\ UNCHANGED oPtr

\* addData(), when the chunk is accepted and when it is not.
Store(chunk) ==
  /\ Len(chunk) < FreeSpace
  /\ buffer' = [j \in Cells |-> IF Ahead(j) < Len(chunk) THEN chunk[Ahead(j) + 1]
                                                         ELSE buffer[j]]
  /\ iPtr' = Wrap(iPtr + Len(chunk))
  /\ reply' = Answer(TRUE, << >>)
  /\ UNCHANGED oPtr

Overflow(chunk) ==
  /\ Len(chunk) >= FreeSpace
  /\ Cleared
  /\ reply' = Answer(FALSE, << >>)

AddData(chunk) == Store(chunk) \/ Overflow(chunk)

\* getData(): an underflow leaves everything as it is.
GetData(n) ==
  \/ /\ DataSize >= n
     /\ oPtr' = Wrap(oPtr + n)
     /\ reply' = Answer(TRUE, Read(n))
     /\ UNCHANGED << buffer, iPtr >>
  \/ /\ DataSize < n
     /\ reply' = Answer(FALSE, << >>)
     /\ UNCHANGED << buffer, iPtr, oPtr >>

Peek(n) ==
  /\ reply' = IF DataSize >= n THEN Answer(TRUE, Read(n)) ELSE Answer(FALSE, << >>)
  /\ UNCHANGED << buffer, iPtr, oPtr >>

Clear == Cleared /\ reply' = Answer(TRUE, << >>)

Next ==
  \/ \E chunk \in Chunks : AddData(chunk)
  \/ \E n \in Counts : GetData(n) \/ Peek(n)
  \/ Clear

Spec == Init /\ [][Next]_vars
-----------------------------------------------------------------------------
(***************************************************************************)
(* Properties                                                              *)
(***************************************************************************)
\* The pointers stay inside the array and the cells hold elements.
TypeOK ==
  /\ buffer \in [Cells -> Elements]
  /\ iPtr \in Cells /\ oPtr \in Cells
  /\ reply \in [ok : BOOLEAN, data : Seq(Elements)]

\* Nothing leaves the buffer but what a read returns or a clear throws away.
\* Equal pointers mean an empty buffer, so the guard of addData()
\* (nSamples >= freeSpace(), RingBuffer.h:52) has to keep one cell free: a
\* chunk that filled it would make everything that is held vanish at once.
NothingVanishes ==
  [][ DataSize' < DataSize =>
        \/ reply'.ok /\ Len(reply'.data) = DataSize - DataSize'
        \/ buffer' = [j \in Cells |-> Zero] ]_vars

\* The pointers and the array implement the queue of ByteQueue: what comes
\* out is what went in, in order, whatever the wraps in between.
Contents == [k \in 1 .. DataSize |-> buffer[Wrap(oPtr + k - 1)]]

Abstract == INSTANCE ByteQueue WITH queue <- Contents, reply <- reply

ImplementsQueue == Abstract!QSpec
=============================================================================
