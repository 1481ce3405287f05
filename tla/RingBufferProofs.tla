-------------------------- MODULE RingBufferProofs --------------------------
(***************************************************************************)
(* For every array length, element type and pattern of calls, CRingBuffer  *)
(* keeps its pointers in the array, loses nothing that it accepted, and     *)
(* implements the queue of ByteQueue.                                      *)
(***************************************************************************)
EXTENDS RingBuffer, SequenceTheorems, TLAPS

\* A pointer moved forward by less than a lap stays in the array.
LEMMA WrapInCells ==
  ASSUME NEW p \in Cells, NEW k \in 0 .. Length - 1
  PROVE  Wrap(p + k) \in Cells
BY RingAssumption DEF Cells, Wrap

\* The arithmetic of the two pointers.
LEMMA SizeRange ==
  ASSUME TypeOK
  PROVE  /\ FreeSpace \in 1 .. Length
         /\ DataSize \in 0 .. Length - 1
         /\ FreeSpace = Length - DataSize
         /\ iPtr = Wrap(oPtr + DataSize)
         /\ oPtr = iPtr <=> DataSize = 0
BY RingAssumption DEF TypeOK, FreeSpace, DataSize, Cells, Wrap

\* The elements a call copies out are a sequence of elements.
LEMMA ReadIsSeq ==
  ASSUME TypeOK, NEW n \in Nat, n <= DataSize
  PROVE  /\ Read(n) \in Seq(Elements)
         /\ Len(Read(n)) = n
         /\ \A k \in 1 .. n : Read(n)[k] = buffer[Wrap(oPtr + k - 1)]
<1>1. \A k \in 1 .. n : buffer[Wrap(oPtr + k - 1)] \in Elements
  <2> TAKE k \in 1 .. n
  <2>1. k - 1 \in 0 .. Length - 1
    BY SizeRange, RingAssumption
  <2>2. Wrap(oPtr + (k - 1)) \in Cells
    BY <2>1, WrapInCells DEF TypeOK
  <2>3. oPtr + (k - 1) = oPtr + k - 1
    BY RingAssumption DEF TypeOK, Cells
  <2> QED BY <2>2, <2>3 DEF TypeOK
<1>2. Read(n) \in [1 .. n -> Elements]
  BY <1>1 DEF Read
<1> QED BY <1>2, LenProperties DEF Read

\* The queue the pointers stand for.
LEMMA ContentsIsSeq ==
  ASSUME TypeOK
  PROVE  /\ Contents = Read(DataSize)
         /\ Contents \in Seq(Elements)
         /\ Len(Contents) = DataSize
         /\ \A k \in 1 .. DataSize : Contents[k] = buffer[Wrap(oPtr + k - 1)]
BY SizeRange, ReadIsSeq, RingAssumption DEF Contents, Read

LEMMA InitType == Init => TypeOK
<1>1. << >> \in Seq(Elements)
  BY EmptySeq
<1> QED BY <1>1, RingAssumption DEF Init, TypeOK, Cells, Answer

LEMMA StoreType ==
  ASSUME TypeOK, NEW chunk \in Chunks, Store(chunk)
  PROVE  TypeOK'
<1>1. chunk \in Seq(Elements) /\ Len(chunk) \in Nat
      /\ \A i \in 1 .. Len(chunk) : chunk[i] \in Elements
  BY RingAssumption, LenProperties, ElementOfSeq
<1>2. Len(chunk) \in 0 .. Length - 1
  BY <1>1, SizeRange, RingAssumption DEF Store
<1>3. iPtr' \in Cells
  BY <1>2, WrapInCells DEF Store, TypeOK
<1>4. ASSUME NEW j \in Cells
      PROVE  (IF Ahead(j) < Len(chunk) THEN chunk[Ahead(j) + 1] ELSE buffer[j]) \in Elements
  <2>1. Ahead(j) \in Nat
    BY RingAssumption DEF Ahead, TypeOK, Cells
  <2> QED BY <1>1, <2>1 DEF TypeOK
<1>5. buffer' \in [Cells -> Elements]
  BY <1>4 DEF Store
<1>6. << >> \in Seq(Elements)
  BY EmptySeq
<1> QED BY <1>3, <1>5, <1>6 DEF Store, TypeOK, Answer

LEMMA NextType == TypeOK /\ [Next]_vars => TypeOK'
<1> SUFFICES ASSUME TypeOK, [Next]_vars PROVE TypeOK'
  OBVIOUS
<1>1. << >> \in Seq(Elements)
  BY EmptySeq
<1>2. ASSUME NEW chunk \in Chunks, AddData(chunk) PROVE TypeOK'
  <2>1. CASE Store(chunk)
    BY <2>1, StoreType
  <2>2. CASE Overflow(chunk)
    BY <2>2, <1>1, RingAssumption DEF Overflow, Cleared, TypeOK, Cells, Answer
  <2> QED BY <1>2, <2>1, <2>2 DEF AddData
<1>3. ASSUME NEW n \in Counts, GetData(n) PROVE TypeOK'
  <2>1. CASE DataSize >= n /\ oPtr' = Wrap(oPtr + n) /\ reply' = Answer(TRUE, Read(n))
             /\ UNCHANGED << buffer, iPtr >>
    <3>1. n \in 0 .. Length - 1 /\ n \in Nat /\ n <= DataSize
      BY <2>1, SizeRange, RingAssumption
    <3>2. oPtr' \in Cells
      BY <2>1, <3>1, WrapInCells DEF TypeOK
    <3>3. Read(n) \in Seq(Elements)
      BY <3>1, ReadIsSeq
    <3> QED BY <2>1, <3>2, <3>3 DEF TypeOK, Answer, Cells
  <2>2. CASE reply' = Answer(FALSE, << >>) /\ UNCHANGED << buffer, iPtr, oPtr >>
    BY <2>2, <1>1 DEF TypeOK, Answer, Cells
  <2> QED BY <1>3, <2>1, <2>2 DEF GetData
<1>4. ASSUME NEW n \in Counts, Peek(n) PROVE TypeOK'
  <2>1. n \in Nat
    BY RingAssumption
  <2>2. DataSize >= n => Read(n) \in Seq(Elements)
    BY <2>1, SizeRange, ReadIsSeq, RingAssumption
  <2> QED BY <1>1, <1>4, <2>2 DEF Peek, TypeOK, Answer, Cells
<1>5. CASE Clear
  BY <1>5, <1>1, RingAssumption DEF Clear, Cleared, TypeOK, Cells, Answer
<1>6. CASE UNCHANGED vars
  BY <1>6 DEF vars, TypeOK, Cells
<1> QED BY <1>2, <1>3, <1>4, <1>5, <1>6 DEF Next

\* The pointers of CRingBuffer never leave the array.
THEOREM TypeCorrect == Spec => []TypeOK
BY InitType, NextType, PTL DEF Spec

\* What the two pointers say after addData() took n more elements.
LEMMA StoreSize ==
  ASSUME TypeOK, NEW chunk \in Chunks, Store(chunk), Len(chunk) \in Nat
  PROVE  DataSize' = DataSize + Len(chunk)
<1> DEFINE n == Len(chunk)
<1>1. n \in Nat /\ n < FreeSpace /\ iPtr' = Wrap(iPtr + n) /\ oPtr' = oPtr
  BY DEF Store
<1>2. iPtr \in 0 .. Length - 1 /\ oPtr \in 0 .. Length - 1 /\ Length \in Nat
  BY RingAssumption DEF TypeOK, Cells
<1> HIDE DEF n
<1>3. DataSize' = DataSize + n
  BY <1>1, <1>2 DEF DataSize, FreeSpace, Wrap
<1> QED BY <1>3 DEF n

\* The cell k places after the read pointer, seen from the write pointer: a
\* cell that is held lies beyond the free ones.
LEMMA AheadOfCell ==
  ASSUME TypeOK, NEW k \in 1 .. Length
  PROVE  Ahead(Wrap(oPtr + k - 1)) = IF k <= DataSize THEN FreeSpace + k - 1
                                                      ELSE k - 1 - DataSize
BY RingAssumption DEF TypeOK, DataSize, FreeSpace, Cells, Wrap, Ahead

\* An accepted chunk goes to the end of the queue.
LEMMA StoreAppends ==
  ASSUME TypeOK, TypeOK', NEW chunk \in Chunks, Store(chunk)
  PROVE  Contents' = Contents \o chunk /\ Abstract!Fits(Contents, Len(chunk))
<1>1. chunk \in Seq(Elements) /\ Len(chunk) \in Nat
  BY RingAssumption, LenProperties
<1>2. DataSize' = DataSize + Len(chunk)
  BY <1>1, StoreSize
<1>3. Contents \in Seq(Elements) /\ Len(Contents) = DataSize
      /\ \A k \in 1 .. DataSize : Contents[k] = buffer[Wrap(oPtr + k - 1)]
  BY ContentsIsSeq
<1>4. DataSize \in 0 .. Length - 1 /\ DataSize' \in 0 .. Length - 1
      /\ FreeSpace = Length - DataSize
  BY <1>1, <1>2, SizeRange, RingAssumption DEF Store
<1>5. Contents' = [k \in 1 .. DataSize' |-> buffer'[Wrap(oPtr + k - 1)]]
  BY DEF Contents, Store, Wrap
<1>6. ASSUME NEW k \in 1 .. DataSize'
      PROVE  buffer'[Wrap(oPtr + k - 1)] = IF k <= DataSize THEN Contents[k]
                                                           ELSE chunk[k - DataSize]
  <2>1. k \in 1 .. Length /\ k - 1 \in 0 .. Length - 1
    BY <1>4, RingAssumption
  <2>2. Wrap(oPtr + k - 1) \in Cells
    <3>1. Wrap(oPtr + (k - 1)) \in Cells
      BY <2>1, WrapInCells DEF TypeOK
    <3> QED BY <2>1, <3>1, RingAssumption DEF TypeOK, Cells, Wrap
  <2>3. Ahead(Wrap(oPtr + k - 1)) = IF k <= DataSize THEN FreeSpace + k - 1
                                                     ELSE k - 1 - DataSize
    BY <2>1, AheadOfCell
  <2>4. CASE k <= DataSize
    <3>1. ~(Ahead(Wrap(oPtr + k - 1)) < Len(chunk))
      BY <1>1, <1>4, <2>1, <2>3, <2>4, RingAssumption DEF Store
    <3> QED BY <1>3, <2>1, <2>2, <2>4, <3>1 DEF Store
  <2>5. CASE ~(k <= DataSize)
    <3>1. Ahead(Wrap(oPtr + k - 1)) < Len(chunk)
          /\ Ahead(Wrap(oPtr + k - 1)) + 1 = k - DataSize
      BY <1>1, <1>2, <1>4, <2>1, <2>3, <2>5, RingAssumption
    <3> QED BY <2>2, <2>5, <3>1 DEF Store
  <2> QED BY <2>4, <2>5
<1>7. Contents \o chunk \in Seq(Elements)
      /\ Len(Contents \o chunk) = DataSize'
      /\ \A k \in 1 .. DataSize' : (Contents \o chunk)[k] =
             IF k <= DataSize THEN Contents[k] ELSE chunk[k - DataSize]
  BY <1>1, <1>2, <1>3, ConcatProperties
<1>8. Contents' = Contents \o chunk
  <2>1. Contents \o chunk = [k \in 1 .. DataSize' |-> (Contents \o chunk)[k]]
    BY <1>7, LenProperties
  <2> QED BY <1>5, <1>6, <1>7, <2>1
<1>9. Len(chunk) < Length - Len(Contents)
  BY <1>3, <1>4 DEF Store
<1> QED BY <1>8, <1>9 DEF Abstract!Fits

\* An empty pair of pointers stands for the empty queue.
LEMMA EmptyContents ==
  /\ iPtr = 0 /\ oPtr = 0 => Contents = << >>
  /\ iPtr' = 0 /\ oPtr' = 0 => Contents' = << >>
BY RingAssumption, EmptySeq DEF Contents, DataSize, FreeSpace

\* What the reader takes is the front of the queue, and the rest stays.
LEMMA ReadIsOldest ==
  ASSUME TypeOK, NEW n \in Nat, n <= DataSize
  PROVE  Read(n) = Abstract!Oldest(Contents, n)
<1>1. Contents \in Seq(Elements) /\ Len(Contents) = DataSize
      /\ \A k \in 1 .. DataSize : Contents[k] = buffer[Wrap(oPtr + k - 1)]
  BY ContentsIsSeq
<1>2. DataSize \in Nat
  BY SizeRange, RingAssumption
<1>3. SubSeq(Contents, 1, n) = [k \in 1 .. n |-> Contents[k]]
  BY <1>1, <1>2
<1>4. \A k \in 1 .. n : Contents[k] = buffer[Wrap(oPtr + k - 1)]
  BY <1>1, <1>2
<1> QED BY <1>3, <1>4 DEF Read, Abstract!Oldest

LEMMA TakeLeavesRest ==
  ASSUME TypeOK, TypeOK', NEW n \in Nat, n <= DataSize,
         oPtr' = Wrap(oPtr + n), UNCHANGED << buffer, iPtr >>
  PROVE  Contents' = Abstract!Without(Contents, n)
<1>1. Contents \in Seq(Elements) /\ Len(Contents) = DataSize
      /\ \A k \in 1 .. DataSize : Contents[k] = buffer[Wrap(oPtr + k - 1)]
  BY ContentsIsSeq
<1>2. DataSize \in 0 .. Length - 1 /\ Length \in Nat
  BY SizeRange, RingAssumption
<1>3. DataSize' = DataSize - n
  BY <1>2 DEF TypeOK, DataSize, FreeSpace, Cells, Wrap
<1>4. Contents' = [k \in 1 .. DataSize - n |-> buffer[Wrap(oPtr' + k - 1)]]
  BY <1>3 DEF Contents, Wrap
<1>5. \A k \in 1 .. DataSize - n : Wrap(oPtr' + k - 1) = Wrap(oPtr + (k + n) - 1)
  BY <1>2 DEF TypeOK, Cells, Wrap
<1>6. SubSeq(Contents, n + 1, DataSize) = [k \in 1 .. DataSize - n |-> Contents[k + n]]
  BY <1>1, <1>2
<1>7. \A k \in 1 .. DataSize - n : Contents[k + n] = buffer[Wrap(oPtr + (k + n) - 1)]
  BY <1>1, <1>2
<1> QED BY <1>1, <1>4, <1>5, <1>6, <1>7 DEF Abstract!Without

\* Whatever the callers do, an element of the ring buffer leaves it by a read
\* or a clear: no chunk that addData() accepts closes the circle of pointers.
THEOREM NothingVanishesHolds == Spec => NothingVanishes
<1>1. TypeOK /\ TypeOK' /\ [Next]_vars =>
        [ DataSize' < DataSize =>
            \/ reply'.ok /\ Len(reply'.data) = DataSize - DataSize'
            \/ buffer' = [j \in Cells |-> Zero] ]_vars
  <2> SUFFICES ASSUME TypeOK, Next, DataSize' < DataSize
               PROVE  \/ reply'.ok /\ Len(reply'.data) = DataSize - DataSize'
                      \/ buffer' = [j \in Cells |-> Zero]
    BY DEF vars, DataSize, FreeSpace
  <2>1. DataSize \in 0 .. Length - 1 /\ Length \in Nat
    BY SizeRange, RingAssumption
  <2>2. ASSUME NEW chunk \in Chunks, Store(chunk) PROVE FALSE
    <3>1. Len(chunk) \in Nat
      BY RingAssumption, LenProperties
    <3>2. DataSize' = DataSize + Len(chunk)
      BY <2>2, <3>1, StoreSize
    <3> QED BY <2>1, <3>1, <3>2
  <2>3. ASSUME NEW chunk \in Chunks, Overflow(chunk)
        PROVE  buffer' = [j \in Cells |-> Zero]
    BY <2>3 DEF Overflow, Cleared
  <2>4. UNCHANGED << buffer, iPtr, oPtr >> => FALSE
    BY <2>1 DEF DataSize, FreeSpace
  <2>5. ASSUME NEW n \in Counts, GetData(n)
        PROVE  reply'.ok /\ Len(reply'.data) = DataSize - DataSize'
    <3>1. n \in Nat
      BY RingAssumption
    <3>2. DataSize >= n /\ oPtr' = Wrap(oPtr + n) /\ reply' = Answer(TRUE, Read(n))
          /\ UNCHANGED << buffer, iPtr >>
      BY <2>4, <2>5 DEF GetData
    <3>3. Len(Read(n)) = n
      BY <2>1, <3>1, <3>2, ReadIsSeq
    <3>4. DataSize' = DataSize - n
      BY <2>1, <3>1, <3>2 DEF TypeOK, DataSize, FreeSpace, Cells, Wrap
    <3> QED BY <2>1, <3>1, <3>2, <3>3, <3>4 DEF Answer
  <2>6. ASSUME NEW n \in Counts, Peek(n) PROVE FALSE
    BY <2>4, <2>6 DEF Peek
  <2>7. CASE Clear
    BY <2>7 DEF Clear, Cleared
  <2> QED BY <2>2, <2>3, <2>5, <2>6, <2>7 DEF Next, AddData
<1> QED BY <1>1, TypeCorrect, PTL DEF Spec, NothingVanishes

\* CRingBuffer implements the byte queue: every call on the pointers and the
\* array is the call of the same name on the queue, with the same answer.
THEOREM Refinement == Spec => ImplementsQueue
<1>1. Init => Abstract!QInit
  BY EmptyContents DEF Init, Answer, Abstract!QInit, Abstract!Answer
<1>2. TypeOK /\ TypeOK' /\ [Next]_vars => [Abstract!QNext]_(Abstract!queueVars)
  <2> SUFFICES ASSUME TypeOK, TypeOK', [Next]_vars
               PROVE  Abstract!QNext \/ UNCHANGED Abstract!queueVars
    OBVIOUS
  <2> USE DEF Answer, Abstract!Answer
  <2>1. Len(Contents) = DataSize /\ DataSize \in 0 .. Length - 1
        /\ FreeSpace = Length - DataSize /\ Length \in Nat
    BY ContentsIsSeq, SizeRange, RingAssumption
  <2>2. ASSUME NEW chunk \in Chunks, AddData(chunk) PROVE Abstract!QNext
    <3>1. CASE Store(chunk)
      <4>1. Contents' = Contents \o chunk /\ Abstract!Fits(Contents, Len(chunk))
        BY <3>1, StoreAppends
      <4>2. Abstract!QAddData(chunk)
        BY <3>1, <4>1 DEF Store, Abstract!QAddData, Abstract!Added
      <4> QED BY <4>2 DEF Abstract!QNext
    <3>2. CASE Overflow(chunk)
      <4>1. Contents' = << >>
        BY <3>2, EmptyContents DEF Overflow, Cleared
      <4>2. Len(chunk) \in Nat
        BY RingAssumption, LenProperties
      <4>3. Abstract!Fits(Contents, Len(chunk)) = FALSE
        BY <2>1, <3>2, <4>2 DEF Overflow, Abstract!Fits
      <4>4. Abstract!QAddData(chunk)
        BY <3>2, <4>1, <4>3 DEF Overflow, Abstract!QAddData, Abstract!Added
      <4> QED BY <4>4 DEF Abstract!QNext
    <3> QED BY <2>2, <3>1, <3>2 DEF AddData
  <2>3. ASSUME NEW n \in Counts, GetData(n) PROVE Abstract!QNext
    <3>1. n \in Nat
      BY RingAssumption
    <3>2. CASE DataSize >= n /\ oPtr' = Wrap(oPtr + n) /\ reply' = Answer(TRUE, Read(n))
               /\ UNCHANGED << buffer, iPtr >>
      <4>1. n <= DataSize /\ Abstract!Holds(Contents, n)
        BY <2>1, <3>1, <3>2 DEF Abstract!Holds
      <4>2. Contents' = Abstract!Without(Contents, n)
        BY <3>1, <3>2, <4>1, TakeLeavesRest
      <4>3. Read(n) = Abstract!Oldest(Contents, n)
        BY <3>1, <4>1, ReadIsOldest
      <4>4. Abstract!QGetData(n)
        BY <3>2, <4>1, <4>2, <4>3 DEF Abstract!QGetData
      <4> QED BY <4>4 DEF Abstract!QNext
    <3>3. CASE DataSize < n /\ reply' = Answer(FALSE, << >>)
               /\ UNCHANGED << buffer, iPtr, oPtr >>
      <4>1. ~Abstract!Holds(Contents, n)
        BY <2>1, <3>1, <3>3 DEF Abstract!Holds
      <4>2. UNCHANGED Contents
        BY <3>3 DEF Contents, DataSize, FreeSpace, Wrap
      <4>3. Abstract!QGetData(n)
        BY <3>3, <4>1, <4>2 DEF Abstract!QGetData
      <4> QED BY <4>3 DEF Abstract!QNext
    <3> QED BY <2>3, <3>2, <3>3 DEF GetData
  <2>4. ASSUME NEW n \in Counts, Peek(n) PROVE Abstract!QNext
    <3>1. n \in Nat /\ (DataSize >= n <=> Abstract!Holds(Contents, n))
      BY <2>1, RingAssumption DEF Abstract!Holds
    <3>2. UNCHANGED Contents
      BY <2>4 DEF Peek, Contents, DataSize, FreeSpace, Wrap
    <3>3. DataSize >= n => Read(n) = Abstract!Oldest(Contents, n)
      BY <2>1, <3>1, ReadIsOldest
    <3>4. Abstract!QPeek(n)
      BY <2>4, <3>1, <3>2, <3>3 DEF Peek, Abstract!QPeek
    <3> QED BY <3>4 DEF Abstract!QNext
  <2>5. CASE Clear
    <3>1. Contents' = << >>
      BY <2>5, EmptyContents DEF Clear, Cleared
    <3> QED BY <2>5, <3>1 DEF Clear, Abstract!QClear, Abstract!QNext
  <2>6. CASE UNCHANGED vars
    BY <2>6 DEF vars, Abstract!queueVars, Contents, DataSize, FreeSpace, Wrap
  <2> QED BY <2>2, <2>3, <2>4, <2>5, <2>6 DEF Next
<1> QED BY <1>1, <1>2, TypeCorrect, PTL DEF Spec, ImplementsQueue, Abstract!QSpec
=============================================================================
