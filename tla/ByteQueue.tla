----------------------------- MODULE ByteQueue ------------------------------
(***************************************************************************)
(* What CRingBuffer promises the classes that own one: a first-in          *)
(* first-out queue with fewer than Length elements, that answers every     *)
(* call at once.  The pointers, the wrap at the end of the array and the   *)
(* memory are absent.  RingBuffer implements this module.                  *)
(***************************************************************************)
EXTENDS QueueOps

CONSTANTS Elements,     \* what a cell can hold
          Chunks,       \* the arrays callers pass to addData()
          Counts        \* the numbers of elements callers ask for

VARIABLES queue,        \* the elements held, oldest first
          reply         \* what the last call returned

queueVars == << queue, reply >>

Answer(ok, data) == [ok |-> ok, data |-> data]

QInit == queue = << >> /\ reply = Answer(TRUE, << >>)

QAddData(chunk) ==
  /\ queue' = Added(queue, chunk)
  /\ reply' = Answer(Fits(queue, Len(chunk)), << >>)

QGetData(n) ==
  \/ /\ Holds(queue, n)
     /\ queue' = Without(queue, n)
     /\ reply' = Answer(TRUE, Oldest(queue, n))
  \/ /\ ~Holds(queue, n)
     /\ reply' = Answer(FALSE, << >>)
     /\ UNCHANGED queue

QPeek(n) ==
  /\ reply' = IF Holds(queue, n) THEN Answer(TRUE, Oldest(queue, n))
                                 ELSE Answer(FALSE, << >>)
  /\ UNCHANGED queue

QClear == queue' = << >> /\ reply' = Answer(TRUE, << >>)

QNext ==
  \/ \E chunk \in Chunks : QAddData(chunk)
  \/ \E n \in Counts : QGetData(n) \/ QPeek(n)
  \/ QClear

QSpec == QInit /\ [][QNext]_queueVars
=============================================================================
