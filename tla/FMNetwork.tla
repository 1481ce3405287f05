----------------------------- MODULE FMNetwork ------------------------------
(***************************************************************************)
(* CFMNetwork (FMNetwork.cpp): the connection to the repeater software.    *)
(* Each datagram of audio (FMD), start of transmission (FMS) or end of     *)
(* transmission (FME) that arrives is put into a ring buffer of bytes as a *)
(* record: two bytes of length, then the datagram.  The main loop asks for *)
(* the type of the oldest record and takes it out.  FMP is a keepalive.    *)
(*                                                                         *)
(* A datagram is the sequence of its bytes.  An arrival is a datagram with *)
(* its sender; the one read of a call may also find nothing (NoArrival).   *)
(* Of the socket, which is UDPSocket, there is only what a write sends: it *)
(* is recorded in sent, and its result is ignored as the main loop does.   *)
(***************************************************************************)
EXTENDS QueueOps, Timer, Audio

CONSTANTS PingTimeout,      \* m_timeout of m_timer: Timeout(5, 0)
          WrappedCount      \* half of a 32-bit difference below zero: 2^31 - 1

VARIABLES buffer,       \* the contents of m_buffer
          timer,        \* m_timer
          sent          \* what this call wrote to the socket

NoArrival == [from |-> "nobody", data |-> << >>]

FMD == << 70, 77, 68 >>
FMS == << 70, 77, 83 >>
FME == << 70, 77, 69 >>
FMP == << 70, 77, 80 >>

\* memcmp() of the first three bytes.
Tagged(data, tag) == Len(data) >= 3 /\ SubSeq(data, 1, 3) = tag

\* The comparison may find the tag: bytes that a shorter datagram does not
\* have are what the stack held before, which can be anything.
MayBe(data, tag) == \A i \in 1 .. 3 : i <= Len(data) => data[i] = tag[i]

NoFrame == << >>
PingFrame == << [tag |-> FMP, samples |-> << >>] >>
DataFrame(samples) == << [tag |-> FMD, samples |-> EncodedAll(samples)] >>

-----------------------------------------------------------------------------
\* The length of a datagram as the two bytes of a uint16_t.
LengthBytes(n) == << n % 256, (n \div 256) % 256 >>

\* The two calls of addData() that store a record.
WithRecord(q, data) == Added(Added(q, LengthBytes(Len(data))), data)

\* Variant of Receive that announces the whole datagram of an FME.
ReceiveMeasured(arrival) ==
  LET data == arrival.data
  IN  \/ /\ arrival.from = "repeater"
         /\ MayBe(data, FMD) \/ MayBe(data, FMS)
         /\ buffer' = WithRecord(buffer, data)
      \/ /\ arrival.from = "repeater"
         /\ MayBe(data, FME)
         /\ buffer' = Added(Added(buffer, LengthBytes(Len(data))), FME)
      \/ /\ arrival.from = "repeater" =>
              \A tag \in {FMD, FMS, FME} : ~Tagged(data, tag)
         /\ UNCHANGED buffer

\* The second half of clock(): a datagram of the repeater is kept if it is
\* one of the three types, and only the tag of an FME is.  A datagram of one
\* or two bytes is compared all the same, as all of the tag or none of it.
Receive(arrival) ==
  LET data == arrival.data
  IN  \/ /\ arrival.from = "repeater"
         /\ MayBe(data, FMD) \/ MayBe(data, FMS)
         /\ buffer' = WithRecord(buffer, data)
      \/ /\ arrival.from = "repeater"
         /\ MayBe(data, FME)
         /\ buffer' = WithRecord(buffer, FME)
      \/ /\ arrival.from = "repeater" =>
              \A tag \in {FMD, FMS, FME} : ~Tagged(data, tag)
         /\ UNCHANGED buffer

\* Variant of ClockTimer that does not restart the timer.
ClockTimerOnce(ms) ==
  LET now == Ticked(timer, PingTimeout, ms)
      due == IsRunning(now) /\ HasExpired(now, PingTimeout)
  IN  /\ timer' = now
      /\ sent' = IF due THEN PingFrame ELSE NoFrame

\* The first half of clock(): a keepalive goes out when the timer expires.
ClockTimer(ms) ==
  LET now == Ticked(timer, PingTimeout, ms)
      due == IsRunning(now) /\ HasExpired(now, PingTimeout)
  IN  /\ timer' = IF due THEN Started(now, PingTimeout) ELSE now
      /\ sent' = IF due THEN PingFrame ELSE NoFrame

-----------------------------------------------------------------------------
(***************************************************************************)
(* The oldest record of a buffer.  A record is torn when the buffer holds  *)
(* less than it announces: getData() then fails, the local array keeps     *)
(* whatever the stack held, and what follows is undefined.                 *)
(***************************************************************************)
RecordLength(q) == q[1] + 256 * q[2]

Torn(q) == ~Holds(q, 2) \/ ~Holds(Without(q, 2), RecordLength(q))

Record(q) == Oldest(Without(q, 2), RecordLength(q))

\* The buffer after the two calls of getData() of readStart(), readData()
\* and readEnd().
Rest(q) == IF Torn(q) THEN q ELSE Without(Without(q, 2), RecordLength(q))

\* readType(): the two calls of peek() both read from the front of the
\* buffer, so that what is compared with the tags begins with the length.
ReadType(q) ==
  IF q = << >> THEN "NONE"
  ELSE IF Tagged(q, FMD) THEN "DATA"
  ELSE IF Tagged(q, FMS) THEN "START"
  ELSE IF Tagged(q, FME) THEN "END"
  ELSE "DATA"

\* (len - 3U) / sizeof(uint16_t): the difference is a 32-bit unsigned one,
\* which a record of one or two bytes takes below zero.
SampleCount(data) == IF Len(data) < 3 THEN WrappedCount ELSE (Len(data) - 3) \div 2

\* What readData() makes of a record of audio: at most nOut samples.
ReadCount(q, nOut) ==
  LET nSamples == SampleCount(Record(q)) IN IF nOut < nSamples THEN nOut ELSE nSamples

DataRead(q, nOut) == Samples(SubSeq(Record(q), 4, Len(Record(q))), ReadCount(q, nOut))

-----------------------------------------------------------------------------
\* A new object after open(), which starts the timer.
Init == buffer = << >> /\ timer = Started(Stopped, PingTimeout) /\ sent = NoFrame

\* Variant of TakeRecord that leaves the record where it is.
TakeRecordPeek ==
  /\ sent' = NoFrame
  /\ UNCHANGED << buffer, timer >>

\* readStart(), readData() and readEnd() up to their assertion.
TakeRecord ==
  /\ buffer' = Rest(buffer)
  /\ sent' = NoFrame
  /\ UNCHANGED timer

WriteData(samples) ==
  /\ sent' = DataFrame(samples)
  /\ UNCHANGED << buffer, timer >>

Clock(ms, arrival) ==
  /\ ClockTimer(ms)
  /\ Receive(arrival)

\* A call that does nothing, or a step of something else.
Quiet == sent' = NoFrame /\ UNCHANGED << buffer, timer >>
=============================================================================
