----------------------------- MODULE FMGateway ------------------------------
(***************************************************************************)
(* CFMGateway::run() (FMGateway.cpp) from the point where both networks    *)
(* are open, with CFMNetwork on one side and CUSRPNetwork on the other.    *)
(* One thread turns a loop: look at the oldest record of the repeater and  *)
(* pass it to the network, pass the audio of the network to the repeater,  *)
(* clock both.  Signals arrive at any time and set m_killed.               *)
(*                                                                         *)
(* pc is the statement the loop is at.  It ends as "stopped" (run()        *)
(* returned), "aborted" (an assertion failed: no build file of the         *)
(* repository defines NDEBUG) or "undefined" (an array of the stack was    *)
(* written beyond its end, or a torn record was read: nothing is said of   *)
(* what the program does from then on).                                    *)
(***************************************************************************)
EXTENDS Integers, Sequences

CONSTANTS RingLength,       \* 2000U, the length of both ring buffers
          BlockLength,      \* BUFFER_LENGTH, the samples of one turn
          WrappedCount,     \* what readData() makes of a record shorter than a tag
          PingTimeout,      \* the keepalive timer of CFMNetwork
          SeqNumbers,       \* the values of CUSRPNetwork's m_seqNo
          FrameLength,      \* 234, the samples that fit the array of a frame
          CallsignLength,   \* 453, the characters that fit it
          DatagramLength,   \* 1500, what one read takes of a datagram
          Elapsed,          \* the times one turn of the loop can take
          SleepTime,        \* 10U: a shorter turn ends with a sleep
          FromRepeater,     \* the datagrams that the repeater sends
          FromPeer          \* the frames that the USRP peer sends

\* The record of all that one read takes fits an empty ring buffer (1502 in
\* 2000), and its length two bytes.  A frame holds fewer samples than a turn
\* can pass on (234 and 500), and a count that has wrapped is more.
ASSUME LengthAssumption ==
  /\ DatagramLength \in Nat /\ 3 <= DatagramLength /\ DatagramLength < 65536
  /\ RingLength \in Nat /\ DatagramLength + 2 < RingLength
  /\ BlockLength \in Nat \ {0} /\ 2 * BlockLength < RingLength
  /\ FrameLength \in Nat /\ FrameLength < BlockLength
  /\ WrappedCount \in Nat /\ BlockLength <= WrappedCount
  /\ CallsignLength \in Nat

\* Of a datagram there are at least one byte and at most those that clock()
\* reads.  Audio comes in whole samples from the peer.
ASSUME ArrivalAssumption ==
  /\ FromRepeater \subseteq Seq(0 .. 255) /\ FromPeer \subseteq Seq(0 .. 255)
  /\ \A d \in FromRepeater : 1 <= Len(d) /\ Len(d) <= DatagramLength
  /\ \A p \in FromPeer : Len(p) % 2 = 0

ASSUME TimeAssumption ==
  /\ PingTimeout \in Nat /\ PingTimeout > 1
  /\ Elapsed \subseteq Nat
  /\ SeqNumbers \in Nat \ {0}

VARIABLES pc,
          killed,           \* m_killed
          sleeps,           \* this turn of the loop ends with CThread::sleep()
          rfBuffer, rfTimer, rfSent,        \* localNetwork
          netBuffer, netSeqNo, netSent      \* *network

vars == << pc, killed, sleeps, rfBuffer, rfTimer, rfSent, netBuffer, netSeqNo, netSent >>

Local == INSTANCE FMNetwork
           WITH Length <- RingLength, buffer <- rfBuffer, timer <- rfTimer, sent <- rfSent

Net == INSTANCE USRPNetwork
         WITH Length <- RingLength, buffer <- netBuffer, seqNo <- netSeqNo, sent <- netSent

\* What the one read of a call to clock() can find.  A sender that is not
\* the configured one is a stranger, whatever it sends.
RepeaterArrivals ==
  { Local!NoArrival } \union
  [from : {"repeater", "stranger"}, data : FromRepeater]

PeerArrivals ==
  { Net!NoArrival } \union
  [from : {"peer", "stranger"}, kind : {"audio", "other"}, payload : FromPeer]

Final == {"stopped", "aborted", "undefined"}

-----------------------------------------------------------------------------
Init ==
  /\ pc = "test" /\ killed = FALSE /\ sleeps = FALSE
  /\ Local!Init
  /\ Net!Init

\* sigHandler()
Signal ==
  /\ pc \notin Final /\ ~killed
  /\ killed' = TRUE
  /\ UNCHANGED << pc, sleeps, rfBuffer, rfTimer, rfSent, netBuffer, netSeqNo, netSent >>

\* Variant of TestKilled that waits until no record is left.
TestKilledDrained ==
  /\ pc = "test"
  /\ pc' = IF killed /\ rfBuffer = << >> THEN "stopped" ELSE "dispatch"
  /\ Local!Quiet /\ Net!Quiet
  /\ UNCHANGED << killed, sleeps >>

\* while (!m_killed): what the step reads may change before the next step.
TestKilled ==
  /\ pc = "test"
  /\ pc' = IF killed THEN "stopped" ELSE "dispatch"
  /\ Local!Quiet /\ Net!Quiet
  /\ UNCHANGED << killed, sleeps >>

\* Where the loop can go when a record is read that should carry the tag,
\* and the write that follows can go to the members of next.  The assertion
\* over a record shorter than the tag holds or fails as the stack has it.
AfterRecord(tag, next) ==
  LET data == Local!Record(rfBuffer)
  IN  IF Local!Torn(rfBuffer) THEN {"undefined"}
      ELSE IF Local!Tagged(data, tag) THEN next
      ELSE IF Len(data) < 3 /\ Local!MayBe(data, tag) THEN next \union {"aborted"}
      ELSE {"aborted"}

\* The record leaves the buffer.  Nothing is said of what an undefined step
\* changes, nor of what follows it.
TakenUnlessUndefined == IF pc' = "undefined" THEN Local!Quiet ELSE Local!TakeRecord

\* The callsign goes up to the first zero.  In a record that has none it
\* goes on into what the stack held before.
AfterCallsign(data) ==
  LET within == 4 .. CallsignLength + 4
  IN  { next \in {"relay", "undefined"} :
          IF next = "relay" THEN \E i \in within : i > Len(data) \/ data[i] = 0
                            ELSE \A i \in within : i <= Len(data) => data[i] # 0 }

DispatchStart ==
  /\ pc' \in AfterRecord(Local!FMS, AfterCallsign(Local!Record(rfBuffer)))
  /\ TakenUnlessUndefined
  /\ IF pc' = "relay" THEN Net!WriteStart ELSE Net!Quiet

\* writeData() asserts that it is given at least one sample, and leaves its
\* array with too many.
AfterAudio(n) ==
  IF n = 0 THEN {"aborted"} ELSE IF Net!TooLong(n) THEN {"undefined"} ELSE {"relay"}

\* Variant of DispatchData with the assertion of readStart().
DispatchDataCopied ==
  /\ pc' \in AfterRecord(Local!FMS, AfterAudio(Local!ReadCount(rfBuffer, BlockLength)))
  /\ TakenUnlessUndefined
  /\ IF pc' = "relay" THEN Net!WriteData(Local!DataRead(rfBuffer, BlockLength))
                      ELSE Net!Quiet

DispatchData ==
  /\ pc' \in AfterRecord(Local!FMD, AfterAudio(Local!ReadCount(rfBuffer, BlockLength)))
  /\ TakenUnlessUndefined
  /\ IF pc' = "relay" THEN Net!WriteData(Local!DataRead(rfBuffer, BlockLength))
                      ELSE Net!Quiet

DispatchEnd ==
  /\ pc' \in AfterRecord(Local!FME, {"relay"})
  /\ TakenUnlessUndefined
  /\ IF pc' = "relay" THEN Net!WriteEnd ELSE Net!Quiet

\* The switch over readType(), with the call of read and write it selects.
Dispatch ==
  /\ pc = "dispatch"
  /\ CASE Local!ReadType(rfBuffer) = "START" -> DispatchStart
       [] Local!ReadType(rfBuffer) = "DATA"  -> DispatchData
       [] Local!ReadType(rfBuffer) = "END"   -> DispatchEnd
       [] OTHER -> pc' = "relay" /\ Local!Quiet /\ Net!Quiet
  /\ UNCHANGED << killed, sleeps >>

\* The audio of the network is written to the repeater.
Relay ==
  /\ pc = "relay"
  /\ pc' = "clockLocal"
  /\ Net!ReadData(BlockLength)
  /\ IF Net!ReadCount(BlockLength) > 0 THEN Local!WriteData(Net!DataRead(BlockLength))
                                       ELSE Local!Quiet
  /\ UNCHANGED << killed, sleeps >>

\* Variant of ClockLocal without the sleep of a short turn.
ClockLocalRestless ==
  /\ pc = "clockLocal"
  /\ pc' = "clockNet"
  /\ \E ms \in Elapsed, arrival \in RepeaterArrivals :
       /\ Local!Clock(ms, arrival)
       /\ sleeps' = (ms < SleepTime)
  /\ Net!Quiet
  /\ UNCHANGED killed

\* The stop watch is read and restarted, and the repeater's side clocked.
\* The time includes the sleep that ended the turn before.
ClockLocal ==
  /\ pc = "clockLocal"
  /\ pc' = "clockNet"
  /\ \E ms \in Elapsed, arrival \in RepeaterArrivals :
       /\ sleeps => ms >= SleepTime
       /\ Local!Clock(ms, arrival)
       /\ sleeps' = (ms < SleepTime)
  /\ Net!Quiet
  /\ UNCHANGED killed

\* The other side is clocked.  The sleep of a short turn follows.
ClockNet ==
  /\ pc = "clockNet"
  /\ pc' = "test"
  /\ \E arrival \in PeerArrivals : Net!Clock(arrival)
  /\ Local!Quiet
  /\ UNCHANGED << killed, sleeps >>

\* The program has ended.
Ended == pc \in Final /\ UNCHANGED vars

Step == TestKilled \/ Dispatch \/ Relay \/ ClockLocal \/ ClockNet

Next == Step \/ Signal \/ Ended

\* The loop has a thread of its own: it goes on as long as it can.
Spec == Init /\ [][Next]_vars /\ WF_vars(Step)
-----------------------------------------------------------------------------
(***************************************************************************)
(* Properties                                                              *)
(***************************************************************************)
TypeOK ==
  /\ pc \in {"test", "dispatch", "relay", "clockLocal", "clockNet"} \union Final
  /\ killed \in BOOLEAN /\ sleeps \in BOOLEAN
  /\ rfBuffer \in Seq(0 .. 255) /\ netBuffer \in Seq(0 .. 255)
  /\ rfTimer \in Nat
  /\ netSeqNo \in 0 .. SeqNumbers - 1

\* The ring buffer of the repeater's side is empty or holds exactly one
\* whole record, whose datagram is one that readData(), readStart() or
\* readEnd() knows, or may take for one that it knows.  The two parts of a
\* record are put in by two calls that can each clear the buffer
\* (FMNetwork.cpp:146-158): were one of them to fail, the stream would be
\* read out of step from then on.
OneWholeRecord ==
  rfBuffer # << >> =>
    /\ ~Local!Torn(rfBuffer)
    /\ Local!Rest(rfBuffer) = << >>
    /\ \E tag \in {Local!FMD, Local!FMS, Local!FME} :
         Local!MayBe(Local!Record(rfBuffer), tag)

\* The program fails an assertion only over a record without any audio in
\* it: readType() (FMNetwork.cpp:161-181) calls every record data.  It
\* leaves an array of the stack (USRPNetwork.cpp:169) only over a whole
\* record that has more samples than a frame holds, or is so short that
\* readData() counts 2^31 - 1 of them (FMNetwork.cpp:221).
FailsOnlyOverUnfitAudio ==
  [][ LET data == Local!Record(rfBuffer)
      IN  pc' # pc =>
            /\ pc' = "aborted" =>
                 ~Local!Tagged(data, Local!FMD) \/ Local!SampleCount(data) = 0
            /\ pc' = "undefined" =>
                 ~Local!Torn(rfBuffer) /\ Local!SampleCount(data) > FrameLength ]_vars

\* A keepalive goes to the repeater whenever PingTimeout has passed since
\* the last one: after every call of clock() the timer runs and has not
\* expired (FMNetwork.cpp:116-120).
PingOnTime == Local!IsRunning(rfTimer) /\ ~Local!HasExpired(rfTimer, PingTimeout)

\* The audio in the record of the repeater's side, and in the bytes of the
\* network's side, as it will be sent; the audio of the frames just sent.
Uplinked ==
  IF rfBuffer # << >> /\ Local!Tagged(Local!Record(rfBuffer), Local!FMD)
  THEN LET data == Local!Record(rfBuffer)
       IN  Local!EncodedAll(Local!Samples(SubSeq(data, 4, Len(data)), Local!SampleCount(data)))
  ELSE << >>

Downlinked == Net!EncodedAll(Net!Samples(netBuffer, Len(netBuffer) \div 2))

SamplesOf(frames) == IF frames = << >> THEN << >> ELSE frames[1].samples

\* From the repeater to the network the audio is a pipe that loses, repeats
\* and reorders nothing, for as long as the program lives.
UplinkPipe ==
  INSTANCE AudioPipe WITH
    pipe <- Uplinked, said <- SamplesOf(netSent), Capacity <- RingLength,
    Packets <- { Local!EncodedAll(Local!Samples(SubSeq(d, 4, Len(d)), Local!SampleCount(d))) :
                   d \in { e \in FromRepeater : Local!Tagged(e, Local!FMD) } }

UplinkInOrder == UplinkPipe!PipeSpec

\* So it is in the other direction, but that a peer that sends more than a
\* turn passes on makes the buffer overflow (USRPNetwork.cpp:328-329).  Only
\* then is audio lost: all that was waiting, never a part of it, and the
\* samples after that are whole and in order.
DownlinkPipe ==
  INSTANCE AudioPipe WITH
    pipe <- Downlinked, said <- SamplesOf(rfSent), Capacity <- RingLength \div 2,
    Packets <- { Net!EncodedAll(Net!Samples(p, Len(p) \div 2)) : p \in FromPeer }

DownlinkInOrder == DownlinkPipe!LossySpec

\* What the assertions of readStart(), readData() and readEnd()
\* (FMNetwork.cpp:195-196, 218-219, 247-248) say of a start and of an end of
\* transmission: it is read by the function of its own type, so that none of
\* them fails over it.
NoTransmissionAborts ==
  [][ pc # "aborted" /\ pc' = "aborted" =>
        /\ ~Local!Tagged(Local!Record(rfBuffer), Local!FMS)
        /\ ~Local!Tagged(Local!Record(rfBuffer), Local!FME) ]_vars

\* A signal ends the loop, whatever it is doing.
StopsWhenKilled == killed ~> pc \in Final

\* A record does not stay: the loop passes it on or ends.
RecordsLeave == rfBuffer # << >> ~> (rfBuffer = << >> \/ pc \in Final)

\* Keepalives go on for as long as the loop turns, because a turn that took
\* no time is followed by a sleep (FMGateway.cpp:295-296).
PingsRecur == []<>(rfSent = Local!PingFrame) \/ <>(pc \in Final)
=============================================================================
