---------------------------- MODULE USRPNetwork -----------------------------
(***************************************************************************)
(* CUSRPNetwork (USRPNetwork.cpp): the connection to a USRP peer.  The     *)
(* audio that arrives loses its frames: the payloads are joined in a ring  *)
(* buffer of bytes.  Frames that go out carry a sequence number and the    *)
(* state of the push-to-talk line.                                         *)
(*                                                                         *)
(* An arrival names its sender, says whether it is a USRP frame of audio   *)
(* (header of 32 bytes, type 0) or anything else, and has the payload.     *)
(*                                                                         *)
(* A frame is put together in an array of 500 bytes, with nothing that     *)
(* limits what is put into it.  WriteStart and WriteData are the calls     *)
(* that stay within it; FMGateway asks TooLong what the others are.        *)
(***************************************************************************)
EXTENDS QueueOps, Audio

CONSTANTS SeqNumbers,       \* the values of m_seqNo: 2^32
          FrameLength,      \* the samples that fit the array of a frame: 234
          CallsignLength    \* the characters of a callsign that do: 453

VARIABLES buffer,       \* the contents of m_buffer
          seqNo,        \* m_seqNo
          sent          \* what this call wrote to the socket

NoArrival == [from |-> "nobody", kind |-> "none", payload |-> << >>]

NoFrame == << >>

Frame(kind, ptt, samples) ==
  << [kind |-> kind, ptt |-> ptt, seqNo |-> seqNo, samples |-> EncodedAll(samples)] >>

Init == buffer = << >> /\ seqNo = 0 /\ sent = NoFrame

\* writeData() puts 32 + 2 * n bytes into its array, without a check.
TooLong(n) == n > FrameLength

\* A callsign is sent as metadata, with the push-to-talk line still off.
WriteStart ==
  /\ sent' = Frame("metadata", FALSE, << >>)
  /\ UNCHANGED << buffer, seqNo >>

\* Variant of WriteData whose number does not wrap.
WriteDataUnwrapped(samples) ==
  /\ sent' = Frame("audio", TRUE, samples)
  /\ seqNo' = seqNo + 1
  /\ UNCHANGED buffer

WriteData(samples) ==
  /\ sent' = Frame("audio", TRUE, samples)
  /\ seqNo' = (seqNo + 1) % SeqNumbers
  /\ UNCHANGED buffer

\* One frame of silence releases the line and restarts the numbers.
WriteEnd ==
  /\ sent' = Frame("audio", FALSE, [i \in 1 .. 160 |-> 0])
  /\ seqNo' = 0
  /\ UNCHANGED buffer

\* clock(): the time that passed is not used.
WithArrival(q, arrival) ==
  IF arrival.from = "peer" /\ arrival.kind = "audio"
  THEN Added(q, arrival.payload) ELSE q

Clock(arrival) ==
  /\ buffer' = WithArrival(buffer, arrival)
  /\ sent' = NoFrame
  /\ UNCHANGED seqNo

\* readData(): as many whole samples as there are, at most nOut.
ReadCount(nOut) ==
  LET held == Len(buffer) \div 2 IN IF held < nOut THEN held ELSE nOut

DataRead(nOut) == Samples(Oldest(buffer, 2 * ReadCount(nOut)), ReadCount(nOut))

ReadData(nOut) ==
  /\ buffer' = Without(buffer, 2 * ReadCount(nOut))
  /\ sent' = NoFrame
  /\ UNCHANGED seqNo

\* A call that does nothing, or a step of something else.
Quiet == sent' = NoFrame /\ UNCHANGED << buffer, seqNo >>
=============================================================================
