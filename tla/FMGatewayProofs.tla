-------------------------- MODULE FMGatewayProofs ---------------------------
(***************************************************************************)
(* For every length of the ring buffers, of a turn and of a frame, every   *)
(* datagram of one byte or more that a read can take, and every timing:    *)
(* the stream of records between the repeater and the main loop is never   *)
(* out of step, and the keepalive is never late.                           *)
(* The argument is that the loop takes a record before the one datagram of *)
(* a turn is received, so that a record only ever meets an empty buffer.   *)
(***************************************************************************)
EXTENDS FMGateway, SequenceTheorems, TLAPS

Bytes == 0 .. 255

\* The record that stands for a datagram.
Framed(d) == Local!LengthBytes(Len(d)) \o d

Kept == { d \in Seq(Bytes) :
            /\ 1 <= Len(d) /\ Len(d) + 2 < RingLength /\ Len(d) < 65536
            /\ \E tag \in {Local!FMD, Local!FMS, Local!FME} : Local!MayBe(d, tag) }

LEMMA KeptIntro ==
  ASSUME NEW d \in Seq(Bytes), 1 <= Len(d), Len(d) + 2 < RingLength, Len(d) < 65536,
         \E tag \in {Local!FMD, Local!FMS, Local!FME} : Local!MayBe(d, tag)
  PROVE  d \in Kept
BY DEF Kept

\* The two bytes of a length say what the length is.
LEMMA LengthRoundTrip ==
  ASSUME NEW n \in Nat, n < 65536
  PROVE  /\ Local!LengthBytes(n) \in Seq(Bytes)
         /\ Len(Local!LengthBytes(n)) = 2
         /\ Local!LengthBytes(n)[1] \in Bytes /\ Local!LengthBytes(n)[2] \in Bytes
         /\ Local!LengthBytes(n)[1] + 256 * Local!LengthBytes(n)[2] = n
<1>1. n % 256 \in Bytes /\ (n \div 256) % 256 \in Bytes
  BY DEF Bytes
<1>2. (n % 256) + 256 * ((n \div 256) % 256) = n
  <2>1. n \div 256 \in 0 .. 255
    OBVIOUS
  <2>2. (n \div 256) % 256 = n \div 256
    BY <2>1
  <2> QED BY <2>2
<1> QED BY <1>1, <1>2 DEF Local!LengthBytes

\* Two elements in front of a sequence.
LEMMA PairPrefix ==
  ASSUME NEW S, NEW p \in Seq(S), NEW d \in Seq(S), Len(p) = 2
  PROVE  /\ p \o d \in Seq(S)
         /\ Len(p \o d) = 2 + Len(d)
         /\ \A i \in 1 .. 2 + Len(d) : (p \o d)[i] = IF i <= 2 THEN p[i] ELSE d[i - 2]
<1>1. /\ p \o d \in Seq(S)
      /\ Len(p \o d) = Len(p) + Len(d)
      /\ \A i \in 1 .. Len(p) + Len(d) :
           (p \o d)[i] = IF i <= Len(p) THEN p[i] ELSE d[i - Len(p)]
  BY ConcatProperties
<1> QED BY <1>1

\* A record is taken apart into the datagram it was made of.
LEMMA FramedRoundTrip ==
  ASSUME NEW d \in Seq(Bytes), Len(d) < 65536
  PROVE  /\ Framed(d) \in Seq(Bytes)
         /\ Framed(d) # << >>
         /\ ~Local!Torn(Framed(d))
         /\ Local!Record(Framed(d)) = d
         /\ Local!Rest(Framed(d)) = << >>
<1> DEFINE prefix == Local!LengthBytes(Len(d))
<1>1. Len(d) \in Nat
  BY LenProperties
<1>2. prefix \in Seq(Bytes) /\ Len(prefix) = 2 /\ prefix[1] + 256 * prefix[2] = Len(d)
  BY <1>1, LengthRoundTrip
<1> HIDE DEF prefix
<1>3. /\ prefix \o d \in Seq(Bytes)
      /\ Len(prefix \o d) = 2 + Len(d)
      /\ (prefix \o d)[1] = prefix[1] /\ (prefix \o d)[2] = prefix[2]
      /\ \A i \in 1 .. Len(d) : (prefix \o d)[2 + i] = d[i]
  <2>1. /\ prefix \o d \in Seq(Bytes)
        /\ Len(prefix \o d) = 2 + Len(d)
        /\ \A i \in 1 .. 2 + Len(d) :
             (prefix \o d)[i] = IF i <= 2 THEN prefix[i] ELSE d[i - 2]
    BY <1>2, PairPrefix
  <2>2. ASSUME NEW i \in 1 .. Len(d) PROVE (prefix \o d)[2 + i] = d[i]
    <3>1. 2 + i \in 1 .. 2 + Len(d) /\ ~(2 + i <= 2) /\ (2 + i) - 2 = i
      BY <1>1
    <3> QED BY <2>1, <3>1
  <2>3. (prefix \o d)[1] = prefix[1] /\ (prefix \o d)[2] = prefix[2]
    BY <1>1, <2>1
  <2> QED BY <2>1, <2>2, <2>3
<1>4. SubSeq(prefix \o d, 3, 2 + Len(d)) = d
  BY <1>1, <1>2, <1>3
<1>5. SubSeq(d, 1, Len(d)) = d
  BY <1>1
<1>6. SubSeq(d, Len(d) + 1, Len(d)) = << >>
  BY <1>1
<1>7. Framed(d) = prefix \o d
  BY DEF Framed, prefix
<1>8. Local!RecordLength(prefix \o d) = Len(d)
  BY <1>2, <1>3 DEF Local!RecordLength
<1>9. Local!Without(prefix \o d, 2) = d
  BY <1>3, <1>4 DEF Local!Without
<1>10. ~Local!Torn(prefix \o d)
  BY <1>1, <1>3, <1>8, <1>9 DEF Local!Torn, Local!Holds
<1>11. prefix \o d # << >>
  BY <1>1, <1>3
<1> QED BY <1>3, <1>5, <1>6, <1>7, <1>8, <1>9, <1>10, <1>11
        DEF Local!Record, Local!Oldest, Local!Rest, Local!Without

-----------------------------------------------------------------------------
\* The loop has taken the record when it comes to receive the next one.
IInv ==
  /\ TypeOK
  /\ rfBuffer = << >> \/ \E d \in Kept : rfBuffer = Framed(d)
  /\ pc \in {"relay", "clockLocal"} => rfBuffer = << >>
  /\ rfTimer \in 1 .. PingTimeout - 1

\* What clock() puts into an empty buffer.
LEMMA ArrivalIsFramed ==
  ASSUME NEW arrival \in RepeaterArrivals, rfBuffer = << >>, Local!Receive(arrival)
  PROVE  \/ rfBuffer' = << >>
         \/ \E d \in Kept : /\ rfBuffer' = Framed(d)
                            /\ Local!Tagged(d, Local!FMD) => d \in FromRepeater
<1> DEFINE d == arrival.data
<1>1. ASSUME NEW e \in Kept
      PROVE  Local!WithRecord(<< >>, e) = Framed(e)
  <2>1. e \in Seq(Bytes) /\ Len(e) \in Nat /\ Len(e) + 2 < RingLength /\ Len(e) < 65536
    BY LenProperties DEF Kept
  <2>2. Local!LengthBytes(Len(e)) \in Seq(Bytes) /\ Len(Local!LengthBytes(Len(e))) = 2
    BY <2>1, LengthRoundTrip
  <2>3. << >> \o Local!LengthBytes(Len(e)) = Local!LengthBytes(Len(e))
    BY <2>2
  <2>4. Local!Added(<< >>, Local!LengthBytes(Len(e))) = Local!LengthBytes(Len(e))
    <3>1. 2 < RingLength - Len(<< >>)
      BY <2>1, LengthAssumption
    <3> QED BY <2>2, <2>3, <3>1 DEF Local!Added, Local!Fits
  <2>5. Len(e) < RingLength - 2
    BY <2>1, LengthAssumption
  <2> QED BY <2>2, <2>4, <2>5 DEF Local!WithRecord, Local!Added, Local!Fits, Framed
<1>2. arrival.from = "repeater" =>
        /\ d \in FromRepeater /\ d \in Seq(Bytes)
        /\ 1 <= Len(d) /\ Len(d) + 2 < RingLength /\ Len(d) < 65536
  <2> SUFFICES ASSUME arrival.from = "repeater"
               PROVE  /\ d \in FromRepeater /\ d \in Seq(Bytes)
                      /\ 1 <= Len(d) /\ Len(d) + 2 < RingLength /\ Len(d) < 65536
    OBVIOUS
  <2>1. d \in FromRepeater
    BY DEF RepeaterArrivals, Local!NoArrival
  <2>2. d \in Seq(Bytes) /\ 1 <= Len(d) /\ Len(d) <= DatagramLength
    BY <2>1, ArrivalAssumption DEF Bytes
  <2>3. Len(d) \in Nat
    BY <2>2, LenProperties
  <2> HIDE DEF d
  <2> QED BY <2>1, <2>2, <2>3, LengthAssumption
<1> HIDE DEF d
<1>3. CASE /\ arrival.from = "repeater"
           /\ Local!MayBe(d, Local!FMD) \/ Local!MayBe(d, Local!FMS)
           /\ rfBuffer' = Local!WithRecord(<< >>, d)
  <2>1. d \in Kept
    BY <1>2, <1>3, KeptIntro
  <2> QED BY <1>1, <1>2, <1>3, <2>1
<1>4. CASE /\ arrival.from = "repeater"
           /\ rfBuffer' = Local!WithRecord(<< >>, Local!FME)
  <2>1. /\ Local!FME \in Seq(Bytes) /\ Len(Local!FME) = 3
        /\ SubSeq(Local!FME, 1, 3)[3] # Local!FMD[3]
    BY DEF Local!FME, Local!FMD, Bytes
  <2>2. 1 <= Len(Local!FME) /\ Len(Local!FME) + 2 < RingLength /\ Len(Local!FME) < 65536
    <3>1. 3 + 2 < RingLength
      BY LengthAssumption
    <3> QED BY <2>1, <3>1, LengthAssumption
  <2>3. Local!MayBe(Local!FME, Local!FME)
    BY DEF Local!MayBe
  <2>4. Local!FME \in Kept
    <3> DEFINE e == Local!FME
    <3>1. /\ e \in Seq(Bytes) /\ 1 <= Len(e) /\ Len(e) + 2 < RingLength /\ Len(e) < 65536
          /\ \E tag \in {Local!FMD, Local!FMS, Local!FME} : Local!MayBe(e, tag)
      BY <2>1, <2>2, <2>3
    <3> HIDE DEF e
    <3>2. e \in Kept
      BY <3>1, KeptIntro
    <3> QED BY <3>2 DEF e
  <2>5. ~Local!Tagged(Local!FME, Local!FMD)
    BY <2>1 DEF Local!Tagged
  <2> QED BY <1>1, <1>4, <2>4, <2>5
<1> QED BY <1>3, <1>4 DEF Local!Receive, d

\* Taking the record leaves an empty buffer, and it was not torn.
LEMMA TakeEmpties ==
  ASSUME rfBuffer # << >>, NEW d \in Kept, rfBuffer = Framed(d)
  PROVE  ~Local!Torn(rfBuffer) /\ Local!Rest(rfBuffer) = << >>
         /\ Local!Record(rfBuffer) = d
BY FramedRoundTrip DEF Kept

\* The buffer of the network's side stays a sequence of bytes.
LEMMA PeerBytes ==
  ASSUME netBuffer \in Seq(Bytes)
  PROVE  /\ \A arrival \in PeerArrivals : Net!WithArrival(netBuffer, arrival) \in Seq(Bytes)
         /\ \A n \in Nat : Net!Without(netBuffer, n) \in Seq(Bytes)
<1>1. ASSUME NEW arrival \in PeerArrivals
      PROVE  Net!WithArrival(netBuffer, arrival) \in Seq(Bytes)
  <2>1. arrival.from = "peer" => arrival.payload \in Seq(Bytes)
    BY ArrivalAssumption DEF PeerArrivals, Net!NoArrival, Bytes
  <2>2. << >> \in Seq(Bytes)
    BY EmptySeq
  <2>3. arrival.from = "peer" => netBuffer \o arrival.payload \in Seq(Bytes)
    BY <2>1, ConcatProperties
  <2> QED BY <2>2, <2>3 DEF Net!WithArrival, Net!Added
<1>2. ASSUME NEW n \in Nat PROVE Net!Without(netBuffer, n) \in Seq(Bytes)
  <2>1. Len(netBuffer) \in Nat /\ \A i \in 1 .. Len(netBuffer) : netBuffer[i] \in Bytes
    BY LenProperties, ElementOfSeq
  <2>2. \A i \in n + 1 .. Len(netBuffer) : netBuffer[i] \in Bytes
    BY <2>1
  <2> QED BY <2>1, <2>2, SubSeqProperties DEF Net!Without
<1> QED BY <1>1, <1>2

\* The keepalive timer, clocked with any time of the loop.
LEMMA TimerRestarts ==
  ASSUME rfTimer \in 1 .. PingTimeout - 1, NEW ms \in Elapsed, Local!ClockTimer(ms)
  PROVE  rfTimer' \in 1 .. PingTimeout - 1
BY TimeAssumption DEF Local!ClockTimer, Local!Ticked, Local!Started, Local!IsRunning,
                      Local!HasExpired

\* The third byte of a record is the F of its tag, which is the third byte of
\* no tag: readType() calls every record data.
LEMMA AlwaysData ==
  ASSUME NEW d \in Kept
  PROVE  Local!ReadType(Framed(d)) = "DATA"
<1> DEFINE prefix == Local!LengthBytes(Len(d))
           q == Framed(d)
<1>1. d \in Seq(Bytes) /\ Len(d) \in Nat /\ Len(d) < 65536
  BY LenProperties DEF Kept
<1>2. prefix \in Seq(Bytes) /\ Len(prefix) = 2
  BY <1>1, LengthRoundTrip
<1>3. PICK tag \in {Local!FMD, Local!FMS, Local!FME} : Local!MayBe(d, tag)
  BY DEF Kept
<1>4. Len(d) >= 1 /\ d[1] = 70
  <2>1. Len(d) >= 1 /\ d[1] = tag[1]
    BY <1>1, <1>3 DEF Kept, Local!MayBe
  <2>2. tag[1] = 70
    BY DEF Local!FMD, Local!FMS, Local!FME
  <2> QED BY <2>1, <2>2
<1> HIDE DEF prefix
<1>5. q \in Seq(Bytes) /\ Len(q) = 2 + Len(d) /\ q[3] = 70
  <2>1. q = prefix \o d
    BY DEF Framed, prefix
  <2>2. /\ prefix \o d \in Seq(Bytes) /\ Len(prefix \o d) = 2 + Len(d)
        /\ \A i \in 1 .. 2 + Len(d) :
             (prefix \o d)[i] = IF i <= 2 THEN prefix[i] ELSE d[i - 2]
    BY <1>1, <1>2, PairPrefix
  <2>3. (prefix \o d)[3] = d[1]
    BY <1>1, <1>4, <2>2
  <2> QED BY <1>4, <2>1, <2>2, <2>3
<1> HIDE DEF q
<1>6. SubSeq(q, 1, 3)[3] = 70
  BY <1>1, <1>5, <1>4
<1>7. /\ ~Local!Tagged(q, Local!FMD) /\ ~Local!Tagged(q, Local!FMS)
      /\ ~Local!Tagged(q, Local!FME)
  <2>1. Local!FMD[3] # 70 /\ Local!FMS[3] # 70 /\ Local!FME[3] # 70
    BY DEF Local!FMD, Local!FMS, Local!FME
  <2> QED BY <1>6, <2>1 DEF Local!Tagged
<1>8. q # << >>
  BY <1>1, <1>5
<1> QED BY <1>7, <1>8 DEF Local!ReadType, q

\* A turn of the switch passes on all the audio of the record, or takes a
\* record that has none and aborts, or has too much for a frame.
LEMMA DispatchCases ==
  ASSUME Dispatch, NEW d \in Kept, rfBuffer = Framed(d)
  PROVE  LET n == Local!SampleCount(d)
         IN  /\ Local!Record(rfBuffer) = d /\ ~Local!Torn(rfBuffer) /\ n \in Nat
             /\ rfTimer' = rfTimer
             /\ \/ /\ pc' = "relay" /\ rfBuffer' = << >>
                   /\ Local!Tagged(d, Local!FMD) /\ n \in 1 .. FrameLength
                   /\ Net!WriteData(Local!Samples(SubSeq(d, 4, Len(d)), n))
                \/ /\ pc' = "aborted" /\ rfBuffer' = << >>
                   /\ ~Local!Tagged(d, Local!FMD) \/ n = 0
                   /\ Net!Quiet
                \/ /\ pc' = "undefined" /\ rfBuffer' = rfBuffer
                   /\ n > FrameLength
                   /\ Net!Quiet
<1> DEFINE n == Local!SampleCount(d)
           count == Local!ReadCount(rfBuffer, BlockLength)
           samples == Local!Samples(SubSeq(d, 4, Len(d)), n)
<1>1. /\ rfBuffer # << >> /\ ~Local!Torn(rfBuffer)
      /\ Local!Record(rfBuffer) = d /\ Local!Rest(rfBuffer) = << >>
  BY FramedRoundTrip DEF Kept
<1>2. DispatchData
  BY AlwaysData DEF Dispatch
<1>3. n \in Nat /\ (Len(d) < 3 => n = WrappedCount)
  <2>1. Len(d) \in Nat
    BY LenProperties DEF Kept
  <2> QED BY <2>1, LengthAssumption DEF Local!SampleCount
<1>4. count = IF BlockLength < n THEN BlockLength ELSE n
  BY <1>1 DEF Local!ReadCount
<1>5. count <= FrameLength => count = n
  BY <1>3, <1>4, LengthAssumption
<1>6. count > FrameLength => n > FrameLength
  BY <1>3, <1>4, LengthAssumption
<1>7. Local!DataRead(rfBuffer, BlockLength) = Local!Samples(SubSeq(d, 4, Len(d)), count)
  BY <1>1 DEF Local!DataRead
<1>8. count \in Nat /\ (Len(d) < 3 => count > FrameLength)
  BY <1>3, <1>4, LengthAssumption
<1> HIDE DEF n, count
<1>9. /\ AfterAudio(count) \in {{"aborted"}, {"undefined"}, {"relay"}}
      /\ AfterAudio(count) = {"aborted"} => count = 0
      /\ AfterAudio(count) = {"undefined"} => count > FrameLength
      /\ AfterAudio(count) = {"relay"} => count # 0 /\ count <= FrameLength
  <2>1. CASE count = 0
    BY <2>1 DEF AfterAudio
  <2>2. CASE count # 0 /\ count > FrameLength
    BY <2>2 DEF AfterAudio, Net!TooLong
  <2>3. CASE count # 0 /\ ~(count > FrameLength)
    <3>1. count <= FrameLength
      BY <1>8, <2>3, LengthAssumption
    <3>2. AfterAudio(count) = {"relay"}
      BY <2>3 DEF AfterAudio, Net!TooLong
    <3>3. {"relay"} # {"aborted"} /\ {"relay"} # {"undefined"}
      OBVIOUS
    <3> QED BY <2>3, <3>1, <3>2, <3>3
  <2> QED BY <2>1, <2>2, <2>3
<1>10. pc' \in AfterRecord(Local!FMD, AfterAudio(count))
  BY <1>2 DEF DispatchData, count
<1>11. /\ pc' # "undefined" => rfBuffer' = << >> /\ rfTimer' = rfTimer
       /\ pc' = "undefined" => rfBuffer' = rfBuffer /\ rfTimer' = rfTimer
       /\ pc' # "relay" => Net!Quiet
       /\ pc' = "relay" => Net!WriteData(Local!Samples(SubSeq(d, 4, Len(d)), count))
  BY <1>1, <1>2, <1>7
     DEF DispatchData, TakenUnlessUndefined, Local!TakeRecord, Local!Quiet
<1>12. CASE Local!Tagged(d, Local!FMD)
  <2>1. AfterRecord(Local!FMD, AfterAudio(count)) = AfterAudio(count)
    BY <1>1, <1>12 DEF AfterRecord
  <2>2. CASE pc' = "relay"
    <3>1. count \in 1 .. FrameLength /\ count = n
      BY <1>5, <1>8, <1>9, <1>10, <2>1, <2>2, LengthAssumption
    <3> QED BY <1>1, <1>3, <1>11, <1>12, <2>2, <3>1 DEF n
  <2>3. CASE pc' = "aborted"
    <3>1. count = 0 /\ count = n
      BY <1>5, <1>9, <1>10, <2>1, <2>3, LengthAssumption
    <3> QED BY <1>1, <1>3, <1>11, <2>3, <3>1 DEF n
  <2>4. CASE pc' = "undefined"
    <3>1. n > FrameLength
      BY <1>6, <1>9, <1>10, <2>1, <2>4
    <3> QED BY <1>1, <1>3, <1>11, <2>4, <3>1 DEF n
  <2> QED BY <1>9, <1>10, <2>1, <2>2, <2>3, <2>4
<1>13. CASE ~Local!Tagged(d, Local!FMD)
  <2>1. pc' = "aborted" \/ (Len(d) < 3 /\ pc' \in AfterAudio(count))
    BY <1>1, <1>10, <1>13 DEF AfterRecord
  <2>2. CASE pc' = "aborted"
    BY <1>1, <1>3, <1>11, <1>13, <2>2 DEF n
  <2>3. CASE Len(d) < 3 /\ pc' \in AfterAudio(count)
    <3>1. pc' = "undefined" /\ n > FrameLength
      BY <1>6, <1>8, <1>9, <2>3, LengthAssumption
    <3> QED BY <1>1, <1>3, <1>11, <3>1 DEF n
  <2> QED BY <2>1, <2>2, <2>3
<1> QED BY <1>12, <1>13

LEMMA InitInv == Init => IInv
<1> SUFFICES ASSUME Init PROVE IInv
  OBVIOUS
<1>1. << >> \in Seq(Bytes)
  BY EmptySeq
<1>2. rfTimer = 1
  BY TimeAssumption DEF Init, Local!Init, Local!Started
<1>3. netSeqNo \in 0 .. SeqNumbers - 1
  BY TimeAssumption DEF Init, Net!Init
<1>4. TypeOK
  <2>1. /\ pc = "test" /\ killed = FALSE /\ sleeps = FALSE
        /\ rfBuffer = << >> /\ netBuffer = << >>
    BY DEF Init, Local!Init, Net!Init
  <2> QED BY <1>1, <1>2, <1>3, <2>1 DEF TypeOK, Final, Bytes
<1> QED BY <1>2, <1>4, TimeAssumption DEF Init, Local!Init, IInv, Final

\* One turn of the switch.  The record it takes was there whole.
LEMMA DispatchInv ==
  ASSUME IInv, Dispatch
  PROVE  IInv'
<1> USE DEF Bytes
<1>1. /\ rfBuffer \in Seq(Bytes) /\ netBuffer \in Seq(Bytes) /\ << >> \in Seq(Bytes)
      /\ rfTimer \in 1 .. PingTimeout - 1 /\ netSeqNo \in 0 .. SeqNumbers - 1
      /\ killed \in BOOLEAN /\ sleeps \in BOOLEAN
  BY EmptySeq DEF IInv, TypeOK
<1>2. killed' = killed /\ sleeps' = sleeps
  BY DEF Dispatch
<1>3. CASE /\ rfTimer' = rfTimer /\ netBuffer' = netBuffer
           /\ netSeqNo' \in 0 .. SeqNumbers - 1
           /\ \/ rfBuffer' = << >> /\ pc' \in {"relay", "aborted"}
              \/ rfBuffer' = rfBuffer /\ pc' = "undefined"
  <2>1. rfTimer' \in Nat
    BY <1>1, <1>3, TimeAssumption
  <2>2. TypeOK'
    BY <1>1, <1>2, <1>3, <2>1 DEF TypeOK, Final
  <2> QED BY <1>1, <1>3, <2>2 DEF IInv
<1>4. /\ Net!Quiet => netSeqNo' \in 0 .. SeqNumbers - 1 /\ netBuffer' = netBuffer
      /\ \A x : Net!WriteData(x) => netSeqNo' \in 0 .. SeqNumbers - 1 /\ netBuffer' = netBuffer
  <2>1. (netSeqNo + 1) % SeqNumbers \in 0 .. SeqNumbers - 1
    BY <1>1, TimeAssumption
  <2> QED BY <1>1, <2>1 DEF Net!Quiet, Net!WriteData
<1>5. CASE rfBuffer = << >>
  <2>1. Local!ReadType(rfBuffer) = "NONE"
    BY <1>5 DEF Local!ReadType
  <2>2. pc' = "relay" /\ Local!Quiet /\ Net!Quiet
    BY <2>1 DEF Dispatch
  <2> QED BY <1>3, <1>4, <1>5, <2>2 DEF Local!Quiet
<1>6. CASE rfBuffer # << >>
  <2>1. PICK d \in Kept : rfBuffer = Framed(d)
    BY <1>6 DEF IInv
  <2>2. /\ rfTimer' = rfTimer
        /\ \/ rfBuffer' = << >> /\ pc' \in {"relay", "aborted"}
           \/ rfBuffer' = rfBuffer /\ pc' = "undefined"
        /\ Net!Quiet \/ \E x : Net!WriteData(x)
    BY <2>1, DispatchCases
  <2> QED BY <1>3, <1>4, <2>2
<1> QED BY <1>5, <1>6

LEMMA NextInv == IInv /\ [Next]_vars => IInv'
<1> SUFFICES ASSUME IInv, [Next]_vars PROVE IInv'
  OBVIOUS
<1> USE DEF Bytes
<1>0. /\ rfBuffer \in Seq(Bytes) /\ netBuffer \in Seq(Bytes) /\ rfTimer \in Nat
      /\ << >> \in Seq(Bytes)
  BY EmptySeq DEF IInv, TypeOK
<1>1. CASE TestKilled
  BY <1>1 DEF IInv, TypeOK, Final, TestKilled, Local!Quiet, Net!Quiet
<1>2. CASE Dispatch
  BY <1>2, DispatchInv
<1>3. CASE Relay
  <2>1. 2 * Net!ReadCount(BlockLength) \in Nat
    <3>1. Len(netBuffer) \in Nat
      BY <1>0, LenProperties
    <3> QED BY <3>1, LengthAssumption DEF Net!ReadCount
  <2>2. netBuffer' \in Seq(Bytes)
    BY <1>0, <1>3, <2>1, PeerBytes DEF Relay, Net!ReadData
  <2>3. rfBuffer' = rfBuffer /\ rfTimer' = rfTimer
    BY <1>3 DEF Relay, Local!WriteData, Local!Quiet
  <2>4. rfBuffer = << >>
    BY <1>3 DEF Relay, IInv
  <2> QED BY <1>0, <1>3, <2>2, <2>3, <2>4 DEF Relay, Net!ReadData, IInv, TypeOK, Final
<1>4. CASE ClockLocal
  <2>1. PICK ms \in Elapsed, arrival \in RepeaterArrivals :
          Local!Clock(ms, arrival) /\ sleeps' = (ms < SleepTime)
    BY <1>4 DEF ClockLocal
  <2>2. rfTimer' \in 1 .. PingTimeout - 1
    BY <2>1, TimerRestarts DEF IInv, Local!Clock
  <2>3. rfBuffer = << >> /\ Local!Receive(arrival)
    BY <1>4, <2>1 DEF ClockLocal, IInv, Local!Clock
  <2>4. rfBuffer' = << >> \/ \E d \in Kept : rfBuffer' = Framed(d)
    BY <2>3, ArrivalIsFramed
  <2>5. rfBuffer' \in Seq(Bytes)
    <3>1. \A d \in Kept : d \in Seq(Bytes) /\ Len(d) < 65536
      BY DEF Kept
    <3>2. \A d \in Kept : Framed(d) \in Seq(Bytes)
      BY <3>1, FramedRoundTrip
    <3> QED BY <1>0, <2>4, <3>2
  <2>6. rfTimer' \in Nat
    BY <2>2, TimeAssumption
  <2>7. sleeps' \in BOOLEAN
    BY <2>1
  <2>8. pc' = "clockNet" /\ netBuffer' = netBuffer /\ netSeqNo' = netSeqNo
        /\ killed' = killed
    BY <1>4 DEF ClockLocal, Net!Quiet
  <2> QED BY <2>2, <2>4, <2>5, <2>6, <2>7, <2>8 DEF IInv, TypeOK, Final
<1>5. CASE ClockNet
  <2>1. netBuffer' \in Seq(Bytes) /\ netSeqNo' = netSeqNo
    BY <1>0, <1>5, PeerBytes DEF ClockNet, Net!Clock
  <2> QED BY <1>5, <2>1 DEF ClockNet, Local!Quiet, IInv, TypeOK, Final
<1>6. CASE Signal
  BY <1>6 DEF Signal, IInv, TypeOK, Final
<1>7. CASE UNCHANGED vars
  BY <1>7 DEF vars, IInv, TypeOK, Final
<1> QED BY <1>1, <1>2, <1>3, <1>4, <1>5, <1>6, <1>7 DEF Next, Step, Ended

LEMMA Invariant == Spec => []IInv
BY InitInv, NextInv, PTL DEF Spec

\* Every variable keeps its type.
THEOREM TypeCorrect == Spec => []TypeOK
<1>1. IInv => TypeOK
  BY DEF IInv
<1> QED BY <1>1, Invariant, PTL

\* The repeater's ring buffer is empty or holds one whole record, of a
\* datagram that is of a known type or too short to tell, for all datagrams
\* and every length of the buffer that one read of the socket fits.
THEOREM Framing == Spec => []OneWholeRecord
<1>1. IInv => OneWholeRecord
  <2> SUFFICES ASSUME IInv, rfBuffer # << >>
               PROVE  /\ ~Local!Torn(rfBuffer) /\ Local!Rest(rfBuffer) = << >>
                      /\ \E tag \in {Local!FMD, Local!FMS, Local!FME} :
                           Local!MayBe(Local!Record(rfBuffer), tag)
    BY DEF OneWholeRecord
  <2>1. PICK d \in Kept : rfBuffer = Framed(d)
    BY DEF IInv
  <2>2. ~Local!Torn(rfBuffer) /\ Local!Rest(rfBuffer) = << >> /\ Local!Record(rfBuffer) = d
    BY <2>1, TakeEmpties
  <2> QED BY <2>2 DEF Kept
<1> QED BY <1>1, Invariant, PTL

\* After each turn of the loop the keepalive is less than its period old.
THEOREM Keepalive == Spec => []PingOnTime
<1>1. IInv => PingOnTime
  BY TimeAssumption DEF IInv, PingOnTime, Local!IsRunning, Local!HasExpired
<1> QED BY <1>1, Invariant, PTL

-----------------------------------------------------------------------------
(***************************************************************************)
(* The main loop implements AudioPipe in both directions, for every length *)
(* of the ring buffers, of a turn and of a frame and all datagrams that    *)
(* the assumptions allow; and it fails over nothing but a record with no   *)
(* audio or too much of it.  From the repeater the pipe is the one record  *)
(* that the ring buffer can hold, of which a turn passes on all or the     *)
(* program ends; from the peer it is the bytes of the ring buffer, which   *)
(* are always whole samples.                                               *)
(***************************************************************************)
\* The audio of a datagram of the repeater, as it will be sent.
AudioOf(d) ==
  Local!EncodedAll(Local!Samples(SubSeq(d, 4, Len(d)), Local!SampleCount(d)))

\* The audio in the first 2 n bytes, as it will be sent.
Heard(bytes, n) == Local!EncodedAll(Local!Samples(bytes, n))

LEMMA HeardSeq ==
  ASSUME NEW bytes \in Seq(Bytes), NEW n \in Nat, 2 * n <= Len(bytes)
  PROVE  /\ Local!Samples(bytes, n) \in Seq(Int) /\ Len(Local!Samples(bytes, n)) = n
         /\ Heard(bytes, n) \in Seq(Int) /\ Len(Heard(bytes, n)) = n
         /\ \A i \in 1 .. n : Heard(bytes, n)[i]
                                = Local!Encoded(Local!Sample(bytes[2 * i - 1], bytes[2 * i]))
<1> DEFINE samples == Local!Samples(bytes, n)
           heard == Heard(bytes, n)
<1>1. \A i \in 1 .. n : bytes[2 * i - 1] \in Int /\ bytes[2 * i] \in Int
  <2> TAKE i \in 1 .. n
  <2>1. 2 * i - 1 \in 1 .. Len(bytes) /\ 2 * i \in 1 .. Len(bytes)
    BY LenProperties
  <2>2. bytes[2 * i - 1] \in Bytes /\ bytes[2 * i] \in Bytes
    BY <2>1, ElementOfSeq
  <2>3. \A b \in Bytes : b \in Int
    BY DEF Bytes
  <2> QED BY <2>2, <2>3
<1>2. \A lo, hi \in Int : Local!Sample(lo, hi) \in Int
  BY DEF Local!Sample
<1>3. samples = [i \in 1 .. n |-> Local!Sample(bytes[2 * i - 1], bytes[2 * i])]
  BY DEF Local!Samples
<1>4. samples \in [1 .. n -> Int]
  BY <1>1, <1>2, <1>3
<1>5. \A i \in 1 .. n : samples[i] = Local!Sample(bytes[2 * i - 1], bytes[2 * i])
  BY <1>3
<1> HIDE DEF samples
<1>6. samples \in Seq(Int) /\ Len(samples) = n
  BY <1>4
<1>7. \A val \in Int : Local!Encoded(val) \in Int
  BY DEF Local!Encoded
<1>8. heard = [i \in 1 .. n |-> Local!Encoded(samples[i])]
  BY <1>6 DEF Heard, Local!EncodedAll, samples
<1>9. heard \in [1 .. n -> Int] /\ \A i \in 1 .. n : heard[i] = Local!Encoded(samples[i])
  BY <1>4, <1>7, <1>8
<1> HIDE DEF heard
<1>10. heard \in Seq(Int) /\ Len(heard) = n
  BY <1>9
<1> QED BY <1>5, <1>6, <1>9, <1>10 DEF samples, heard

\* Both sides convert audio in the same way.
LEMMA SameConversion ==
  /\ \A bytes, n : Net!Samples(bytes, n) = Local!Samples(bytes, n)
  /\ \A samples : Net!EncodedAll(samples) = Local!EncodedAll(samples)
BY DEF Net!Samples, Local!Samples, Net!Sample, Local!Sample,
       Net!EncodedAll, Local!EncodedAll, Net!Encoded, Local!Encoded

\* The audio of a record is all that follows its tag.
LEMMA RecordAudio ==
  ASSUME NEW d \in Kept, Local!Tagged(d, Local!FMD)
  PROVE  LET n == Local!SampleCount(d)
             audio == AudioOf(d)
         IN  /\ n \in Nat
             /\ audio \in Seq(Int) /\ Len(audio) = n
             /\ n = 0 => audio = << >>
<1> DEFINE n == Local!SampleCount(d)
           bytes == SubSeq(d, 4, Len(d))
<1>1. d \in Seq(Bytes) /\ Len(d) \in Nat /\ Len(d) >= 3
  BY LenProperties DEF Kept, Local!Tagged
<1>2. n \in Nat /\ 2 * n <= Len(d) - 3
  <2>1. n = (Len(d) - 3) \div 2
    BY <1>1 DEF Local!SampleCount
  <2> QED BY <1>1, <2>1
<1>3. bytes \in Seq(Bytes) /\ Len(bytes) = Len(d) - 3
  <2>1. \A i \in 4 .. Len(d) : d[i] \in Bytes
    BY <1>1, ElementOfSeq
  <2>2. bytes \in Seq(Bytes)
    BY <1>1, <2>1, SubSeqProperties
  <2>3. Len(bytes) = Len(d) - 3
    <3>1. Len(bytes) = IF 4 <= Len(d) THEN Len(d) - 4 + 1 ELSE 0
      BY <1>1, <2>1, SubSeqProperties
    <3>2. \A k \in Nat : k >= 3 => (IF 4 <= k THEN k - 4 + 1 ELSE 0) = k - 3
      OBVIOUS
    <3> HIDE DEF bytes
    <3> QED BY <1>1, <3>1, <3>2
  <2> QED BY <2>2, <2>3
<1>4. AudioOf(d) = Heard(bytes, n)
  BY DEF AudioOf, Heard
<1> HIDE DEF bytes, n
<1>5. Heard(bytes, n) \in Seq(Int) /\ Len(Heard(bytes, n)) = n
  BY <1>2, <1>3, HeardSeq
<1>6. n = 0 => Heard(bytes, n) = << >>
  BY <1>5, EmptySeq
<1> QED BY <1>2, <1>4, <1>5, <1>6 DEF n

\* Whatever the repeater sends, the program fails an assertion over nothing
\* else than a record without any audio in it, and leaves an array over
\* nothing else than one with more of it than a frame holds.
THEOREM FailsOverNothingElse == Spec => FailsOnlyOverUnfitAudio
<1> DEFINE Fails ==
      LET data == Local!Record(rfBuffer)
      IN  pc' # pc =>
            /\ pc' = "aborted" =>
                 ~Local!Tagged(data, Local!FMD) \/ Local!SampleCount(data) = 0
            /\ pc' = "undefined" =>
                 ~Local!Torn(rfBuffer) /\ Local!SampleCount(data) > FrameLength
<1>1. IInv /\ [Next]_vars => [Fails]_vars
  <2> SUFFICES ASSUME IInv, Next, pc' # pc, pc' \in {"aborted", "undefined"}
               PROVE  Fails
    BY DEF vars
  <2>1. Dispatch
    BY DEF Next, Step, TestKilled, Relay, ClockLocal, ClockNet, Signal, Ended, vars
  <2>2. CASE rfBuffer = << >>
    <3>1. Local!ReadType(rfBuffer) = "NONE"
      BY <2>2 DEF Local!ReadType
    <3> QED BY <2>1, <3>1 DEF Dispatch
  <2>3. CASE rfBuffer # << >>
    <3>1. PICK d \in Kept : rfBuffer = Framed(d)
      BY <2>3 DEF IInv
    <3>2. /\ Local!Record(rfBuffer) = d /\ ~Local!Torn(rfBuffer)
          /\ pc' = "aborted" => ~Local!Tagged(d, Local!FMD) \/ Local!SampleCount(d) = 0
          /\ pc' = "undefined" => Local!SampleCount(d) > FrameLength
      BY <2>1, <3>1, DispatchCases
    <3> QED BY <3>2
  <2> QED BY <2>2, <2>3
<1> QED BY <1>1, Invariant, PTL DEF Spec, FailsOnlyOverUnfitAudio

-----------------------------------------------------------------------------
(***************************************************************************)
(* From the repeater to the network                                        *)
(***************************************************************************)
\* The audio of the record in the ring buffer.
LEMMA UplinkedIs ==
  /\ rfBuffer = << >> => Uplinked = << >>
  /\ \A d \in Kept : rfBuffer = Framed(d) =>
       Uplinked = IF Local!Tagged(d, Local!FMD) THEN AudioOf(d) ELSE << >>
<1>1. ASSUME NEW d \in Kept, rfBuffer = Framed(d)
      PROVE  rfBuffer # << >> /\ Local!Record(rfBuffer) = d
  BY <1>1, FramedRoundTrip DEF Kept
<1> QED BY <1>1 DEF Uplinked, AudioOf

LEMMA UplinkedIsNext ==
  ASSUME NEW d \in Kept, rfBuffer' = Framed(d)
  PROVE  Uplinked' = IF Local!Tagged(d, Local!FMD) THEN AudioOf(d) ELSE << >>
<1>1. rfBuffer' # << >> /\ Local!Record(rfBuffer') = d
  BY FramedRoundTrip DEF Kept
<1> QED BY <1>1 DEF Uplinked, AudioOf

\* What a step of the pipe may be.
UplinkStep == UplinkPipe!PipeNext \/ UNCHANGED UplinkPipe!pipeVars

\* Where the repeater's ring buffer does not change and nothing is sent to
\* the network, the pipe does not move.
LEMMA UplinkIdle ==
  ASSUME rfBuffer' = rfBuffer, netSent' = << >>
  PROVE  UplinkStep
<1>1. Uplinked' = Uplinked
  BY DEF Uplinked
<1>2. SamplesOf(netSent)' = << >>
  BY DEF SamplesOf
<1> QED BY <1>1, <1>2 DEF UplinkStep, UplinkPipe!PipeNext, UplinkPipe!Idle

\* A datagram arrives while the pipe is empty.
LEMMA UplinkAccepts ==
  ASSUME IInv, ClockLocal
  PROVE  UplinkStep
<1>1. PICK ms \in Elapsed, arrival \in RepeaterArrivals : Local!Clock(ms, arrival)
  BY DEF ClockLocal
<1>2. rfBuffer = << >> /\ netSent' = << >>
  BY DEF ClockLocal, IInv, Net!Quiet, Net!NoFrame
<1>3. Local!Receive(arrival)
  BY <1>1 DEF Local!Clock
<1>4. Uplinked = << >> /\ SamplesOf(netSent)' = << >>
  BY <1>2 DEF Uplinked, SamplesOf
<1>5. CASE rfBuffer' = << >>
  BY <1>2, <1>5, UplinkIdle
<1>6. ASSUME NEW d \in Kept, rfBuffer' = Framed(d),
             Local!Tagged(d, Local!FMD) => d \in FromRepeater
      PROVE  UplinkStep
  <2>1. Uplinked' = IF Local!Tagged(d, Local!FMD) THEN AudioOf(d) ELSE << >>
    BY <1>6, UplinkedIsNext
  <2>2. CASE Local!Tagged(d, Local!FMD)
    <3> DEFINE packet == AudioOf(d)
    <3>1. packet \in { AudioOf(e) : e \in { f \in FromRepeater : Local!Tagged(f, Local!FMD) } }
      BY <1>6, <2>2
    <3>2. packet \in Seq(Int)
      BY <2>2, RecordAudio
    <3>3. Uplinked' = packet
      BY <2>1, <2>2
    <3> HIDE DEF packet
    <3>4. << >> \o packet = packet
      BY <3>2, ConcatEmptySeq
    <3>5. UplinkPipe!Accept(packet)
      BY <1>4, <3>3, <3>4 DEF UplinkPipe!Accept
    <3> QED BY <3>1, <3>5 DEF UplinkStep, UplinkPipe!PipeNext, AudioOf
  <2>3. CASE ~Local!Tagged(d, Local!FMD)
    BY <1>4, <2>1, <2>3 DEF UplinkStep, UplinkPipe!PipeNext, UplinkPipe!Idle
  <2> QED BY <2>2, <2>3
<1> QED BY <1>2, <1>3, <1>5, <1>6, ArrivalIsFramed

\* The loop takes the record and passes on all of its audio, or ends when
\* there is none or too much of it.
LEMMA UplinkDelivers ==
  ASSUME IInv, Dispatch
  PROVE  UplinkStep
<1>1. CASE rfBuffer = << >>
  <2>1. Local!ReadType(rfBuffer) = "NONE"
    BY <1>1 DEF Local!ReadType
  <2>2. Local!Quiet /\ Net!Quiet
    BY <2>1 DEF Dispatch
  <2> QED BY <2>2, UplinkIdle DEF Local!Quiet, Net!Quiet, Net!NoFrame
<1>2. CASE rfBuffer # << >>
  <2>1. PICK d \in Kept : rfBuffer = Framed(d)
    BY <1>2 DEF IInv
  <2> DEFINE n == Local!SampleCount(d)
             samples == Local!Samples(SubSeq(d, 4, Len(d)), n)
             audio == AudioOf(d)
  <2>2. Uplinked = IF Local!Tagged(d, Local!FMD) THEN audio ELSE << >>
    BY <2>1, UplinkedIs
  <2>3. rfBuffer' = << >> => Uplinked' = << >>
    BY DEF Uplinked
  <2>4. CASE /\ rfBuffer' = << >> /\ Local!Tagged(d, Local!FMD)
             /\ n \in 1 .. FrameLength /\ Net!WriteData(samples)
    <3>1. n \in Nat /\ audio \in Seq(Int) /\ Len(audio) = n
      BY <2>4, RecordAudio
    <3>2. audio = Local!EncodedAll(samples)
      BY DEF AudioOf
    <3> HIDE DEF n, samples, audio
    <3>3. SamplesOf(netSent)' = audio
      BY <2>4, <3>2, SameConversion DEF Net!WriteData, Net!Frame, SamplesOf
    <3>4. SubSeq(audio, 1, n) = audio /\ SubSeq(audio, n + 1, Len(audio)) = << >>
          /\ n \in 1 .. Len(audio)
      BY <2>4, <3>1
    <3>5. UplinkPipe!Deliver(n)
      BY <2>2, <2>3, <2>4, <3>3, <3>4 DEF UplinkPipe!Deliver
    <3> QED BY <2>2, <2>4, <3>4, <3>5 DEF UplinkStep, UplinkPipe!PipeNext
  <2>5. CASE /\ rfBuffer' = << >> /\ Net!Quiet
             /\ ~Local!Tagged(d, Local!FMD) \/ n = 0
    <3>1. Uplinked = << >>
      BY <2>2, <2>5, RecordAudio
    <3>2. SamplesOf(netSent)' = << >>
      BY <2>5 DEF Net!Quiet, Net!NoFrame, SamplesOf
    <3> QED BY <2>3, <2>5, <3>1, <3>2 DEF UplinkStep, UplinkPipe!PipeNext, UplinkPipe!Idle
  <2>6. CASE rfBuffer' = rfBuffer /\ Net!Quiet
    BY <2>6, UplinkIdle DEF Net!Quiet, Net!NoFrame
  <2> QED BY <2>1, <2>4, <2>5, <2>6, DispatchCases
<1> QED BY <1>1, <1>2

\* From the repeater to the network nothing is lost, repeated or reordered,
\* for as long as the program lives: a record that a frame does not hold ends
\* what can be said of it.
THEOREM UplinkRefinement == Spec => UplinkInOrder
<1>1. Init => UplinkPipe!PipeInit
  BY DEF Init, Local!Init, Net!Init, Net!NoFrame, UplinkPipe!PipeInit, Uplinked, SamplesOf
<1>2. IInv /\ [Next]_vars => [UplinkPipe!PipeNext]_UplinkPipe!pipeVars
  <2> SUFFICES ASSUME IInv, [Next]_vars PROVE UplinkStep
    BY DEF UplinkStep
  <2>1. CASE Dispatch
    BY <2>1, UplinkDelivers
  <2>2. CASE ClockLocal
    BY <2>2, UplinkAccepts
  <2>3. CASE TestKilled
    BY <2>3, UplinkIdle DEF TestKilled, Local!Quiet, Net!Quiet, Net!NoFrame
  <2>4. CASE Relay
    <3>1. rfBuffer' = rfBuffer /\ netSent' = << >>
      BY <2>4 DEF Relay, Local!WriteData, Local!Quiet, Net!ReadData, Net!NoFrame
    <3> QED BY <3>1, UplinkIdle
  <2>5. CASE ClockNet
    BY <2>5, UplinkIdle DEF ClockNet, Local!Quiet, Net!Clock, Net!NoFrame
  <2>6. CASE Signal \/ UNCHANGED vars
    <3>1. rfBuffer' = rfBuffer /\ netSent' = netSent
      BY <2>6 DEF Signal, vars
    <3>2. Uplinked' = Uplinked /\ SamplesOf(netSent)' = SamplesOf(netSent)
      BY <3>1 DEF Uplinked, SamplesOf
    <3> QED BY <3>2 DEF UplinkStep, UplinkPipe!pipeVars
  <2> QED BY <2>1, <2>2, <2>3, <2>4, <2>5, <2>6 DEF Next, Step, Ended
<1> QED BY <1>1, <1>2, Invariant, PTL DEF Spec, UplinkInOrder, UplinkPipe!PipeSpec

-----------------------------------------------------------------------------
(***************************************************************************)
(* From the network to the repeater                                        *)
(***************************************************************************)
\* The ring buffer of the network's side holds whole samples.
WholeSamples == IInv /\ \E m \in Nat : Len(netBuffer) = 2 * m

\* The audio of two chunks of whole samples is the audio of both, one after
\* the other.
LEMMA HeardConcat ==
  ASSUME NEW b \in Seq(Bytes), NEW c \in Seq(Bytes), NEW m \in Nat, NEW k \in Nat,
         Len(b) = 2 * m, Len(c) = 2 * k
  PROVE  Heard(b \o c, m + k) = Heard(b, m) \o Heard(c, k)
<1>1. /\ b \o c \in Seq(Bytes) /\ Len(b \o c) = 2 * m + 2 * k
      /\ \A i \in 1 .. 2 * m + 2 * k :
           (b \o c)[i] = IF i <= 2 * m THEN b[i] ELSE c[i - 2 * m]
  <2>1. /\ b \o c \in Seq(Bytes) /\ Len(b \o c) = Len(b) + Len(c)
        /\ \A i \in 1 .. Len(b) + Len(c) :
             (b \o c)[i] = IF i <= Len(b) THEN b[i] ELSE c[i - Len(b)]
    BY ConcatProperties
  <2> QED BY <2>1
<1> DEFINE whole == Heard(b \o c, m + k)
           first == Heard(b, m)
           second == Heard(c, k)
           value(q, i) == Local!Encoded(Local!Sample(q[2 * i - 1], q[2 * i]))
<1>2. /\ whole \in Seq(Int) /\ Len(whole) = m + k
      /\ \A i \in 1 .. m + k : whole[i] = value(b \o c, i)
  <2>1. 2 * (m + k) <= Len(b \o c) /\ m + k \in Nat
    BY <1>1
  <2> QED BY <1>1, <2>1, HeardSeq
<1>3. /\ first \in Seq(Int) /\ Len(first) = m
      /\ \A i \in 1 .. m : first[i] = value(b, i)
  <2>1. 2 * m <= Len(b)
    OBVIOUS
  <2> QED BY <2>1, HeardSeq
<1>4. /\ second \in Seq(Int) /\ Len(second) = k
      /\ \A i \in 1 .. k : second[i] = value(c, i)
  <2>1. 2 * k <= Len(c)
    OBVIOUS
  <2> QED BY <2>1, HeardSeq
<1> HIDE DEF whole, first, second
<1>5. /\ first \o second \in Seq(Int) /\ Len(first \o second) = m + k
      /\ \A i \in 1 .. m + k :
           (first \o second)[i] = IF i <= m THEN first[i] ELSE second[i - m]
  BY <1>3, <1>4, ConcatProperties
<1>6. ASSUME NEW i \in 1 .. m + k PROVE whole[i] = (first \o second)[i]
  <2>1. CASE i <= m
    <3>1. (b \o c)[2 * i - 1] = b[2 * i - 1] /\ (b \o c)[2 * i] = b[2 * i]
      BY <1>1, <2>1
    <3>2. i \in 1 .. m
      BY <2>1
    <3>3. whole[i] = value(b, i)
      BY <1>2, <3>1
    <3>4. (first \o second)[i] = first[i]
      BY <1>5, <2>1
    <3> HIDE DEF value
    <3> QED BY <1>3, <3>2, <3>3, <3>4
  <2>2. CASE ~(i <= m)
    <3>1. /\ i - m \in 1 .. k
          /\ 2 * i - 1 \in 1 .. 2 * m + 2 * k /\ ~(2 * i - 1 <= 2 * m)
          /\ (2 * i - 1) - 2 * m = 2 * (i - m) - 1
          /\ 2 * i \in 1 .. 2 * m + 2 * k /\ ~(2 * i <= 2 * m)
          /\ 2 * i - 2 * m = 2 * (i - m)
      BY <2>2
    <3>2. (b \o c)[2 * i - 1] = c[2 * (i - m) - 1] /\ (b \o c)[2 * i] = c[2 * (i - m)]
      BY <1>1, <3>1
    <3>3. whole[i] = value(c, i - m)
      BY <1>2, <3>2
    <3>4. (first \o second)[i] = second[i - m]
      BY <1>5, <2>2
    <3> HIDE DEF value
    <3> QED BY <1>4, <3>1, <3>3, <3>4
  <2> QED BY <2>1, <2>2
<1>7. whole = first \o second
  BY <1>2, <1>5, <1>6, SeqEqual
<1> QED BY <1>7 DEF whole, first, second

\* Taking the bytes of n samples takes n samples of the audio.
LEMMA HeardTake ==
  ASSUME NEW b \in Seq(Bytes), NEW m \in Nat, Len(b) = 2 * m, NEW n \in 0 .. m
  PROVE  /\ SubSeq(b, 1, 2 * n) \in Seq(Bytes)
         /\ SubSeq(b, 2 * n + 1, 2 * m) \in Seq(Bytes)
         /\ Len(SubSeq(b, 2 * n + 1, 2 * m)) = 2 * (m - n)
         /\ Heard(SubSeq(b, 1, 2 * n), n) = SubSeq(Heard(b, m), 1, n)
         /\ Heard(SubSeq(b, 2 * n + 1, 2 * m), m - n) = SubSeq(Heard(b, m), n + 1, m)
<1> DEFINE old == SubSeq(b, 1, 2 * n)
           rest == SubSeq(b, 2 * n + 1, 2 * m)
           value(q, i) == Local!Encoded(Local!Sample(q[2 * i - 1], q[2 * i]))
<1>1. \A i \in 1 .. 2 * m : b[i] \in Bytes
  BY ElementOfSeq
<1>2. old \in Seq(Bytes) /\ Len(old) = 2 * n /\ \A i \in 1 .. 2 * n : old[i] = b[i]
  <2>1. \A i \in 1 .. 2 * n : b[i] \in Bytes
    BY <1>1
  <2>2. /\ old \in Seq(Bytes) /\ Len(old) = IF 1 <= 2 * n THEN 2 * n - 1 + 1 ELSE 0
        /\ \A i \in 1 .. 2 * n - 1 + 1 : old[i] = b[1 + i - 1]
    BY <2>1, SubSeqProperties
  <2> HIDE DEF old
  <2> QED BY <2>2
<1>3. /\ rest \in Seq(Bytes) /\ Len(rest) = 2 * (m - n)
      /\ \A i \in 1 .. 2 * (m - n) : rest[i] = b[2 * n + i]
  <2>1. \A i \in 2 * n + 1 .. 2 * m : b[i] \in Bytes
    BY <1>1
  <2>2. /\ rest \in Seq(Bytes)
        /\ Len(rest) = IF 2 * n + 1 <= 2 * m THEN 2 * m - (2 * n + 1) + 1 ELSE 0
        /\ \A i \in 1 .. 2 * m - (2 * n + 1) + 1 : rest[i] = b[2 * n + 1 + i - 1]
    BY <2>1, SubSeqProperties
  <2> HIDE DEF rest
  <2>3. Len(rest) = 2 * (m - n)
    BY <2>2
  <2>4. ASSUME NEW i \in 1 .. 2 * (m - n) PROVE rest[i] = b[2 * n + i]
    <3>1. i \in 1 .. 2 * m - (2 * n + 1) + 1 /\ 2 * n + 1 + i - 1 = 2 * n + i
      OBVIOUS
    <3> QED BY <2>2, <3>1
  <2> QED BY <2>2, <2>3, <2>4
<1> DEFINE all == Heard(b, m)
           said == Heard(old, n)
           left == Heard(rest, m - n)
<1>4. all \in Seq(Int) /\ Len(all) = m /\ \A i \in 1 .. m : all[i] = value(b, i)
  <2>1. 2 * m <= Len(b)
    OBVIOUS
  <2> QED BY <2>1, HeardSeq
<1> HIDE DEF old, rest
<1>5. said \in Seq(Int) /\ Len(said) = n /\ \A i \in 1 .. n : said[i] = value(old, i)
  <2>1. 2 * n <= Len(old) /\ n \in Nat
    BY <1>2
  <2> QED BY <1>2, <2>1, HeardSeq
<1>6. /\ left \in Seq(Int) /\ Len(left) = m - n
      /\ \A i \in 1 .. m - n : left[i] = value(rest, i)
  <2>1. m - n \in Nat /\ 2 * (m - n) <= Len(rest)
    BY <1>3
  <2> QED BY <1>3, <2>1, HeardSeq
<1> HIDE DEF all, said, left
<1>7. \A i \in 1 .. m : all[i] \in Int
  BY <1>4, ElementOfSeq
<1>8. said = SubSeq(all, 1, n)
  <2> DEFINE part == SubSeq(all, 1, n)
  <2>1. \A i \in 1 .. n : all[i] \in Int
    BY <1>7
  <2>2. part \in Seq(Int) /\ Len(part) = (IF 1 <= n THEN n - 1 + 1 ELSE 0)
        /\ \A i \in 1 .. n - 1 + 1 : part[i] = all[1 + i - 1]
    BY <2>1, SubSeqProperties
  <2> HIDE DEF part
  <2>3. Len(part) = n /\ \A i \in 1 .. n : part[i] = all[i]
    BY <2>2
  <2>4. ASSUME NEW i \in 1 .. n PROVE said[i] = part[i]
    <3>1. old[2 * i - 1] = b[2 * i - 1] /\ old[2 * i] = b[2 * i]
      BY <1>2
    <3>2. said[i] = value(b, i)
      BY <1>5, <3>1
    <3>3. i \in 1 .. m
      OBVIOUS
    <3> HIDE DEF value
    <3> QED BY <1>4, <2>3, <3>2, <3>3
  <2>5. said = part
    BY <1>5, <2>2, <2>3, <2>4, SeqEqual
  <2> QED BY <2>5 DEF part
<1>9. left = SubSeq(all, n + 1, m)
  <2> DEFINE part == SubSeq(all, n + 1, m)
  <2>1. \A i \in n + 1 .. m : all[i] \in Int
    BY <1>7
  <2>2. part \in Seq(Int) /\ Len(part) = (IF n + 1 <= m THEN m - (n + 1) + 1 ELSE 0)
        /\ \A i \in 1 .. m - (n + 1) + 1 : part[i] = all[n + 1 + i - 1]
    BY <2>1, SubSeqProperties
  <2> HIDE DEF part
  <2>3. Len(part) = m - n /\ \A i \in 1 .. m - n : part[i] = all[n + i]
    BY <2>2
  <2>4. ASSUME NEW i \in 1 .. m - n PROVE left[i] = part[i]
    <3>1. /\ 2 * i - 1 \in 1 .. 2 * (m - n) /\ 2 * i \in 1 .. 2 * (m - n)
          /\ 2 * n + (2 * i - 1) = 2 * (n + i) - 1 /\ 2 * n + 2 * i = 2 * (n + i)
      OBVIOUS
    <3>2. rest[2 * i - 1] = b[2 * (n + i) - 1] /\ rest[2 * i] = b[2 * (n + i)]
      BY <1>3, <3>1
    <3>3. left[i] = value(b, n + i)
      BY <1>6, <3>2
    <3>4. n + i \in 1 .. m
      OBVIOUS
    <3> HIDE DEF value
    <3> QED BY <1>4, <2>3, <3>3, <3>4
  <2>5. left = part
    BY <1>6, <2>2, <2>3, <2>4, SeqEqual
  <2> QED BY <2>5 DEF part
<1> QED BY <1>2, <1>3, <1>8, <1>9 DEF old, rest, all, said, left

\* Half of a length of whole samples.
LEMMA Halved ==
  ASSUME NEW len \in Nat
  PROVE  /\ len % 2 = 0 => \E m \in Nat : len = 2 * m
         /\ \A m \in Nat : len = 2 * m => len \div 2 = m
<1>1. len % 2 = 0 => len = 2 * (len \div 2) /\ len \div 2 \in Nat
  OBVIOUS
<1>2. \A m \in Nat : len = 2 * m => len \div 2 = m
  OBVIOUS
<1> QED BY <1>1, <1>2

LEMMA DownlinkedIs ==
  ASSUME NEW m \in Nat, Len(netBuffer) = 2 * m
  PROVE  Downlinked = Heard(netBuffer, m)
<1>1. Len(netBuffer) \div 2 = m
  BY Halved
<1> QED BY <1>1, SameConversion DEF Downlinked, Heard

LEMMA DownlinkedIsNext ==
  ASSUME NEW m \in Nat, Len(netBuffer') = 2 * m
  PROVE  Downlinked' = Heard(netBuffer', m)
<1>1. Len(netBuffer') \div 2 = m
  BY Halved
<1>2. Downlinked' = Net!EncodedAll(Net!Samples(netBuffer', Len(netBuffer') \div 2))
  BY DEF Downlinked
<1> QED BY <1>1, <1>2, SameConversion DEF Heard

\* What a step of the pipe may be, the loss by an overflow included.
DownlinkStep ==
  \/ DownlinkPipe!PipeNext
  \/ \E packet \in { Net!EncodedAll(Net!Samples(p, Len(p) \div 2)) : p \in FromPeer } :
       DownlinkPipe!Lose(packet)
  \/ UNCHANGED DownlinkPipe!pipeVars

LEMMA DownlinkIdle ==
  ASSUME netBuffer' = netBuffer, SamplesOf(rfSent)' = << >>
  PROVE  DownlinkStep
<1>1. Downlinked' = Downlinked
  BY DEF Downlinked
<1> QED BY <1>1 DEF DownlinkStep, DownlinkPipe!PipeNext, DownlinkPipe!Idle

\* A frame of the peer is put behind what is waiting, or clears it.
LEMMA DownlinkAccepts ==
  ASSUME WholeSamples, ClockNet
  PROVE  DownlinkStep /\ \E m \in Nat : Len(netBuffer') = 2 * m
<1>1. PICK m \in Nat : Len(netBuffer) = 2 * m
  BY DEF WholeSamples
<1>2. netBuffer \in Seq(Bytes)
  BY DEF WholeSamples, IInv, TypeOK, Bytes
<1>3. SamplesOf(rfSent)' = << >>
  BY DEF ClockNet, Local!Quiet, Local!NoFrame, SamplesOf
<1>4. PICK arrival \in PeerArrivals : netBuffer' = Net!WithArrival(netBuffer, arrival)
  BY DEF ClockNet, Net!Clock
<1>5. CASE ~(arrival.from = "peer" /\ arrival.kind = "audio")
  <2>1. netBuffer' = netBuffer
    BY <1>4, <1>5 DEF Net!WithArrival
  <2> QED BY <1>1, <1>3, <2>1, DownlinkIdle
<1>6. CASE arrival.from = "peer" /\ arrival.kind = "audio"
  <2> DEFINE p == arrival.payload
             packet == Net!EncodedAll(Net!Samples(p, Len(p) \div 2))
  <2>1. p \in FromPeer
    BY <1>6 DEF PeerArrivals, Net!NoArrival
  <2>2. p \in Seq(Bytes) /\ Len(p) \in Nat /\ Len(p) % 2 = 0
    <3>1. p \in Seq(Bytes)
      BY <2>1, ArrivalAssumption DEF Bytes
    <3>2. Len(p) % 2 = 0
      BY <2>1, ArrivalAssumption
    <3>3. Len(p) \in Nat
      BY <3>1, LenProperties
    <3> QED BY <3>1, <3>2, <3>3
  <2>3. netBuffer' = Net!Added(netBuffer, p)
    BY <1>4, <1>6 DEF Net!WithArrival
  <2>4. packet \in { Net!EncodedAll(Net!Samples(q, Len(q) \div 2)) : q \in FromPeer }
    BY <2>1
  <2>5. PICK k \in Nat : Len(p) = 2 * k
    BY <2>2, Halved
  <2>6. packet = Heard(p, k)
    <3>1. Len(p) \div 2 = k
      BY <2>2, <2>5, Halved
    <3> QED BY <3>1, SameConversion DEF Heard
  <2>7. Downlinked = Heard(netBuffer, m)
    BY <1>1, DownlinkedIs
  <2> HIDE DEF p, packet
  <2>8. CASE Net!Fits(netBuffer, Len(p))
    <3>1. netBuffer' = netBuffer \o p
      BY <2>3, <2>8 DEF Net!Added
    <3>2. Len(netBuffer') = 2 * (m + k) /\ m + k \in Nat
      <4>1. Len(netBuffer \o p) = Len(netBuffer) + Len(p)
        BY <1>2, <2>2, ConcatProperties
      <4>2. Len(netBuffer') = 2 * m + 2 * k
        BY <1>1, <2>5, <3>1, <4>1
      <4> QED BY <4>2
    <3>3. Downlinked' = Heard(netBuffer', m + k)
      BY <3>2, DownlinkedIsNext
    <3>4. Heard(netBuffer \o p, m + k) = Heard(netBuffer, m) \o Heard(p, k)
      BY <1>1, <1>2, <2>2, <2>5, HeardConcat
    <3>5. Downlinked' = Downlinked \o packet
      BY <2>6, <2>7, <3>1, <3>3, <3>4
    <3>6. DownlinkPipe!Accept(packet)
      BY <1>3, <3>5 DEF DownlinkPipe!Accept
    <3>7. DownlinkPipe!PipeNext
      BY <2>4, <3>6 DEF DownlinkPipe!PipeNext
    <3> QED BY <3>2, <3>7 DEF DownlinkStep
  <2>9. CASE ~Net!Fits(netBuffer, Len(p))
    <3>1. netBuffer' = << >>
      BY <2>3, <2>9 DEF Net!Added
    <3>2. Len(netBuffer') = 2 * 0 /\ 0 \in Nat
      BY <3>1
    <3>3. Downlinked' = Heard(netBuffer', 0)
      BY <3>2, DownlinkedIsNext
    <3>4. << >> \in Seq(Bytes) /\ 2 * 0 <= Len(<< >>)
      BY EmptySeq
    <3>5. Heard(<< >>, 0) \in Seq(Int) /\ Len(Heard(<< >>, 0)) = 0
      BY <3>4, HeardSeq
    <3>6. Heard(<< >>, 0) = << >>
      BY <3>5, EmptySeq
    <3>7. Len(Downlinked) = m /\ Len(packet) = k
      <4>1. 2 * m <= Len(netBuffer) /\ 2 * k <= Len(p)
        BY <1>1, <2>5
      <4> QED BY <1>2, <2>2, <2>6, <2>7, <4>1, HeardSeq
    <3>8. m + k >= RingLength \div 2
      <4>1. 2 * k >= RingLength - 2 * m
        BY <1>1, <2>5, <2>9, LengthAssumption DEF Net!Fits
      <4> QED BY <4>1, LengthAssumption
    <3>9. DownlinkPipe!Lose(packet)
      BY <1>3, <3>1, <3>3, <3>6, <3>7, <3>8 DEF DownlinkPipe!Lose
    <3> QED BY <2>4, <3>2, <3>9 DEF DownlinkStep
  <2> QED BY <2>8, <2>9
<1> QED BY <1>5, <1>6

\* The loop takes as many samples as it passes on in one turn.
LEMMA DownlinkDelivers ==
  ASSUME WholeSamples, Relay
  PROVE  DownlinkStep /\ \E m \in Nat : Len(netBuffer') = 2 * m
<1>1. PICK m \in Nat : Len(netBuffer) = 2 * m
  BY DEF WholeSamples
<1>2. netBuffer \in Seq(Bytes)
  BY DEF WholeSamples, IInv, TypeOK, Bytes
<1> DEFINE n == Net!ReadCount(BlockLength)
<1>3. n \in 0 .. m
  <2>1. Len(netBuffer) \div 2 = m
    BY <1>1, Halved
  <2> QED BY <2>1, LengthAssumption DEF Net!ReadCount
<1>4. netBuffer' = SubSeq(netBuffer, 2 * n + 1, Len(netBuffer))
  BY DEF Relay, Net!ReadData, Net!Without
<1>5. n > 0 => SamplesOf(rfSent)' = Net!EncodedAll(Net!Samples(SubSeq(netBuffer, 1, 2 * n), n))
  <2>1. n > 0 => Local!WriteData(Net!DataRead(BlockLength))
    BY DEF Relay
  <2>2. Net!DataRead(BlockLength) = Net!Samples(SubSeq(netBuffer, 1, 2 * n), n)
    BY DEF Net!DataRead, Net!Oldest
  <2> QED BY <2>1, <2>2, SameConversion DEF Local!WriteData, Local!DataFrame, SamplesOf
<1>6. n = 0 => SamplesOf(rfSent)' = << >>
  <2>1. n = 0 => Local!Quiet
    BY DEF Relay
  <2> QED BY <2>1 DEF Local!Quiet, Local!NoFrame, SamplesOf
<1> HIDE DEF n
<1>7. /\ netBuffer' = SubSeq(netBuffer, 2 * n + 1, 2 * m)
      /\ Len(netBuffer') = 2 * (m - n) /\ m - n \in Nat
      /\ Heard(SubSeq(netBuffer, 1, 2 * n), n) = SubSeq(Heard(netBuffer, m), 1, n)
      /\ Heard(netBuffer', m - n) = SubSeq(Heard(netBuffer, m), n + 1, m)
  <2>1. netBuffer' = SubSeq(netBuffer, 2 * n + 1, 2 * m)
    BY <1>1, <1>4
  <2>2. m - n \in Nat
    BY <1>3
  <2>3. /\ Len(SubSeq(netBuffer, 2 * n + 1, 2 * m)) = 2 * (m - n)
        /\ Heard(SubSeq(netBuffer, 1, 2 * n), n) = SubSeq(Heard(netBuffer, m), 1, n)
        /\ Heard(SubSeq(netBuffer, 2 * n + 1, 2 * m), m - n)
             = SubSeq(Heard(netBuffer, m), n + 1, m)
    BY <1>1, <1>2, <1>3, HeardTake
  <2> QED BY <2>1, <2>2, <2>3
<1>8. Downlinked = Heard(netBuffer, m) /\ Downlinked' = Heard(netBuffer', m - n)
  BY <1>1, <1>7, DownlinkedIs, DownlinkedIsNext
<1>9. CASE n = 0
  <2>1. netBuffer' = netBuffer
    BY <1>1, <1>2, <1>7, <1>9
  <2> QED BY <1>1, <1>6, <1>9, <2>1, DownlinkIdle
<1>10. CASE n # 0
  <2>1. n \in 1 .. m /\ n > 0
    BY <1>3, <1>10
  <2>2. Len(Downlinked) = m
    <3>1. 2 * m <= Len(netBuffer)
      BY <1>1
    <3> QED BY <1>2, <1>8, <3>1, HeardSeq
  <2>3. SamplesOf(rfSent)' = SubSeq(Downlinked, 1, n)
    BY <1>5, <1>7, <1>8, <2>1, SameConversion DEF Heard
  <2>4. Downlinked' = SubSeq(Downlinked, n + 1, Len(Downlinked))
    BY <1>7, <1>8, <2>2
  <2>5. DownlinkPipe!Deliver(n) /\ n \in 1 .. Len(Downlinked)
    BY <2>1, <2>2, <2>3, <2>4 DEF DownlinkPipe!Deliver
  <2> QED BY <1>7, <2>5 DEF DownlinkStep, DownlinkPipe!PipeNext
<1> QED BY <1>3, <1>9, <1>10

\* From the network to the repeater the audio is whole and in order; an
\* overflow loses all that was waiting, and nothing else does.
THEOREM DownlinkRefinement == Spec => DownlinkInOrder
<1>1. Init => DownlinkPipe!PipeInit /\ WholeSamples
  <2> SUFFICES ASSUME Init PROVE DownlinkPipe!PipeInit /\ WholeSamples
    OBVIOUS
  <2>1. netBuffer = << >> /\ SamplesOf(rfSent) = << >>
    BY DEF Init, Local!Init, Net!Init, Local!NoFrame, SamplesOf
  <2>2. Len(netBuffer) = 2 * 0 /\ 0 \in Nat
    BY <2>1
  <2>3. Downlinked = Heard(<< >>, 0)
    BY <2>1, <2>2, DownlinkedIs
  <2>4. << >> \in Seq(Bytes) /\ 2 * 0 <= Len(<< >>)
    BY EmptySeq
  <2>5. Heard(<< >>, 0) \in Seq(Int) /\ Len(Heard(<< >>, 0)) = 0
    BY <2>4, HeardSeq
  <2>6. Downlinked = << >>
    BY <2>3, <2>5, EmptySeq
  <2> QED BY <2>1, <2>2, <2>6, InitInv DEF DownlinkPipe!PipeInit, WholeSamples
<1>2. WholeSamples /\ [Next]_vars => DownlinkStep /\ WholeSamples'
  <2> SUFFICES ASSUME WholeSamples, [Next]_vars PROVE DownlinkStep /\ WholeSamples'
    OBVIOUS
  <2>1. IInv'
    BY NextInv DEF WholeSamples
  <2>2. CASE Relay
    BY <2>1, <2>2, DownlinkDelivers DEF WholeSamples
  <2>3. CASE ClockNet
    BY <2>1, <2>3, DownlinkAccepts DEF WholeSamples
  <2>4. ASSUME netBuffer' = netBuffer, SamplesOf(rfSent)' = << >>
        PROVE  DownlinkStep /\ WholeSamples'
    BY <2>1, <2>4, DownlinkIdle DEF WholeSamples
  <2>5. CASE TestKilled
    BY <2>4, <2>5 DEF TestKilled, Local!Quiet, Local!NoFrame, Net!Quiet, SamplesOf
  <2>6. CASE ClockLocal
    <3>1. netBuffer' = netBuffer /\ rfSent' \in {Local!NoFrame, Local!PingFrame}
      BY <2>6 DEF ClockLocal, Local!Clock, Local!ClockTimer, Net!Quiet
    <3>2. SamplesOf(rfSent)' = << >>
      BY <3>1 DEF Local!NoFrame, Local!PingFrame, SamplesOf
    <3> QED BY <2>4, <3>1, <3>2
  <2>7. CASE Dispatch
    <3>1. rfSent' = << >>
      BY <2>7 DEF Dispatch, DispatchStart, DispatchData, DispatchEnd, TakenUnlessUndefined,
                  Local!TakeRecord, Local!Quiet, Local!NoFrame
    <3>2. netBuffer' = netBuffer
      BY <2>7 DEF Dispatch, DispatchStart, DispatchData, DispatchEnd, Net!WriteStart,
                  Net!WriteData, Net!WriteEnd, Net!Quiet
    <3> QED BY <2>4, <3>1, <3>2 DEF SamplesOf
  <2>8. CASE Signal \/ UNCHANGED vars
    <3>1. netBuffer' = netBuffer /\ rfSent' = rfSent
      BY <2>8 DEF Signal, vars
    <3>2. Downlinked' = Downlinked /\ SamplesOf(rfSent)' = SamplesOf(rfSent)
      BY <3>1 DEF Downlinked, SamplesOf
    <3> QED BY <2>1, <3>1, <3>2 DEF DownlinkStep, DownlinkPipe!pipeVars, WholeSamples
  <2> QED BY <2>2, <2>3, <2>5, <2>6, <2>7, <2>8 DEF Next, Step, Ended
<1>3. DownlinkStep =>
        [DownlinkPipe!PipeNext \/ \E packet \in
           { Net!EncodedAll(Net!Samples(p, Len(p) \div 2)) : p \in FromPeer } :
             DownlinkPipe!Lose(packet)]_DownlinkPipe!pipeVars
  BY DEF DownlinkStep
<1> QED BY <1>1, <1>2, <1>3, PTL DEF Spec, DownlinkInOrder, DownlinkPipe!LossySpec
=============================================================================
