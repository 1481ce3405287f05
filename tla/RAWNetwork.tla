----------------------------- MODULE RAWNetwork -----------------------------
(***************************************************************************)
(* CRAWNetwork (RAWNetwork.cpp): audio as 16-bit samples without frames,   *)
(* converted from and to another sample rate by an external library when   *)
(* the program is built with it, and a file that tells whether the         *)
(* repeater receives.  The main loop calls the functions, in any order.    *)
(*                                                                         *)
(* The converter leaves any samples at all in the array it is given.       *)
(***************************************************************************)
EXTENDS QueueOps, Audio

CONSTANTS SampleRates,      \* the rates that the .ini file may give
          HasSrc,           \* built with HAS_SRC
          HasSquelch,       \* m_squelchFile is not empty
          ArrayLength,      \* the samples of in and out: 1000U
          BlockLength,      \* the samples that the main loop asks for
          FromPeer,         \* the datagrams that the peer sends
          FromLoop,         \* the samples that the main loop passes on
          Converter         \* what the converter can make of a sample

ASSUME RawAssumption ==
  /\ SampleRates \subseteq Nat \ {0} /\ Length \in Nat /\ BlockLength \in Nat \ {0}
  /\ HasSrc \in BOOLEAN /\ HasSquelch \in BOOLEAN
  /\ FromLoop \subseteq Seq(Int) /\ Converter \subseteq Int
  /\ \A samples \in FromLoop : Len(samples) \in 0 .. BlockLength
  /\ FromPeer \subseteq Seq(0 .. 255) /\ \A d \in FromPeer : Len(d) > 0

\* The arrays of 1000 samples have room for two of the main loop's blocks, and
\* for as much as the ring buffer (RAWNetwork.cpp:30, FMGateway.cpp:66).
ASSUME ArrayAssumption ==
  ArrayLength \in Nat /\ Length = 2 * ArrayLength /\ 2 * BlockLength <= ArrayLength

\* The products of OutLength do not wrap, so that the rates are below 4 MHz.
ASSUME ProductAssumption == \A rate \in SampleRates : BlockLength * rate <= 2147483647

VARIABLES sampleRate,   \* m_sampleRate, which no function changes
          phase,        \* what the owner of the object has done with it
          squelch,      \* the last character in the file, if it is open
          buffer,       \* the contents of m_buffer
          sent,         \* the samples that this call wrote to the socket
          read,         \* the bytes that this call took out of the buffer
          heard         \* the samples that this call returned

vars == << sampleRate, phase, squelch, buffer, sent, read, heard >>

Converts == sampleRate # 8000

Convertible(n) == { c \in [1 .. n -> Converter] : TRUE }

-----------------------------------------------------------------------------
Init ==
  /\ sampleRate \in SampleRates /\ phase = "new" /\ squelch = "no file" /\ buffer = << >>
  /\ sent = << >> /\ read = << >> /\ heard = << >>

Silent == sent' = << >> /\ read' = << >> /\ heard' = << >> /\ UNCHANGED sampleRate

Unread == read' = << >> /\ heard' = << >> /\ UNCHANGED << sampleRate, buffer >>

\* open() opens the file before the socket.
Open ==
  /\ phase = "new"
  /\ \/ phase' = "failed" /\ squelch' = "no file"
     \/ phase' \in {"failed", "open"} /\ squelch' = IF HasSquelch THEN "empty" ELSE "no file"
  /\ Silent /\ UNCHANGED buffer

Puts(character) == squelch' = IF squelch = "no file" THEN squelch ELSE character

WriteStart ==
  /\ phase = "open"
  /\ Puts("O")
  /\ Silent /\ UNCHANGED << phase, buffer >>

WriteEnd ==
  /\ phase = "open"
  /\ Puts("Z")
  /\ Silent /\ UNCHANGED << phase, buffer >>

OutLength(nIn) == (nIn * sampleRate) \div 8000

\* m_socket.write() asserts that there is something to write.
Writes(samples) ==
  IF samples = << >> THEN phase' = "aborted" /\ sent' = << >>
  ELSE sent' = samples /\ UNCHANGED phase

Fails(how) == phase' = how /\ sent' = << >>

\* The converter writes into out, and the loop after it into buffer, as many
\* samples as were asked for, whether there is room or not.
WriteConverted(nOut) ==
  \/ sent' = << >> /\ UNCHANGED phase                      \* src_process() fails
  \/ nOut > ArrayLength /\ Fails("undefined")
  \/ nOut <= ArrayLength /\ \E c \in Convertible(nOut) : Writes(EncodedAll(c))

\* The first assertion is that there are samples.
WriteData(samples) ==
  /\ phase = "open"
  /\ IF samples = << >> \/ (Converts /\ ~HasSrc) THEN Fails("aborted")
     ELSE IF Converts THEN WriteConverted(OutLength(Len(samples)))
     ELSE Writes(EncodedAll(samples))
  /\ Unread /\ UNCHANGED squelch

\* clock() looks at the address of the sender, not at its port.
Clock(sender, datagram) ==
  /\ phase = "open"
  /\ buffer' = IF sender = "peer" THEN Added(buffer, datagram) ELSE buffer
  /\ Silent /\ UNCHANGED << phase, squelch >>

Held == Len(buffer) \div 2

Least(m, n) == IF m < n THEN m ELSE n

\* The samples that readData() takes, never more than the ring buffer holds, and those that it returns for them.
InLength == Least(Held, IF Converts THEN OutLength(BlockLength) ELSE BlockLength)

\* Variant of HeardLength that returns what was asked for.
HeardLengthAsked == IF Converts THEN BlockLength ELSE InLength

\* Variant of HeardLength with the rates the wrong way round.
HeardLengthSwapped == IF Converts THEN (InLength * sampleRate) \div 8000 ELSE InLength

HeardLength ==
  IF ~Converts THEN InLength
  ELSE IF Held < OutLength(BlockLength) THEN (InLength * 8000) \div sampleRate
  ELSE BlockLength

Take ==
  /\ read' = Oldest(buffer, 2 * InLength)
  /\ buffer' = Without(buffer, 2 * InLength)

\* The samples are gone also when src_process() fails.
ReadData ==
  /\ phase = "open"
  /\ IF Held = 0 THEN Silent /\ UNCHANGED << phase, buffer >>
     ELSE IF Converts /\ ~HasSrc THEN phase' = "aborted" /\ Silent /\ UNCHANGED buffer
     ELSE /\ Take
          /\ IF ~Converts THEN heard' = Samples(read', InLength)
             ELSE heard' = << >> \/ heard' \in Convertible(HeardLength)
          /\ sent' = << >> /\ UNCHANGED << sampleRate, phase >>
  /\ UNCHANGED squelch

Close ==
  /\ phase = "open" /\ phase' = "closed"
  /\ squelch' = "no file"
  /\ Silent /\ UNCHANGED buffer

\* An object is not used again after it was closed, an assertion of its failed
\* or it wrote beyond an array.
Finished == phase \in {"closed", "failed", "aborted", "undefined"} /\ UNCHANGED vars

Next ==
  \/ Open \/ WriteStart \/ WriteEnd \/ ReadData \/ Close \/ Finished
  \/ \E samples \in FromLoop : WriteData(samples)
  \/ \E sender \in {"peer", "stranger"}, d \in FromPeer : Clock(sender, d)

Spec == Init /\ [][Next]_vars
-----------------------------------------------------------------------------
(***************************************************************************)
(* Properties                                                              *)
(***************************************************************************)
\* The bytes of the peer's datagrams, which have no frames, leave in their
\* order, however they were cut, and an overflow loses all that are waiting
\* and none that come later (RAWNetwork.cpp:186, 207-208, 237-238).
Bytes ==
  INSTANCE AudioPipe WITH
    Packets <- FromPeer, Capacity <- Length, pipe <- buffer, said <- read

BytesInOrder == Bytes!LossySpec

\* writeData() writes beyond its arrays at no rate up to twice the repeater's,
\* readData() at none, and no more is returned than the main loop has room for
\* (RAWNetwork.cpp:116-136, 200-214).
WithinArrays ==
  /\ phase = "undefined" => sampleRate > 2 * 8000
  /\ Len(sent) <= ArrayLength /\ Len(read) <= 2 * ArrayLength
  /\ Len(heard) <= BlockLength

\* Audio is neither stretched nor squeezed: the samples returned are worth as
\* much time as those taken, to less than a sample (RAWNetwork.cpp:201-206).
\* When the converter fails, those taken are lost.
Difference(m, n) == IF m < n THEN n - m ELSE m - n

KeepsPace ==
  heard # << >> =>
    Difference(Len(heard) * sampleRate, (Len(read) \div 2) * 8000)
      < IF sampleRate < 8000 THEN 8000 ELSE sampleRate
=============================================================================
