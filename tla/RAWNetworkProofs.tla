-------------------------- MODULE RAWNetworkProofs --------------------------
(***************************************************************************)
(* For every sample rate: CRAWNetwork writes beyond its arrays at no more  *)
(* than twice the repeater's rate, the conversion keeps pace to less than  *)
(* a sample, and the bytes of the peer leave in their order.  What the     *)
(* lengths need is that each of the two integer divisions, one for either  *)
(* direction, loses less than its divisor, and that the ring buffer holds  *)
(* fewer samples than the array that they are taken into.                  *)
(***************************************************************************)
EXTENDS RAWNetwork, SequenceTheorems, TLAPS

LEMMA Division ==
  ASSUME NEW a \in Nat, NEW b \in Nat \ {0}
  PROVE  /\ a \div b \in Nat
         /\ (a \div b) * b <= a /\ a < (a \div b) * b + b
OBVIOUS

LEMMA Product ==
  ASSUME NEW a \in Nat, NEW b \in Nat, NEW c \in Nat, a <= b
  PROVE  a * c <= b * c /\ a * c \in Nat /\ b * c \in Nat
OBVIOUS

LEMMA Cancel ==
  ASSUME NEW a \in Nat, NEW b \in Nat, NEW c \in Nat \ {0}, a * c < b * c + c
  PROVE  a <= b
OBVIOUS

\* The lengths of both directions.
LEMMA OutLengthBounds ==
  ASSUME NEW n \in Nat, n <= BlockLength, sampleRate \in SampleRates
  PROVE  /\ OutLength(n) \in Nat
         /\ OutLength(n) * 8000 <= n * sampleRate
         /\ n * sampleRate < OutLength(n) * 8000 + 8000
         /\ n * sampleRate <= BlockLength * sampleRate
<1> DEFINE a == n * sampleRate
<1>1. sampleRate \in Nat \ {0} /\ BlockLength \in Nat \ {0}
  BY RawAssumption
<1>2. a <= BlockLength * sampleRate /\ a \in Nat
  BY <1>1, Product
<1>3. OutLength(n) = a \div 8000
  BY DEF OutLength
<1> HIDE DEF a
<1>4. a \div 8000 \in Nat /\ (a \div 8000) * 8000 <= a /\ a < (a \div 8000) * 8000 + 8000
  BY <1>2
<1> QED BY <1>2, <1>3, <1>4 DEF a

\* Only a rate of more than twice the repeater's makes a block too long.
LEMMA TooLongBlock ==
  ASSUME NEW n \in Nat, n <= BlockLength, sampleRate \in SampleRates,
         OutLength(n) > ArrayLength
  PROVE  sampleRate > 2 * 8000
<1>1. sampleRate \in Nat /\ BlockLength \in Nat \ {0} /\ ArrayLength \in Nat
      /\ 2 * BlockLength <= ArrayLength
  BY RawAssumption, ArrayAssumption
<1> DEFINE m == OutLength(n)
           limit == BlockLength * sampleRate
<1>2. m \in Nat /\ limit \in Nat /\ m * 8000 <= limit /\ m > ArrayLength
  <2>1. limit \in Nat
    BY <1>1, Product
  <2>2. n * sampleRate \in Nat
    BY <1>1, Product
  <2> HIDE DEF limit
  <2> QED BY <2>1, <2>2, OutLengthBounds DEF limit
<1> HIDE DEF m
<1>3. 2 * BlockLength * 8000 < limit
  <2> HIDE DEF limit
  <2> QED BY <1>1, <1>2
<1>4. ASSUME sampleRate <= 16000
      PROVE  FALSE
  <2>1. sampleRate * BlockLength <= 16000 * BlockLength
    BY <1>1, <1>4, Product
  <2> QED BY <1>1, <1>3, <2>1
<1> QED BY <1>1, <1>4

\* What readData() takes out of the buffer and what it returns for it.
LEMMA ReadLengths ==
  ASSUME buffer \in Seq(0 .. 255), Len(buffer) <= Length, sampleRate \in SampleRates
  PROVE  /\ InLength \in Nat /\ InLength <= ArrayLength /\ 2 * InLength <= Len(buffer)
         /\ HeardLength \in Nat /\ HeardLength <= BlockLength
         /\ Difference(HeardLength * sampleRate, InLength * 8000)
              < IF sampleRate < 8000 THEN 8000 ELSE sampleRate
<1>1. /\ sampleRate \in Nat \ {0} /\ BlockLength \in Nat \ {0} /\ ArrayLength \in Nat
  BY RawAssumption, ArrayAssumption
<1>2. Held \in Nat /\ 2 * Held <= Len(buffer) /\ Held <= ArrayLength
  <2>1. Len(buffer) \in Nat /\ Len(buffer) <= 2 * ArrayLength
    BY LenProperties, ArrayAssumption
  <2>2. ArrayLength \in Nat
    BY <1>1
  <2> QED BY <2>1, <2>2 DEF Held
<1> DEFINE out == OutLength(BlockLength)
           rate == sampleRate
<1>3. /\ out \in Nat /\ out * 8000 <= BlockLength * rate
      /\ BlockLength * rate < out * 8000 + 8000
  BY <1>1, OutLengthBounds
<1> HIDE DEF out
<1>4. CASE ~Converts
  <2>1. rate = 8000
    BY <1>4 DEF Converts
  <2>3. InLength \in Nat /\ InLength <= BlockLength /\ InLength <= Held
    BY <1>1, <1>2, <1>4 DEF InLength, Least
  <2>4. HeardLength = InLength
    BY <1>4 DEF HeardLength
  <2> HIDE DEF rate
  <2>5. Difference(InLength * rate, InLength * 8000) = 0
    BY <2>1, <2>3 DEF Difference
  <2>6. /\ InLength \in Nat /\ InLength <= ArrayLength /\ 2 * InLength <= Len(buffer)
        /\ HeardLength \in Nat /\ HeardLength <= BlockLength
    <3>1. Len(buffer) \in Nat
      BY LenProperties
    <3> QED BY <1>1, <1>2, <2>3, <2>4, <3>1
  <2>7. Difference(HeardLength * sampleRate, InLength * 8000)
          < IF sampleRate < 8000 THEN 8000 ELSE sampleRate
    BY <2>1, <2>4, <2>5 DEF rate
  <2> QED BY <2>6, <2>7
<1>5. CASE Converts /\ Held < out
  <2>1. InLength = Held
    BY <1>2, <1>3, <1>5 DEF InLength, Least, out
  <2>2. HeardLength = (Held * 8000) \div rate
    BY <1>5, <2>1 DEF HeardLength, out
  <2> DEFINE a == Held * 8000
             h == a \div rate
             limit == BlockLength * rate
  <2>3. h \in Nat /\ h * rate <= a /\ a < h * rate + rate /\ a \in Nat
    BY <1>1, <1>2, Division
  <2>4. limit \in Nat /\ a < limit
    BY <1>1, <1>2, <1>3, <1>5, Product
  <2> HIDE DEF a, h
  <2>5. h * rate \in Nat /\ h * rate < BlockLength * rate + rate
    BY <1>1, <2>3, <2>4, Product
  <2>6. h <= BlockLength
    BY <1>1, <2>3, <2>5, Cancel
  <2>7. Difference(h * rate, a) < rate
    BY <1>1, <2>3, <2>5 DEF Difference
  <2>8. HeardLength = h /\ InLength * 8000 = a
    BY <2>1, <2>2 DEF h, a
  <2>9. Difference(h * rate, a) < IF rate < 8000 THEN 8000 ELSE rate
    <3>1. Difference(h * rate, a) \in Int
      BY <2>3, <2>5 DEF Difference
    <3> QED BY <1>1, <2>7, <3>1
  <2>10. Held <= ArrayLength
    BY <1>2
  <2>11. /\ InLength \in Nat /\ InLength <= ArrayLength /\ 2 * InLength <= Len(buffer)
         /\ HeardLength \in Nat /\ HeardLength <= BlockLength
    BY <1>2, <2>1, <2>3, <2>6, <2>8, <2>10
  <2>12. Difference(HeardLength * sampleRate, InLength * 8000)
           < IF sampleRate < 8000 THEN 8000 ELSE sampleRate
    BY <2>8, <2>9 DEF rate
  <2> QED BY <2>11, <2>12
<1>6. CASE Converts /\ ~(Held < out)
  <2>1. InLength = out
    BY <1>2, <1>3, <1>6 DEF InLength, Least, out
  <2>2. HeardLength = BlockLength
    BY <1>6 DEF HeardLength, out
  <2>3. BlockLength * rate \in Nat
    BY <1>1, Product
  <2>4. Difference(BlockLength * rate, out * 8000) < 8000
        /\ Difference(BlockLength * rate, out * 8000) \in Int
    BY <1>3, <2>3 DEF Difference
  <2>5. Difference(BlockLength * rate, out * 8000) < IF rate < 8000 THEN 8000 ELSE rate
    BY <1>1, <2>4
  <2>6. 2 * out <= Len(buffer)
    <3>1. Len(buffer) \in Nat
      BY LenProperties
    <3> QED BY <1>2, <1>3, <1>6, <3>1
  <2>7. out <= ArrayLength
    BY <1>1, <1>2, <1>3, <1>6
  <2> QED BY <1>1, <1>3, <2>1, <2>2, <2>5, <2>6, <2>7
<1> QED BY <1>4, <1>5, <1>6

\* An array has as many samples as it was made with.
LEMMA ArrayLengths ==
  /\ \A n \in Nat : \A c \in Convertible(n) : c \in Seq(Int) /\ Len(c) = n
  /\ \A samples \in Seq(Int) : Len(EncodedAll(samples)) = Len(samples)
  /\ \A q \in Seq(0 .. 255) : \A n \in Nat : 2 * n <= Len(q) => Len(Samples(q, n)) = n
<1>1. ASSUME NEW n \in Nat, NEW c \in Convertible(n) PROVE c \in Seq(Int) /\ Len(c) = n
  <2>1. c \in [1 .. n -> Converter]
    BY DEF Convertible
  <2>2. Converter \subseteq Int
    BY RawAssumption
  <2>3. c \in [1 .. n -> Int]
    BY <2>1, <2>2
  <2> QED BY <2>3
<1>2. ASSUME NEW samples \in Seq(Int) PROVE Len(EncodedAll(samples)) = Len(samples)
  <2> DEFINE encoded == EncodedAll(samples)
  <2>1. Len(samples) \in Nat /\ \A i \in 1 .. Len(samples) : samples[i] \in Int
    BY LenProperties, ElementOfSeq
  <2>2. \A val \in Int : Encoded(val) \in Int
    BY DEF Encoded
  <2>3. encoded = [i \in 1 .. Len(samples) |-> Encoded(samples[i])]
    BY DEF EncodedAll
  <2>4. encoded \in [1 .. Len(samples) -> Int]
    BY <2>1, <2>2, <2>3
  <2> HIDE DEF encoded
  <2> QED BY <2>1, <2>4 DEF encoded
<1>3. ASSUME NEW q \in Seq(0 .. 255), NEW n \in Nat, 2 * n <= Len(q)
      PROVE  Len(Samples(q, n)) = n
  <2> DEFINE samples == Samples(q, n)
  <2>1. \A i \in 1 .. n : q[2 * i - 1] \in Int /\ q[2 * i] \in Int
    <3> TAKE i \in 1 .. n
    <3>1. 2 * i - 1 \in 1 .. Len(q) /\ 2 * i \in 1 .. Len(q)
      BY <1>3, LenProperties
    <3>2. q[2 * i - 1] \in 0 .. 255 /\ q[2 * i] \in 0 .. 255
      BY <3>1, ElementOfSeq
    <3>3. \A b \in 0 .. 255 : b \in Int
      OBVIOUS
    <3> QED BY <3>2, <3>3
  <2>2. \A lo, hi \in Int : Sample(lo, hi) \in Int
    BY DEF Sample
  <2>3. samples = [i \in 1 .. n |-> Sample(q[2 * i - 1], q[2 * i])]
    BY DEF Samples
  <2>4. samples \in [1 .. n -> Int]
    BY <2>1, <2>2, <2>3
  <2> HIDE DEF samples
  <2> QED BY <2>4 DEF samples
<1> QED BY <1>1, <1>2, <1>3

(***************************************************************************)
(* The invariant: the rate is one of the .ini file's, what m_buffer holds  *)
(* are bytes, no more than there is room for, and the two properties.      *)
(***************************************************************************)
Inv ==
  /\ sampleRate \in SampleRates /\ buffer \in Seq(0 .. 255) /\ Len(buffer) <= Length
  /\ WithinArrays /\ KeepsPace

\* A call that neither writes nor reads audio.
LEMMA SilentKeeps ==
  ASSUME Silent, phase' # "undefined" \/ (WithinArrays /\ UNCHANGED phase)
  PROVE  WithinArrays' /\ KeepsPace'
<1>1. sent' = << >> /\ read' = << >> /\ heard' = << >> /\ sampleRate' = sampleRate
  BY DEF Silent
<1>2. ArrayLength \in Nat /\ BlockLength \in Nat
  BY RawAssumption, ArrayAssumption
<1>3. WithinArrays'
  BY <1>1, <1>2 DEF WithinArrays
<1> QED BY <1>1, <1>3 DEF KeepsPace

LEMMA InitInv ==
  ASSUME Init
  PROVE  Inv
<1>1. /\ sent = << >> /\ read = << >> /\ heard = << >> /\ buffer \in Seq(0 .. 255)
      /\ sampleRate \in SampleRates /\ phase = "new" /\ Len(buffer) <= Length
  <2>1. buffer = << >> /\ Length \in Nat
    BY RawAssumption DEF Init
  <2>2. Len(buffer) <= Length
    BY <2>1
  <2> QED BY <2>1, <2>2, EmptySeq DEF Init
<1>2. ArrayLength \in Nat /\ BlockLength \in Nat
  BY RawAssumption, ArrayAssumption
<1>3. WithinArrays
  BY <1>1, <1>2 DEF WithinArrays
<1> QED BY <1>1, <1>3 DEF KeepsPace, Inv

LEMMA WriteDataKeeps ==
  ASSUME Inv, NEW samples \in FromLoop, WriteData(samples)
  PROVE  Inv'
<1>1. /\ read' = << >> /\ heard' = << >> /\ sampleRate' = sampleRate /\ buffer' = buffer
      /\ sampleRate \in SampleRates /\ phase = "open"
  BY DEF WriteData, Unread, Inv
<1>2. /\ ArrayLength \in Nat /\ BlockLength \in Nat /\ BlockLength <= ArrayLength
  BY RawAssumption, ArrayAssumption
<1>3. samples \in Seq(Int) /\ Len(samples) \in Nat /\ Len(samples) <= BlockLength
  BY RawAssumption
<1>4. \A c : Writes(c) => (sent' = << >> \/ sent' = c) /\ phase' # "undefined"
  BY <1>1 DEF Writes
<1>5. Len(sent') <= ArrayLength /\ (phase' = "undefined" => sampleRate > 2 * 8000)
  <2> DEFINE n == OutLength(Len(samples))
  <2>1. n \in Nat /\ (n > ArrayLength => sampleRate > 2 * 8000)
    BY <1>1, <1>3, OutLengthBounds, TooLongBlock
  <2>2. \/ sent' = << >> /\ phase' \in {"open", "aborted"}
        \/ n > ArrayLength /\ sent' = << >>
        \/ n <= ArrayLength /\ \E c \in Convertible(n) : Writes(EncodedAll(c))
        \/ Writes(EncodedAll(samples))
    BY <1>1 DEF WriteData, WriteConverted, Fails
  <2> HIDE DEF n
  <2>3. CASE sent' = << >> /\ phase' \in {"open", "aborted"}
    BY <2>3, <1>2
  <2>4. CASE n > ArrayLength /\ sent' = << >>
    BY <2>4, <2>1, <1>2
  <2>5. ASSUME n <= ArrayLength, NEW c \in Convertible(n), Writes(EncodedAll(c))
        PROVE  Len(sent') <= ArrayLength /\ phase' # "undefined"
    <3>1. Len(EncodedAll(c)) = n
      BY <2>1, ArrayLengths
    <3> QED BY <2>1, <2>5, <3>1, <1>2, <1>4
  <2>6. CASE Writes(EncodedAll(samples))
    <3>1. Len(EncodedAll(samples)) = Len(samples)
      BY <1>3, ArrayLengths
    <3> QED BY <2>6, <3>1, <1>2, <1>3, <1>4
  <2> QED BY <2>2, <2>3, <2>4, <2>5, <2>6
<1>6. WithinArrays'
  BY <1>1, <1>2, <1>5 DEF WithinArrays
<1>7. KeepsPace'
  BY <1>1 DEF KeepsPace
<1> QED BY <1>1, <1>6, <1>7 DEF Inv

\* The front of the buffer and the rest.
LEMMA Parted ==
  ASSUME NEW q \in Seq(0 .. 255), NEW n \in Nat, n <= Len(q)
  PROVE  /\ Oldest(q, n) \in Seq(0 .. 255) /\ Len(Oldest(q, n)) = n
         /\ Without(q, n) \in Seq(0 .. 255) /\ Len(Without(q, n)) <= Len(q)
<1>1. Len(q) \in Nat
  BY LenProperties
<1>2. /\ \A i \in 1 .. n : q[i] \in 0 .. 255
      /\ \A i \in n + 1 .. Len(q) : q[i] \in 0 .. 255
  <2>1. \A i \in 1 .. Len(q) : q[i] \in 0 .. 255
    BY ElementOfSeq
  <2> QED BY <1>1, <2>1
<1>3. SubSeq(q, 1, n) \in Seq(0 .. 255) /\ Len(SubSeq(q, 1, n)) = n
  <2>1. /\ SubSeq(q, 1, n) \in Seq(0 .. 255)
        /\ Len(SubSeq(q, 1, n)) = IF 1 <= n THEN n - 1 + 1 ELSE 0
    BY <1>2, SubSeqProperties
  <2>2. (IF 1 <= n THEN n - 1 + 1 ELSE 0) = n
    OBVIOUS
  <2> QED BY <2>1, <2>2
<1>4. SubSeq(q, n + 1, Len(q)) \in Seq(0 .. 255) /\ Len(SubSeq(q, n + 1, Len(q))) <= Len(q)
  <2>1. n + 1 \in Int
    OBVIOUS
  <2>2. /\ SubSeq(q, n + 1, Len(q)) \in Seq(0 .. 255)
        /\ Len(SubSeq(q, n + 1, Len(q)))
             = IF n + 1 <= Len(q) THEN Len(q) - (n + 1) + 1 ELSE 0
    BY <1>1, <1>2, <2>1, SubSeqProperties
  <2> QED BY <1>1, <2>2
<1> QED BY <1>3, <1>4 DEF Oldest, Without

LEMMA ReadDataKeeps ==
  ASSUME Inv, ReadData
  PROVE  Inv'
<1>1. /\ sampleRate \in SampleRates /\ buffer \in Seq(0 .. 255) /\ Len(buffer) <= Length
      /\ phase' # "undefined"
  BY DEF Inv, ReadData
<1>2. CASE Silent /\ UNCHANGED buffer
  <2>1. WithinArrays' /\ KeepsPace'
    BY <1>1, <1>2, SilentKeeps
  <2> QED BY <1>1, <1>2, <2>1 DEF Inv, Silent
<1>3. CASE ~(Silent /\ UNCHANGED buffer)
  <2>1. /\ Take /\ sent' = << >> /\ sampleRate' = sampleRate
        /\ IF ~Converts THEN heard' = Samples(read', InLength)
           ELSE heard' = << >> \/ heard' \in Convertible(HeardLength)
    BY <1>3 DEF ReadData
  <2> DEFINE m == InLength
             h == HeardLength
  <2>2. /\ m \in Nat /\ m <= ArrayLength /\ 2 * m <= Len(buffer)
        /\ h \in Nat /\ h <= BlockLength
        /\ Difference(h * sampleRate, m * 8000)
             < IF sampleRate < 8000 THEN 8000 ELSE sampleRate
    BY <1>1, ReadLengths
  <2>3. read' = Oldest(buffer, 2 * m) /\ buffer' = Without(buffer, 2 * m)
    BY <2>1 DEF Take
  <2>4. ~Converts => h = m /\ heard' = Samples(read', m)
    BY <2>1 DEF HeardLength
  <2>5. Converts => heard' = << >> \/ heard' \in Convertible(h)
    BY <2>1
  <2> HIDE DEF m, h
  <2>6. 2 * m \in Nat
    BY <2>2
  <2>7. /\ read' \in Seq(0 .. 255) /\ Len(read') = 2 * m
        /\ buffer' \in Seq(0 .. 255) /\ Len(buffer') <= Len(buffer)
    BY <1>1, <2>2, <2>3, <2>6, Parted
  <2>8. heard' = << >> \/ Len(heard') = h
    <3>1. CASE ~Converts
      <4>1. 2 * m <= Len(read')
        BY <2>6, <2>7
      <4>2. Len(Samples(read', m)) = m
        BY <2>2, <2>7, <4>1, ArrayLengths
      <4> QED BY <3>1, <2>4, <4>2
    <3>2. CASE Converts
      BY <3>2, <2>2, <2>5, ArrayLengths
    <3> QED BY <3>1, <3>2
  <2>9. ArrayLength \in Nat /\ BlockLength \in Nat
    BY RawAssumption, ArrayAssumption
  <2>10. WithinArrays'
    <3>1. Len(sent') <= ArrayLength
      BY <2>1, <2>9
    <3>2. Len(read') <= 2 * ArrayLength
      BY <2>2, <2>7, <2>9
    <3>3. Len(heard') <= BlockLength
      BY <2>2, <2>8, <2>9
    <3>4. ArrayLength' = ArrayLength /\ BlockLength' = BlockLength
      OBVIOUS
    <3> QED BY <1>1, <3>1, <3>2, <3>3 DEF WithinArrays
  <2>11. KeepsPace'
    <3>1. (Len(read') \div 2) = m
      BY <2>2, <2>7
    <3>2. heard' # << >> => Len(heard') = h
      BY <2>8
    <3>3. heard' # << >> =>
            Difference(Len(heard') * sampleRate, (Len(read') \div 2) * 8000)
              < IF sampleRate < 8000 THEN 8000 ELSE sampleRate
      BY <3>1, <3>2, <2>2
    <3> QED BY <3>3, <2>1 DEF KeepsPace, Difference
  <2>12. Len(buffer') <= Length
    <3>1. Len(buffer') \in Nat /\ Len(buffer) \in Nat /\ Length \in Nat
      BY <1>1, <2>7, LenProperties, RawAssumption
    <3> QED BY <1>1, <2>7, <3>1
  <2> QED BY <1>1, <2>1, <2>7, <2>10, <2>11, <2>12 DEF Inv
<1> QED BY <1>2, <1>3

LEMMA ClockKeeps ==
  ASSUME Inv, NEW sender, NEW d \in FromPeer, Clock(sender, d)
  PROVE  Inv'
<1>1. WithinArrays' /\ KeepsPace'
  BY SilentKeeps DEF Clock, Inv
<1>2. sampleRate' = sampleRate
  BY DEF Clock, Silent
<1>3. d \in Seq(0 .. 255) /\ buffer \in Seq(0 .. 255)
  BY RawAssumption DEF Inv
<1>4. Added(buffer, d) \in Seq(0 .. 255) /\ Len(Added(buffer, d)) <= Length
  <2>1. Len(buffer) \in Nat /\ Len(d) \in Nat /\ Length \in Nat
    BY <1>3, LenProperties, RawAssumption
  <2>2. buffer \o d \in Seq(0 .. 255) /\ Len(buffer \o d) = Len(buffer) + Len(d)
    BY <1>3, ConcatProperties
  <2> QED BY <2>1, <2>2, EmptySeq DEF Added, Fits
<1>5. buffer' \in Seq(0 .. 255) /\ Len(buffer') <= Length
  BY <1>3, <1>4 DEF Clock, Inv
<1> QED BY <1>1, <1>2, <1>5 DEF Inv

LEMMA NextKeeps ==
  ASSUME Inv, [Next]_vars
  PROVE  Inv'
<1>1. CASE UNCHANGED vars
  BY <1>1 DEF vars, Inv, WithinArrays, KeepsPace
<1>2. CASE Open \/ WriteStart \/ WriteEnd \/ Close
  <2>1. Silent /\ UNCHANGED buffer /\ phase' # "undefined"
    BY <1>2 DEF Open, WriteStart, WriteEnd, Close
  <2> QED BY <2>1, SilentKeeps DEF Inv, Silent
<1>4. Finished => UNCHANGED vars
  BY DEF Finished
<1>5. CASE ReadData
  BY <1>5, ReadDataKeeps
<1>6. ASSUME NEW samples \in FromLoop, WriteData(samples) PROVE Inv'
  BY <1>6, WriteDataKeeps
<1>7. ASSUME NEW sender \in {"peer", "stranger"}, NEW d \in FromPeer, Clock(sender, d)
      PROVE  Inv'
  BY <1>7, ClockKeeps
<1> QED BY <1>1, <1>2, <1>4, <1>5, <1>6, <1>7 DEF Next

THEOREM InvHolds == Spec => []Inv
<1>1. Init => Inv
  BY InitInv
<1>2. Inv /\ [Next]_vars => Inv'
  BY NextKeeps
<1> QED BY <1>1, <1>2, PTL DEF Spec

\* At no rate up to twice the repeater's does writeData() write beyond its
\* arrays, and at no rate at all readData() (RAWNetwork.cpp:116-136, 200-214).
THEOREM ArraysSuffice == Spec => []WithinArrays
<1>1. Inv => WithinArrays
  BY DEF Inv
<1> QED BY <1>1, InvHolds, PTL

\* At every rate the samples returned are worth as much time as those taken,
\* to less than a sample (RAWNetwork.cpp:201-206).
THEOREM PaceHolds == Spec => []KeepsPace
<1>1. Inv => KeepsPace
  BY DEF Inv
<1> QED BY <1>1, InvHolds, PTL

(***************************************************************************)
(* The refinement: a datagram that fits is accepted, one that does not     *)
(* loses what waits, and readData() delivers twice InLength bytes, or is   *)
(* idle when it takes none.                                                *)
(***************************************************************************)
LEMMA ClockRefines ==
  ASSUME Inv, NEW sender, NEW d \in FromPeer, Clock(sender, d)
  PROVE  Bytes!Accept(d) \/ Bytes!Lose(d) \/ Bytes!Idle
<1>1. read' = << >>
  BY DEF Clock, Silent
<1>2. CASE sender # "peer"
  BY <1>1, <1>2 DEF Clock, Bytes!Idle
<1>3. CASE sender = "peer" /\ Fits(buffer, Len(d))
  BY <1>1, <1>3 DEF Clock, Added, Bytes!Accept
<1>4. CASE sender = "peer" /\ ~Fits(buffer, Len(d))
  <2>1. Len(buffer) \in Int /\ Len(d) \in Int /\ Length \in Int
    BY RawAssumption, LenProperties DEF Inv
  <2>2. Len(buffer) + Len(d) >= Length
    BY <1>4, <2>1 DEF Fits
  <2>3. buffer' = << >>
    BY <1>4 DEF Clock, Added
  <2> QED BY <1>1, <2>2, <2>3 DEF Bytes!Lose
<1> QED BY <1>2, <1>3, <1>4

LEMMA ReadDataRefines ==
  ASSUME Inv, ReadData
  PROVE  (\E n \in 1 .. Len(buffer) : Bytes!Deliver(n)) \/ Bytes!Idle
<1>1. CASE Silent /\ UNCHANGED buffer
  BY <1>1 DEF Silent, Bytes!Idle
<1>2. CASE ~(Silent /\ UNCHANGED buffer)
  <2>1. read' = Oldest(buffer, 2 * InLength) /\ buffer' = Without(buffer, 2 * InLength)
    BY <1>2 DEF ReadData, Take
  <2>2. InLength \in Nat /\ 2 * InLength <= Len(buffer)
    BY ReadLengths DEF Inv
  <2> DEFINE n == 2 * InLength
  <2>3. n \in Nat /\ n <= Len(buffer) /\ Len(buffer) \in Nat
    BY <2>2, LenProperties DEF Inv
  <2>4. read' = SubSeq(buffer, 1, n) /\ buffer' = SubSeq(buffer, n + 1, Len(buffer))
    BY <2>1 DEF Oldest, Without
  <2> HIDE DEF n
  <2>5. CASE n = 0
    <3>1. SubSeq(buffer, 1, 0) = << >> /\ SubSeq(buffer, 1, Len(buffer)) = buffer
      BY SubSeqFull, EmptySeq, SubSeqEmpty DEF Inv
    <3> QED BY <2>4, <2>5, <3>1 DEF Bytes!Idle
  <2>6. CASE n # 0
    <3>1. n \in 1 .. Len(buffer)
      BY <2>3, <2>6
    <3>2. Bytes!Deliver(n)
      BY <2>4 DEF Bytes!Deliver
    <3> QED BY <3>1, <3>2
  <2> QED BY <2>5, <2>6
<1> QED BY <1>1, <1>2

RawStep ==
  \/ Bytes!PipeNext
  \/ \E packet \in FromPeer : Bytes!Lose(packet)
  \/ UNCHANGED Bytes!pipeVars

LEMMA StepRefines ==
  ASSUME Inv, [Next]_vars
  PROVE  RawStep
<1>1. UNCHANGED vars => UNCHANGED Bytes!pipeVars
  BY DEF vars, Bytes!pipeVars
<1>2. Finished => UNCHANGED vars
  BY DEF Finished
<1>3. Open \/ WriteStart \/ WriteEnd \/ Close => Bytes!Idle
  BY DEF Open, WriteStart, WriteEnd, Close, Silent, Bytes!Idle
<1>4. ASSUME NEW samples \in FromLoop, WriteData(samples) PROVE Bytes!Idle
  BY <1>4 DEF WriteData, Unread, Bytes!Idle
<1>5. ReadData => (\E n \in 1 .. Len(buffer) : Bytes!Deliver(n)) \/ Bytes!Idle
  BY ReadDataRefines
<1>6. ASSUME NEW sender \in {"peer", "stranger"}, NEW d \in FromPeer, Clock(sender, d)
      PROVE  (\E e \in FromPeer : Bytes!Accept(e) \/ Bytes!Lose(e)) \/ Bytes!Idle
  BY <1>6, ClockRefines
<1> QED BY <1>1, <1>2, <1>3, <1>4, <1>5, <1>6 DEF Next, RawStep, Bytes!PipeNext

\* The bytes of the peer leave in their order, and an overflow loses all that
\* are waiting and none that come later (RAWNetwork.cpp:186, 207-208, 237-238).
THEOREM RawRefinement == Spec => BytesInOrder
<1>1. Init => Bytes!PipeInit
  BY DEF Init, Bytes!PipeInit
<1>2. Inv /\ [Next]_vars => RawStep
  BY StepRefines
<1>3. RawStep =>
        [Bytes!PipeNext \/ \E packet \in FromPeer : Bytes!Lose(packet)]_Bytes!pipeVars
  BY DEF RawStep
<1> QED BY <1>1, <1>2, <1>3, InvHolds, PTL DEF Spec, BytesInOrder, Bytes!LossySpec
=============================================================================
