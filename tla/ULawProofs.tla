----------------------------- MODULE ULawProofs -----------------------------
(***************************************************************************)
(* For every sample and every number of gateways in a row: a sample comes  *)
(* out within one 32nd of its biased magnitude, and comes out the same     *)
(* from then on.  The biased magnitude lies in a step of 2 * h, the k-th   *)
(* from zero, with k from 16 to 31 and h a power of two; the byte says     *)
(* which, and the sample that is made of it is the middle of the step,     *)
(* which lies in the step itself.                                          *)
(***************************************************************************)
EXTENDS ULaw, TLAPS

\* Half of a step at a position.
Half(p) == 2 ^ (p - 5)

InStep(number, p, k) ==
  2 * Half(p) * k <= number /\ number < 2 * Half(p) * k + 2 * Half(p)

Middle(p, k) == 2 * Half(p) * k + Half(p)

Sign(s) == IF s < 0 THEN 128 ELSE 0

Byte(sign, p, k) == 255 - (sign + 16 * (p - 5) + (k - 16))

-----------------------------------------------------------------------------
(***************************************************************************)
(* The positions                                                           *)
(***************************************************************************)
LEMMA Powers ==
  /\ 2 ^ 0 = 1 /\ 2 ^ 1 = 2 /\ 2 ^ 2 = 4 /\ 2 ^ 3 = 8 /\ 2 ^ 4 = 16 /\ 2 ^ 5 = 32
  /\ 2 ^ 6 = 64 /\ 2 ^ 7 = 128 /\ 2 ^ 8 = 256 /\ 2 ^ 9 = 512 /\ 2 ^ 10 = 1024
  /\ 2 ^ 11 = 2048 /\ 2 ^ 12 = 4096
OBVIOUS

LEMMA Positions == \A p \in 5 .. 12 : p \in {5, 6, 7, 8, 9, 10, 11, 12}
OBVIOUS

\* The shifts at each position.
LEMMA Shifts ==
  ASSUME NEW p \in 5 .. 12
  PROVE  /\ \/ p = 5 /\ Half(p) = 1
            \/ p = 6 /\ Half(p) = 2
            \/ p = 7 /\ Half(p) = 4
            \/ p = 8 /\ Half(p) = 8
            \/ p = 9 /\ Half(p) = 16
            \/ p = 10 /\ Half(p) = 32
            \/ p = 11 /\ Half(p) = 64
            \/ p = 12 /\ Half(p) = 128
         /\ 2 ^ (p - 4) = 2 * Half(p) /\ 2 ^ p = 32 * Half(p)
<1>1. CASE p = 5
  <2>1. p - 5 = 0 /\ p - 4 = 1
    BY <1>1
  <2> QED BY <1>1, <2>1, Powers DEF Half
<1>2. CASE p = 6
  <2>1. p - 5 = 1 /\ p - 4 = 2
    BY <1>2
  <2> QED BY <1>2, <2>1, Powers DEF Half
<1>3. CASE p = 7
  <2>1. p - 5 = 2 /\ p - 4 = 3
    BY <1>3
  <2> QED BY <1>3, <2>1, Powers DEF Half
<1>4. CASE p = 8
  <2>1. p - 5 = 3 /\ p - 4 = 4
    BY <1>4
  <2> QED BY <1>4, <2>1, Powers DEF Half
<1>5. CASE p = 9
  <2>1. p - 5 = 4 /\ p - 4 = 5
    BY <1>5
  <2> QED BY <1>5, <2>1, Powers DEF Half
<1>6. CASE p = 10
  <2>1. p - 5 = 5 /\ p - 4 = 6
    BY <1>6
  <2> QED BY <1>6, <2>1, Powers DEF Half
<1>7. CASE p = 11
  <2>1. p - 5 = 6 /\ p - 4 = 7
    BY <1>7
  <2> QED BY <1>7, <2>1, Powers DEF Half
<1>8. CASE p = 12
  <2>1. p - 5 = 7 /\ p - 4 = 8
    BY <1>8
  <2> QED BY <1>8, <2>1, Powers DEF Half
<1> QED BY <1>1, <1>2, <1>3, <1>4, <1>5, <1>6, <1>7, <1>8

\* The bit of a number at a position above its first, and at its first.
LEMMA Bit ==
  ASSUME NEW number \in Nat, NEW p \in 5 .. 12
  PROVE  /\ number < 32 * Half(p) => (number \div 2 ^ p) % 2 # 1
         /\ 32 * Half(p) <= number /\ number < 64 * Half(p) => (number \div 2 ^ p) % 2 = 1
<1> DEFINE d == 32 * Half(p)
           q == number \div d
<1>1. /\ number < d => q = 0
      /\ d <= number /\ number < 2 * d => q = 1
  BY Shifts
<1>2. (number \div 2 ^ p) = q
  BY Shifts
<1> HIDE DEF q
<1>3. (q = 0 => q % 2 # 1) /\ (q = 1 => q % 2 = 1)
  OBVIOUS
<1>4. 2 * d = 64 * Half(p)
  BY Shifts
<1> QED BY <1>1, <1>2, <1>3, <1>4

LEMMA PositionIs ==
  ASSUME NEW number \in Nat, NEW p \in 5 .. 12,
         32 * Half(p) <= number, number < 64 * Half(p)
  PROVE  Position(number) = p
<1> DEFINE bits == {4} \union { q \in 5 .. 12 : (number \div 2 ^ q) % 2 = 1 }
<1>1. p \in bits
  BY Bit
<1>2. ASSUME NEW q \in bits PROVE p >= q
  <2>1. CASE q = 4
    BY <2>1
  <2>2. CASE q \in 5 .. 12 /\ q > p
    <3>1. number < 32 * Half(q)
      <4>1. 64 * Half(p) <= 32 * Half(q)
        BY <2>2, Shifts
      <4> HIDE DEF Half
      <4>2. Half(p) \in Nat /\ Half(q) \in Nat
        BY <2>2, Shifts
      <4> QED BY <4>1, <4>2
    <3>2. (number \div 2 ^ q) % 2 # 1
      BY <2>2, <3>1, Bit
    <3> DEFINE bit == (number \div 2 ^ q) % 2
    <3>3. bit = 1
      BY <1>2, <2>2
    <3> QED BY <3>2, <3>3
  <2> QED BY <2>1, <2>2
<1>3. bits \subseteq Int
  OBVIOUS
<1> HIDE DEF bits
<1>4. \A x \in bits : (\A y \in bits : x >= y) => x = p
  BY <1>1, <1>2, <1>3
<1>5. Max(bits) = p
  BY <1>1, <1>2, <1>4 DEF Max
<1> QED BY <1>5 DEF Position, bits

-----------------------------------------------------------------------------
(***************************************************************************)
(* The two directions                                                      *)
(***************************************************************************)
LEMMA BiasedType ==
  ASSUME NEW s \in Int
  PROVE  /\ Magnitude(s) \in Nat
         /\ Biased(s) \in Nat /\ 33 <= Biased(s) /\ Biased(s) <= 8191
BY DEF Magnitude, Biased

\* Every number has its step.
LEMMA SomeStep ==
  ASSUME NEW number \in Nat, 33 <= number, number <= 8191
  PROVE  \E p \in 5 .. 12, k \in 16 .. 31 : InStep(number, p, k)
<1>1. ASSUME NEW p \in 5 .. 12, 32 * Half(p) <= number, number < 64 * Half(p)
      PROVE  \E k \in 16 .. 31 : InStep(number, p, k)
  <2> DEFINE k == number \div (2 * Half(p))
  <2>1. k \in 16 .. 31 /\ 2 * Half(p) * k <= number /\ number < 2 * Half(p) * k + 2 * Half(p)
    BY <1>1, Shifts
  <2> QED BY <2>1 DEF InStep
<1>2. \E p \in 5 .. 12 : 32 * Half(p) <= number /\ number < 64 * Half(p)
  <2>1. /\ Half(5) = 1 /\ Half(6) = 2 /\ Half(7) = 4 /\ Half(8) = 8 /\ Half(9) = 16
        /\ Half(10) = 32 /\ Half(11) = 64 /\ Half(12) = 128
    <3>1. /\ 5 - 5 = 0 /\ 6 - 5 = 1 /\ 7 - 5 = 2 /\ 8 - 5 = 3 /\ 9 - 5 = 4 /\ 10 - 5 = 5
          /\ 11 - 5 = 6 /\ 12 - 5 = 7
      OBVIOUS
    <3> QED BY <3>1, Powers DEF Half
  <2>2. \/ number \in 32 .. 63 \/ number \in 64 .. 127 \/ number \in 128 .. 255
        \/ number \in 256 .. 511 \/ number \in 512 .. 1023 \/ number \in 1024 .. 2047
        \/ number \in 2048 .. 4095 \/ number \in 4096 .. 8191
    OBVIOUS
  <2> QED BY <2>1, <2>2
<1> QED BY <1>1, <1>2

LEMMA StepBounds ==
  ASSUME NEW number \in Nat, NEW p \in 5 .. 12, NEW k \in 16 .. 31, InStep(number, p, k)
  PROVE  /\ 32 * Half(p) <= number /\ number < 64 * Half(p)
         /\ number \div (2 * Half(p)) = k
BY Shifts DEF InStep

LEMMA EncodeIs ==
  ASSUME NEW s \in Int, NEW p \in 5 .. 12, NEW k \in 16 .. 31, InStep(Biased(s), p, k)
  PROVE  Encode(s) = Byte(Sign(s), p, k)
<1> DEFINE number == Biased(s)
<1>1. number \in Nat
  BY BiasedType
<1>2. Position(number) = p
  BY <1>1, StepBounds, PositionIs
<1>3. number \div 2 ^ (p - 4) = k
  BY <1>1, StepBounds, Shifts
<1>4. k % 16 = k - 16
  OBVIOUS
<1> HIDE DEF number
<1>5. Encode(s) = 255 - (Sign(s) + 16 * (p - 5) + (k % 16))
  BY <1>2, <1>3 DEF Encode, Sign, number
<1> QED BY <1>4, <1>5 DEF Byte

LEMMA DecodeIs ==
  ASSUME NEW sign \in {0, 128}, NEW p \in 5 .. 12, NEW k \in 16 .. 31
  PROVE  Decode(Byte(sign, p, k)) =
           IF sign = 128 THEN -(Middle(p, k) - 33) ELSE Middle(p, k) - 33
<1> DEFINE number == 255 - Byte(sign, p, k)
           low == number % 128
           q == low \div 16 + 5
<1>1. number = sign + 16 * (p - 5) + (k - 16)
  BY DEF Byte
<1>2. low = 16 * (p - 5) + (k - 16)
  <2>1. 16 * (p - 5) + (k - 16) \in 0 .. 127
    OBVIOUS
  <2> DEFINE m == 16 * (p - 5) + (k - 16)
  <2>2. number = sign + m /\ m \in 0 .. 127
    BY <1>1, <2>1
  <2> HIDE DEF number, m
  <2>3. number % 128 = m
    BY <2>2
  <2> QED BY <2>3 DEF m
<1>3. q = p
  <2> HIDE DEF low
  <2>1. low \div 16 = p - 5
    BY <1>2
  <2> QED BY <2>1
<1>4. number % 16 = k - 16
  BY <1>1
<1>5. number >= 128 <=> sign = 128
  BY <1>1
<1> HIDE DEF number
<1> DEFINE value == 2 ^ p + (k - 16) * 2 ^ (p - 4) + 2 ^ (p - 5) - 33
<1>6. Decode(Byte(sign, p, k)) = IF number >= 128 THEN -value ELSE value
  BY <1>3, <1>4 DEF Decode, number
<1>7. value = Middle(p, k) - 33
  <2>1. value = 32 * Half(p) + (k - 16) * (2 * Half(p)) + Half(p) - 33
    BY Shifts DEF Half
  <2> HIDE DEF value
  <2> QED BY <2>1, Shifts DEF Middle
<1> HIDE DEF value
<1> QED BY <1>5, <1>6, <1>7

\* The middle of a step is in the step, and so it comes out of every trip.
LEMMA MiddleStays ==
  ASSUME NEW s \in Int, NEW p \in 5 .. 12, NEW k \in 16 .. 31, InStep(Biased(s), p, k)
  PROVE  LET v == Decode(Encode(s))
         IN  /\ v = IF s < 0 THEN -(Middle(p, k) - 33) ELSE Middle(p, k) - 33
             /\ Middle(p, k) - 33 \in Nat /\ (s < 0 => Middle(p, k) > 33)
             /\ v \in Int /\ Decode(Encode(v)) = v
<1> DEFINE v == Decode(Encode(s))
           m == Middle(p, k)
<1>1. Sign(s) \in {0, 128} /\ (Sign(s) = 128 <=> s < 0)
  BY DEF Sign
<1>2. v = IF s < 0 THEN -(m - 33) ELSE m - 33
  BY <1>1, EncodeIs, DecodeIs
<1>3. m \in Nat /\ 33 <= m /\ m <= 8064 /\ (s < 0 => m > 33)
  <2>1. s < 0 => Biased(s) >= 34
    BY DEF Biased, Magnitude
  <2>2. Biased(s) \in Nat /\ 33 <= Biased(s) /\ Biased(s) <= 8191
    BY BiasedType
  <2> QED BY <2>1, <2>2, Shifts DEF InStep, Middle
<1>4. InStep(m, p, k)
  BY Shifts DEF InStep, Middle
<1> HIDE DEF v, m
<1>5. v \in Int /\ Biased(v) = m /\ Sign(v) = Sign(s)
  BY <1>2, <1>3 DEF Biased, Magnitude, Sign
<1>6. Encode(v) = Byte(Sign(s), p, k)
  BY <1>4, <1>5, EncodeIs
<1>7. Encode(s) = Byte(Sign(s), p, k)
  BY EncodeIs
<1>8. Decode(Encode(v)) = v
  BY <1>6, <1>7 DEF v
<1> QED BY <1>2, <1>3, <1>5, <1>8 DEF v, m

LEMMA Idempotent ==
  ASSUME NEW s \in Int
  PROVE  LET v == Decode(Encode(s)) IN v \in Int /\ Decode(Encode(v)) = v
<1>1. PICK p \in 5 .. 12, k \in 16 .. 31 : InStep(Biased(s), p, k)
  BY BiasedType, SomeStep
<1> QED BY <1>1, MiddleStays

\* One trip, compared to the sample.
Close(s, v) ==
  IF Magnitude(s) <= Loudest
  THEN /\ 32 * Magnitude(v - s) <= Magnitude(s) + 33
       /\ s > 0 => v >= 0
       /\ s < 0 => v <= 0
  ELSE v = IF s < 0 THEN -8031 ELSE 8031

LEMMA TripClose ==
  ASSUME NEW s \in Int
  PROVE  Close(s, Decode(Encode(s)))
<1> DEFINE v == Decode(Encode(s))
<1>1. CASE Magnitude(s) <= Loudest
  <2>1. PICK p \in 5 .. 12, k \in 16 .. 31 : InStep(Biased(s), p, k)
    BY BiasedType, SomeStep
  <2> DEFINE m == Middle(p, k)
             h == Half(p)
             b == Magnitude(s) + 33
  <2>2. v = (IF s < 0 THEN -(m - 33) ELSE m - 33) /\ m - 33 \in Nat
    BY <2>1, MiddleStays
  <2>3. Biased(s) = b /\ b \in Nat
    BY <1>1, BiasedType DEF Biased, Loudest
  <2>4. h \in Nat /\ m \in Int /\ 32 * h <= b /\ m - b <= h /\ b - m <= h
    BY <2>1, <2>3, Shifts DEF InStep, Middle
  <2> HIDE DEF m, h, v
  <2> DEFINE d == Magnitude(v - s)
  <2>5. d <= h /\ d \in Int
    BY <2>2, <2>4 DEF Magnitude
  <2>6. 32 * d <= b
    <3> HIDE DEF d, b
    <3> QED BY <2>3, <2>4, <2>5
  <2> QED BY <1>1, <2>2, <2>6 DEF Close, v
<1>2. CASE ~(Magnitude(s) <= Loudest)
  <2>1. Biased(s) = 8191
    BY <1>2, BiasedType DEF Biased, Loudest
  <2>2. Half(12) = 128
    BY Shifts
  <2>3. InStep(8191, 12, 31) /\ Middle(12, 31) = 8064
    BY <2>2 DEF InStep, Middle
  <2>4. v = IF s < 0 THEN -(Middle(12, 31) - 33) ELSE Middle(12, 31) - 33
    BY <2>1, <2>3, MiddleStays
  <2> QED BY <1>2, <2>3, <2>4 DEF Close
<1> QED BY <1>1, <1>2

-----------------------------------------------------------------------------
\* After the first trip the sample is what that trip made of it.
IInv ==
  /\ original \in Int /\ trips \in Nat
  /\ sample = IF trips = 0 THEN original ELSE Decode(Encode(original))

LEMMA Invariant == Spec => []IInv
<1>1. Init => IInv
  BY SampleAssumption DEF Init, IInv
<1>2. IInv /\ [Next]_vars => IInv'
  <2> SUFFICES ASSUME IInv, Trip PROVE IInv'
    BY DEF Next, Arrived, vars, IInv
  <2>1. original' = original /\ trips' = trips + 1 /\ sample' = Decode(Encode(sample))
    BY DEF Trip
  <2>2. Decode(Encode(sample)) = Decode(Encode(original))
    BY Idempotent DEF IInv
  <2> QED BY <2>1, <2>2 DEF IInv
<1> QED BY <1>1, <1>2, PTL DEF Spec

\* However many gateways decode a sample and encode it again, it stays
\* within one 32nd of its biased magnitude and on its side of zero, and one
\* that is too loud becomes the loudest, for samples of any range.
THEOREM StaysClose == Spec => []CloseToOriginal
<1>1. IInv => CloseToOriginal
  <2> SUFFICES ASSUME IInv PROVE CloseToOriginal
    OBVIOUS
  <2>1. CASE trips = 0
    <3>1. sample = original /\ original \in Int /\ Magnitude(original - original) = 0
          /\ Magnitude(original) \in Nat
      BY <2>1 DEF IInv, Magnitude
    <3> QED BY <2>1, <3>1 DEF CloseToOriginal
  <2>2. CASE trips # 0
    <3>1. Close(original, sample) /\ trips > 0
      BY <2>2, TripClose DEF IInv
    <3> QED BY <3>1 DEF Close, CloseToOriginal
  <2> QED BY <2>1, <2>2
<1> QED BY <1>1, Invariant, PTL

\* What one trip has made of a sample comes out of the next unchanged.
THEOREM LossOnlyOnce == Spec => OnlyTheFirstLoses
<1>1. IInv /\ [Next]_vars => [ trips > 0 => sample' = sample ]_vars
  <2> SUFFICES ASSUME IInv, Trip, trips > 0 PROVE sample' = sample
    BY DEF Next, Arrived, vars
  <2>1. sample = Decode(Encode(original)) /\ original \in Int
    BY DEF IInv
  <2> QED BY <2>1, Idempotent DEF Trip
<1> QED BY <1>1, Invariant, PTL DEF Spec, OnlyTheFirstLoses
=============================================================================
