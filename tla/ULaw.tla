-------------------------------- MODULE ULaw --------------------------------
(***************************************************************************)
(* uLawEncode() and uLawDecode() of CIAXNetwork (IAXNetwork.cpp), and a    *)
(* sample on its way through gateways and peers that decode it and encode  *)
(* it again.  The shifts are powers of two, and the complement of a byte   *)
(* is its difference from 255.                                             *)
(***************************************************************************)
EXTENDS Integers, FiniteSetsExt

CONSTANTS Samples,      \* values of int16_t
          MaxTrips      \* bound: how often a sample is encoded

ASSUME SampleAssumption == Samples \subseteq -32768 .. 32767

VARIABLES original,     \* the sample as it was spoken
          sample,       \* the sample as it is now
          trips         \* how often it has been encoded

vars == << original, sample, trips >>

Magnitude(s) == IF s < 0 THEN -s ELSE s

-----------------------------------------------------------------------------
\* Variant of Biased that lets the sum leave its 13 bits.
BiasedUnlimited(s) == Magnitude(s) + 33

\* MULAW_BIAS is added and MULAW_MAX not exceeded.
Biased(s) == IF Magnitude(s) + 33 > 8191 THEN 8191 ELSE Magnitude(s) + 33

\* The loop goes from the twelfth bit to the first that is set.  The bias
\* sees to it that it does not go past the fifth.
Position(number) == Max({4} \union { p \in 5 .. 12 : (number \div 2 ^ p) % 2 = 1 })

\* ~(sign | ((position - 5) << 4) | lsb)
Encode(s) ==
  LET number == Biased(s)
      p      == Position(number)
      lsb    == (number \div 2 ^ (p - 4)) % 16
  IN  255 - ((IF s < 0 THEN 128 ELSE 0) + 16 * (p - 5) + lsb)

\* Variant of Decode that takes the bias for a power of two.
DecodeEvenBias(byte) ==
  LET number == 255 - byte
      p      == ((number % 128) \div 16) + 5
      value  == 2 ^ p + (number % 16) * 2 ^ (p - 4) + 2 ^ (p - 5) - 32
  IN  IF number >= 128 THEN -value ELSE value

\* The middle of the step: 1 << (position - 5) is half of it.
Decode(byte) ==
  LET number == 255 - byte
      p      == ((number % 128) \div 16) + 5
      value  == 2 ^ p + (number % 16) * 2 ^ (p - 4) + 2 ^ (p - 5) - 33
  IN  IF number >= 128 THEN -value ELSE value

-----------------------------------------------------------------------------
Init == original \in Samples /\ sample = original /\ trips = 0

Trip ==
  /\ trips < MaxTrips /\ trips' = trips + 1
  /\ sample' = Decode(Encode(sample))
  /\ UNCHANGED original

Arrived == trips = MaxTrips /\ UNCHANGED vars

Next == Trip \/ Arrived

Spec == Init /\ [][Next]_vars
-----------------------------------------------------------------------------
(***************************************************************************)
(* Properties                                                              *)
(***************************************************************************)
Loudest == 8191 - 33

\* However often a sample is encoded, it stays within one 32nd of its
\* biased magnitude, on the same side of zero, as long as it is not louder
\* than the law can say; a louder one becomes the loudest
\* (IAXNetwork.cpp:1175-1183, 1203-1207).
CloseToOriginal ==
  IF Magnitude(original) <= Loudest
  THEN /\ 32 * Magnitude(sample - original) <= Magnitude(original) + 33
       /\ original > 0 => sample >= 0
       /\ original < 0 => sample <= 0
  ELSE trips > 0 => sample = IF original < 0 THEN -8031 ELSE 8031

\* Only the first encoding loses anything: gateways in a row do no harm.
OnlyTheFirstLoses == [][ trips > 0 => sample' = sample ]_vars
=============================================================================
