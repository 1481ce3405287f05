------------------------------- MODULE Audio --------------------------------
(***************************************************************************)
(* The conversion of audio between the wire and the float samples that the *)
(* main loop passes on.  A float sample is represented by the integer      *)
(* number of 65536ths it stands for: readData() divides a 16-bit sample by *)
(* 65536.0, writeData() multiplies by 32767.0, adds one half and truncates *)
(* toward zero.  In single precision this gives Encoded for each of the    *)
(* 65536 samples.                                                          *)
(***************************************************************************)
EXTENDS Integers, Sequences

\* short val = lo + (hi << 8)
Sample(lo, hi) ==
  LET val == lo + 256 * hi IN IF val >= 32768 THEN val - 65536 ELSE val

\* The first n samples of an array of bytes.
Samples(bytes, n) == [i \in 1 .. n |-> Sample(bytes[2 * i - 1], bytes[2 * i])]

\* short(val / 65536.0F * 32767.0F + 0.5F)
Encoded(val) ==
  LET scaled == val * 32767 + 32768
  IN  IF scaled >= 0 THEN scaled \div 65536 ELSE -((-scaled) \div 65536)

EncodedAll(samples) == [i \in 1 .. Len(samples) |-> Encoded(samples[i])]
=============================================================================
