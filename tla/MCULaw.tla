------------------------------- MODULE MCULaw -------------------------------
(***************************************************************************)
(* ULaw for every value of an int16_t.                                     *)
(***************************************************************************)
EXTENDS ULaw

Int16 == -32768 .. 32767
=============================================================================
