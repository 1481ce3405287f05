---------------------------- MODULE MCRAWNetwork ----------------------------
(***************************************************************************)
(* RAWNetwork with blocks of 3 samples, arrays of 6 and a ring buffer of   *)
(* 12 bytes, at the repeater's rate, one and a half times that, less, and  *)
(* three times that, at which a block is too long for the arrays.  The     *)
(* main loop also passes on no samples.  The peer sends up to 5 samples at *)
(* a time, more than are read at once, of which some end in the middle of  *)
(* a sample, and two large datagrams overflow the buffer.  The bytes       *)
(* differ.                                                                 *)
(***************************************************************************)
EXTENDS RAWNetwork

MCFromLoop == { << >>, << 1 >>, << -32768, 0, 32767 >> }

MCFromPeer == { << 1 >>, << 3, 4, 5, 6, 200 >>, << 8, 9, 10, 11, 12, 13, 14, 15, 16, 17 >> }
=============================================================================
