---------------------------- MODULE MCIAXNetwork ----------------------------
(***************************************************************************)
(* IAXNetwork with three sequence numbers, so that they wrap within a few  *)
(* frames, two call numbers to tell a late ACK from the first, and a ring  *)
(* buffer of three samples.  A turn takes no time or 2 units: the          *)
(* retry timer expires exactly, the ping timer is overrun.  The main loop  *)
(* passes on no samples, as many as a frame holds, or one more.            *)
(***************************************************************************)
EXTENDS IAXNetwork
=============================================================================
