---------------------------- MODULE MCUDPSocket -----------------------------
(***************************************************************************)
(* UDPSocket with four descriptors, so that the number of the socket can   *)
(* be 0, another, one that it had before, or not to be had.                *)
(***************************************************************************)
EXTENDS UDPSocket
=============================================================================
