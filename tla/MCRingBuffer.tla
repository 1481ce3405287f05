---------------------------- MODULE MCRingBuffer ----------------------------
(***************************************************************************)
(* RingBuffer on four cells.  MaxChunk is the bound on one call: it is     *)
(* larger than the buffer, so that a chunk can fail to fit even an empty   *)
(* buffer.                                                                 *)
(***************************************************************************)
EXTENDS RingBuffer, SequencesExt

CONSTANT MaxChunk

MCChunks == SeqOf(Elements \ {Zero}, MaxChunk)
MCCounts == 0 .. MaxChunk
=============================================================================
