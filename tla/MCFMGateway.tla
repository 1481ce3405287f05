---------------------------- MODULE MCFMGateway -----------------------------
(***************************************************************************)
(* FMGateway with ring buffers of 20 bytes, blocks of 3 samples and frames *)
(* that hold 2: of the real proportions it keeps that a block is less than *)
(* half a buffer and more than a frame, and that a buffer holds the record *)
(* of every datagram.  Datagrams of the repeater: audio of 0 to 4 samples  *)
(* (3 are too many for a frame, 4 too many for a block), one with an odd   *)
(* byte at its end, a start, an end, a keepalive, two that are none of     *)
(* these, and two shorter than a tag.  Frames of the peer: 0, 1, 3 and 5   *)
(* samples.  The bytes differ, so that a lost or swapped one shows; 128    *)
(* and 255 make samples negative.                                          *)
(***************************************************************************)
EXTENDS FMGateway

MCFromRepeater ==
  { Local!FMD \o audio : audio \in
      { << >>, << 2, 1, 9 >>, << 255, 255, 0, 128 >>, << 255, 255, 0, 128, 254, 127 >>,
        << 255, 255, 0, 128, 254, 127, 3, 4 >> } } \union
  { Local!FMS \o << 65, 0 >>, Local!FME \o << 66 >>, Local!FMP, << 70, 77, 84 >>,
    << 71, 77, 68, 1, 1 >>, << 70 >>, << 70, 77 >> }

\* The last is more than a turn passes on, and two of it fill the buffer.
MCFromPeer ==
  { << >>, << 7, 1 >>, << 1, 200, 2, 3, 4, 255 >>, << 1, 200, 2, 3, 4, 255, 5, 6, 0, 128 >> }
=============================================================================
