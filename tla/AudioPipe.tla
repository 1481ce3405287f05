----------------------------- MODULE AudioPipe ------------------------------
(***************************************************************************)
(* What the gateway promises in each of its two directions: the samples of *)
(* the packets that arrive leave in order, none lost, none repeated and    *)
(* none made up, in frames that may be cut anywhere.                       *)
(***************************************************************************)
EXTENDS Integers, Sequences

CONSTANTS Packets,      \* the samples of each packet that can arrive
          Capacity      \* the samples on their way are fewer

VARIABLES pipe,         \* the samples on their way, oldest first
          said          \* the samples sent by the last step

pipeVars == << pipe, said >>

PipeInit == pipe = << >> /\ said = << >>

Accept(packet) == pipe' = pipe \o packet /\ said' = << >>

Deliver(n) ==
  /\ said' = SubSeq(pipe, 1, n)
  /\ pipe' = SubSeq(pipe, n + 1, Len(pipe))

Idle == said' = << >> /\ UNCHANGED pipe

PipeNext ==
  \/ \E packet \in Packets : Accept(packet)
  \/ \E n \in 1 .. Len(pipe) : Deliver(n)
  \/ Idle

\* A packet that does not fit loses all that is on its way, and itself.
Lose(packet) ==
  /\ Len(pipe) + Len(packet) >= Capacity
  /\ pipe' = << >> /\ said' = << >>

LossySpec == PipeInit /\ [][PipeNext \/ \E packet \in Packets : Lose(packet)]_pipeVars

PipeSpec == PipeInit /\ [][PipeNext]_pipeVars
=============================================================================
