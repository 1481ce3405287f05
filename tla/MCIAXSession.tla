---------------------------- MODULE MCIAXSession ----------------------------
(***************************************************************************)
(* IAXSession with a retry timer of two turns, two call numbers and two    *)
(* challenges of the server, so that those of the call before are told     *)
(* from those of the call that is, and one repetition by the server: two   *)
(* worlds for a call that is to come up, and two for what may end it or    *)
(* come instead.  No audio is sent.                                        *)
(***************************************************************************)
EXTENDS IAXSession

Calm ==
  [method |-> "AUTHREQ", hangups |-> FALSE, pings |-> FALSE, ordered |-> FALSE,
   serverCapacity |-> 1, clientCapacity |-> 1, maxSessions |-> 1]

\* Frames to the client overtake each other; the client is restarted.
CallWorlds ==
  { [Calm EXCEPT !.clientCapacity = 2], [Calm EXCEPT !.maxSessions = 2] }

\* The server registers the client, and pings it; the server ends the call.
EndWorlds ==
  { [Calm EXCEPT !.method = "REGAUTH", !.pings = TRUE],
    [Calm EXCEPT !.hangups = TRUE, !.ordered = TRUE, !.clientCapacity = 2] }
=============================================================================
