---------------------------- MODULE MCLifecycle -----------------------------
(***************************************************************************)
(* Lifecycle with as many descriptors as a process needs that has been     *)
(* restarted, and too few for one that has lost some in every run: in the  *)
(* foreground and as a daemon, with and without a squelch file, with a     *)
(* path of the .ini file that a restarted daemon does not find, and with a *)
(* protocol that does not exist.                                           *)
(***************************************************************************)
EXTENDS Lifecycle

Foreground ==
  [daemon |-> FALSE, protocol |-> "USRP", squelchFile |-> FALSE, relativePath |-> TRUE]

MCClientNames == << "client1", "client2", "client3" >>

MCOptions ==
  { [Foreground EXCEPT !.protocol = "RAW", !.squelchFile = TRUE],
    [Foreground EXCEPT !.daemon = TRUE, !.relativePath = FALSE],
    [Foreground EXCEPT !.daemon = TRUE], [Foreground EXCEPT !.protocol = "other"] }
=============================================================================
