----------------------------- MODULE IAXSession -----------------------------
(***************************************************************************)
(* CIAXNetwork together with a server, and a network between them that     *)
(* loses frames and, unless it keeps their order, lets them overtake each  *)
(* other, until at some time it is mended.  It follows the setting up and  *)
(* the end of a call: the frames of audio and keys that the main loop      *)
(* writes are left out.                                                    *)
(*                                                                         *)
(* The client is IAXNetwork.  The server is not part of the repository: it *)
(* is what IAXNetwork.cpp relies on, with the rules of IAX2.  It knows a   *)
(* call by the number that the client gave it, expects the frames of the   *)
(* client in sequence and passes over any other, and repeats its last      *)
(* frame until that has been acknowledged or it gives up.                  *)
(***************************************************************************)
EXTENDS IAXNetwork, SequencesExt

CONSTANTS Worlds,           \* the servers and networks that there may be
          MaxRepeats        \* how often the server repeats a frame

(***************************************************************************)
(* In a world, the server asks a new client by "AUTHREQ" or by "REGAUTH",  *)
(* and may end calls or ping a client it has asked; the network may keep   *)
(* the order of frames.  Two bounds: the frames under way to either side   *)
(* until the network is mended, and the objects, made one after the other. *)
(***************************************************************************)
ASSUME SessionAssumption ==
  /\ MaxRepeats \in Nat /\ SeqNumbers > 1
  /\ \A w \in Worlds :
       /\ w.method \in {"AUTHREQ", "REGAUTH"}
       /\ w.hangups \in BOOLEAN /\ w.pings \in BOOLEAN /\ w.ordered \in BOOLEAN
       /\ w.serverCapacity \in Nat \ {0} /\ w.clientCapacity \in Nat \ {0}
       /\ w.maxSessions \in Nat \ {0}

\* The server does not use the same number or challenge twice in a row, and
\* 0 is no number of a call.
ASSUME ChoiceAssumption ==
  /\ 0 \notin Calls /\ NoChallenge \notin Challenges
  /\ \A c \in Calls \union {0} : Calls \ {c} # {}
  /\ \A c \in Asked : Challenges \ {c} # {}

VARIABLES world,                \* that in which this session takes place
          toServer, toClient,   \* the frames under way
          mended,               \* whether the network has stopped losing frames
          srv,                  \* the server's side of the call
          session               \* the number of the client's object

sessionVars == << phase, iax, world, toServer, toClient, mended, srv, session >>

-----------------------------------------------------------------------------
(***************************************************************************)
(* The network.  At first a frame can be lost, and is lost when there is   *)
(* no room for it.  When the network is mended, frames arrive in order and *)
(* before either end does anything of its own accord: a round trip takes   *)
(* less than the 500 ms of the retry timer.                                *)
(***************************************************************************)
Put(flight, capacity, frames) ==
  LET all == flight \o frames
  IN  IF mended \/ Len(all) <= capacity THEN all ELSE SubSeq(all, 1, capacity)

Deliverable(flight) ==
  IF world.ordered \/ mended THEN DOMAIN flight \intersect {1} ELSE DOMAIN flight

Quiet == mended => toServer = << >> /\ toClient = << >>

Lose ==
  /\ ~mended
  /\ \/ \E i \in DOMAIN toServer : toServer' = RemoveAt(toServer, i) /\ UNCHANGED toClient
     \/ \E i \in DOMAIN toClient : toClient' = RemoveAt(toClient, i) /\ UNCHANGED toServer
  /\ UNCHANGED << world, phase, iax, mended, srv, session >>

Mend ==
  /\ ~mended /\ mended' = TRUE
  /\ UNCHANGED << world, phase, iax, toServer, toClient, srv, session >>

\* Of a frame the server reads its own number of the call, the number of the
\* frame or, in an ACK, the one after the frame that it acknowledges, and the
\* answer to its challenge.
AsRead(frame) ==
  [type |-> frame.type, dCall |-> frame.dCall, answer |-> frame.answer,
   number |-> IF frame.type = "ACK" THEN frame.iSeq ELSE frame.oSeq]

\* After a call of the object the frames it gave to the socket are under way.
Leaves(object) ==
  LET frames == [i \in DOMAIN object.out |-> AsRead(object.out[i])]
  IN  iax' = Begin(object) /\ toServer' = Put(toServer, world.serverCapacity, frames)

-----------------------------------------------------------------------------
(***************************************************************************)
(* The client                                                              *)
(***************************************************************************)
ClientOpens ==
  /\ phase = "new" /\ phase' = "open"
  /\ Leaves(Opened(iax))
  /\ UNCHANGED << world, toClient, mended, srv, session >>

Now(ms) == PingTimer(RetryTimer(iax, ms), ms)

\* Bound: no time passes for a client whose call is up.  All that it would do
\* is to send keepalives.
Passes(ms) == iax.status = "CONNECTED" \/ ~Quiet => ms = 0

\* clock() when nothing has arrived.
ClientTurns(ms) ==
  /\ phase = "open" /\ UNCHANGED phase
  /\ Passes(ms)
  /\ Leaves(Now(ms))
  /\ UNCHANGED << world, toClient, mended, srv, session >>

\* clock() with one of the frames that are under way.
ClientHears(ms, i) ==
  /\ phase = "open" /\ UNCHANGED phase
  /\ Passes(ms)
  /\ Leaves(Handled(Now(ms), toClient[i]))
  /\ toClient' = RemoveAt(toClient, i)
  /\ UNCHANGED << world, mended, srv, session >>

\* A signal ends the main loop, which closes the object.
ClientCloses ==
  /\ session < world.maxSessions
  /\ phase = "open" /\ phase' = "closed"
  /\ Leaves(Closed(iax))
  /\ UNCHANGED << world, toClient, mended, srv, session >>

\* Frames for the object before are still under way.
ClientRestarts ==
  /\ Restart
  /\ session' = session + 1
  /\ UNCHANGED << world, toServer, toClient, mended, srv >>

-----------------------------------------------------------------------------
(***************************************************************************)
(* The server                                                              *)
(***************************************************************************)
None == [type |-> "none", oSeq |-> 0, sCall |-> 0, challenge |-> NoChallenge, size |-> 0]

\* session is the object that the call was made for, call the server's number
\* of it, repeats counts for the frame in pending, expects and next are the
\* numbers of the two directions.  calls is history: how many calls
\* were made, up to two.
NewServer ==
  [state |-> "idle", session |-> 0, call |-> 0, challenge |-> NoChallenge,
   pending |-> None, repeats |-> 0, expects |-> 0, next |-> 0, pinged |-> FALSE,
   calls |-> 0]

\* The server without its call.
Idle ==
  [NewServer EXCEPT !.call = srv.call, !.challenge = srv.challenge,
                    !.calls = srv.calls]

ToClient(s, type, challenge) ==
  [type |-> type, oSeq |-> s.next, sCall |-> IF type = "ACK" THEN s.call ELSE 0,
   challenge |-> challenge, size |-> 0]

\* The server goes on to a state with a frame that it will repeat.
Saying(s, state, type, challenge) ==
  [s EXCEPT !.state = state, !.pending = ToClient(s, type, challenge),
            !.repeats = 0, !.next = (@ + 1) % SeqNumbers]

Ack(s) == ToClient(s, "ACK", NoChallenge)

AnotherThan(S, last) == CHOOSE x \in S : x # last

\* A NEW makes a call, with a number and a challenge that have not just been
\* used.  For a call that is known already it is a repetition.
HearNew ==
  IF srv.state # "idle"
  THEN UNCHANGED srv /\ toClient' = Put(toClient, world.clientCapacity, << Ack(srv) >>)
  ELSE LET c == AnotherThan(Challenges, srv.challenge)
           made == [Idle EXCEPT !.session = session, !.challenge = c, !.expects = 1,
                                !.call = AnotherThan(Calls, srv.call),
                                !.calls = IF @ = 2 THEN 2 ELSE @ + 1]
       IN  /\ srv' = Saying(made, "asked", world.method, c)
           /\ toClient' = Put(toClient, world.clientCapacity, << Ack(made), srv'.pending >>)

OfThisCall(frame) == srv.state # "idle" /\ frame.dCall = srv.call

InSequence(frame) == OfThisCall(frame) /\ frame.number = srv.expects

PassOver == UNCHANGED << srv, toClient >>

Heed(s) == srv' = s /\ toClient' = Put(toClient, world.clientCapacity, << srv'.pending >>)

\* AUTHREP or REGREQ: the server accepts the call when the answer is right.
HearAnswer(frame) ==
  LET s == [srv EXCEPT !.expects = (@ + 1) % SeqNumbers]
  IN  IF ~InSequence(frame) THEN PassOver
      ELSE IF srv.state # "asked"
           THEN srv' = s /\ toClient' = Put(toClient, world.clientCapacity, << Ack(srv) >>)
      ELSE IF frame.answer = srv.challenge
           THEN Heed(Saying(s, "up",
                            IF world.method = "AUTHREQ" THEN "ACCEPT" ELSE "REGACK", NoChallenge))
           ELSE Heed(Saying(s, "refused", "REJECT", NoChallenge))

\* A PONG, or another frame that the server makes no use of, is counted.
HearPong(frame) ==
  IF InSequence(frame)
  THEN srv' = [srv EXCEPT !.expects = (@ + 1) % SeqNumbers] /\ UNCHANGED toClient
  ELSE PassOver

\* The keepalive of a client is answered by a PONG, which it passes over.
HearPing(frame) ==
  IF InSequence(frame)
  THEN /\ srv' = [srv EXCEPT !.expects = (@ + 1) % SeqNumbers, !.next = (@ + 1) % SeqNumbers]
       /\ toClient' = Put(toClient, world.clientCapacity, << ToClient(srv, "NOTICE", NoChallenge) >>)
  ELSE PassOver

HearHangup(frame) ==
  IF InSequence(frame) THEN srv' = Idle /\ UNCHANGED toClient ELSE PassOver

\* An ACK of the last frame; a call that is over is then forgotten.
HearAck(frame) ==
  /\ UNCHANGED toClient
  /\ IF OfThisCall(frame) /\ srv.pending # None
        /\ frame.number = (srv.pending.oSeq + 1) % SeqNumbers
     THEN srv' = IF srv.state \in {"refused", "ended"} THEN Idle
                 ELSE [srv EXCEPT !.pending = None]
     ELSE UNCHANGED srv

ServerHears(i) ==
  /\ LET frame == toServer[i]
     IN  CASE frame.type = "NEW" -> HearNew
           [] frame.type \in {"AUTHREP", "REGREQ"} -> HearAnswer(frame)
           [] frame.type = "PING" -> HearPing(frame)
           [] frame.type = "HANGUP" -> HearHangup(frame)
           [] frame.type = "ACK" -> HearAck(frame)
           [] OTHER -> HearPong(frame)
  /\ toServer' = RemoveAt(toServer, i)
  /\ UNCHANGED << world, phase, iax, mended, session >>

ServerRepeats ==
  /\ Quiet /\ srv.pending # None /\ srv.repeats < MaxRepeats
  /\ toClient' = Put(toClient, world.clientCapacity, << srv.pending >>)
  /\ srv' = [srv EXCEPT !.repeats = @ + 1]
  /\ UNCHANGED << world, phase, iax, toServer, mended, session >>

Registering == phase = "open" /\ iax.status = "REGISTERNG"

\* The REGREQ that the client repeats (IAXNetwork.cpp:256-260, 1062-1070) is
\* what the server waits for.
InStep ==
  /\ Registering /\ srv.state = "asked"
  /\ InSequence([dCall |-> iax.dCall, number |-> iax.oSeq])

\* A call whose client does not answer, or is no longer there, is forgotten.
\* A client that repeats the answer does so in time, if the network lets it.
ServerGivesUp ==
  /\ Quiet /\ ~(mended /\ InStep)
  /\ \/ srv.pending # None /\ srv.repeats = MaxRepeats
     \/ srv.state # "idle" /\ srv.session # session
  /\ srv' = Idle
  /\ UNCHANGED << world, phase, iax, toServer, toClient, mended, session >>

\* While it waits for the answer the server measures the way to the client.
ServerPings ==
  /\ Quiet /\ world.pings /\ srv.state = "asked" /\ ~srv.pinged
  /\ toClient' = Put(toClient, world.clientCapacity, << ToClient(srv, "PING", NoChallenge) >>)
  /\ srv' = [srv EXCEPT !.pinged = TRUE, !.next = (@ + 1) % SeqNumbers]
  /\ UNCHANGED << world, phase, iax, toServer, mended, session >>

ServerHangsUp ==
  /\ Quiet /\ world.hangups /\ srv.state = "up" /\ srv.pending = None
  /\ Heed(Saying(srv, "ended", "HANGUP", NoChallenge))
  /\ UNCHANGED << world, phase, iax, toServer, mended, session >>

-----------------------------------------------------------------------------
SessionInit ==
  /\ Init /\ world \in Worlds
  /\ toServer = << >> /\ toClient = << >> /\ mended = FALSE /\ session = 1
  /\ srv = NewServer

Delivery ==
  \/ \E ms \in Elapsed, i \in Deliverable(toClient) : ClientHears(ms, i)
  \/ \E i \in Deliverable(toServer) : ServerHears(i)

SessionNext ==
  \/ ClientOpens \/ (\E ms \in Elapsed : ClientTurns(ms)) \/ ClientCloses \/ ClientRestarts
  \/ Delivery
  \/ ServerRepeats \/ ServerGivesUp \/ ServerPings \/ ServerHangsUp
  \/ Lose \/ Mend

\* The main loop turns, and takes time (FMGateway.cpp:295-296).  The server
\* repeats and gives up.  Frames that are not lost arrive.  Nothing has to be
\* closed, pinged, hung up or mended.
SessionSpec ==
  /\ SessionInit /\ [][SessionNext]_sessionVars
  /\ WF_sessionVars(ClientOpens) /\ WF_sessionVars(ClientRestarts)
  /\ WF_sessionVars(\E ms \in Elapsed \ {0} : ClientTurns(ms))
  /\ WF_sessionVars(Delivery)
  /\ SF_sessionVars(ServerRepeats) /\ SF_sessionVars(ServerGivesUp)
-----------------------------------------------------------------------------
(***************************************************************************)
(* Properties                                                              *)
(***************************************************************************)
\* No handler looks at the status or at the number of the call
\* (IAXNetwork.cpp:318-389, 419-433), and m_seed is that of any challenge.  Yet
\* until the server makes a second call, whatever is lost or overtaken and
\* also for an object after a restart: the client, who knows the password, is
\* not refused; it takes the call for up only after it was accepted, and for
\* over only after the server has ended it.
FirstCallAgreed ==
  srv.calls <= 1 =>
    /\ srv.state # "refused"
    /\ iax.status = "CONNECTED" => srv.calls = 1 /\ srv.state # "asked"
    /\ phase = "open" /\ iax.status = "DISCONNECTED" => srv.calls = 1 /\ srv.state \in {"ended", "idle"}

Trying == phase = "open" /\ iax.status = "CONNECTING"

\* AUTHREP is never repeated, yet from every state that losses, late and
\* overtaken frames and closed objects have led to, the NEW that goes on being
\* repeated (IAXNetwork.cpp:251-255) brings about an answer.
ComesUp == mended /\ Trying ~> ~Trying

\* All frames have arrived, the server asks no more, and it does not wait for
\* the REGREQ that the client repeats.
OutOfStep ==
  /\ mended /\ Registering /\ ~InStep
  /\ toServer = << >> /\ toClient = << >>
  /\ srv.pending.type = "none" \/ (srv.pending.type = "REGAUTH" /\ srv.repeats = MaxRepeats)

\* A registration comes to an end, or is out of step, and then nothing that
\* the code does mends it: NEW is no longer sent, REGREQ keeps the wrong
\* number, and it goes on until the object is closed (IAXNetwork.cpp:256-260,
\* 1062-1070).
RegistersOrNever ==
  /\ mended /\ Registering ~> ~Registering \/ OutOfStep
  /\ [](OutOfStep => [](Registering \/ phase # "open" \/ session > 1))

\* When frames keep their order, a client that the server tells of the end of
\* the call notices, and no frame that is still under way brings the call up
\* again (IAXNetwork.cpp:318-330, 419-433).
Told == srv.state = "ended" /\ srv.repeats < MaxRepeats

HangupIsFinal ==
  [](world.ordered /\ mended /\ Told => <>[](iax.status # "CONNECTED"))
=============================================================================
