----------------------------- MODULE IAXNetwork -----------------------------
(***************************************************************************)
(* CIAXNetwork (IAXNetwork.cpp): the client side of one IAX2 call to an    *)
(* Asterisk server.  open() sends NEW and repeats it until the server      *)
(* accepts, rejects, or asks for a registration; once the call is up it is *)
(* kept alive with PING.  All progress is made in clock(), which the main  *)
(* loop calls once per turn: it runs two timers and handles at most one    *)
(* datagram.                                                               *)
(*                                                                         *)
(* The object is the record iax, and each private write function is an     *)
(* operator from records to records, because clock() calls several in a    *)
(* row.  iax.out holds the frames that the last call gave to the socket;   *)
(* whether they get anywhere is not known to the code.  Of a frame the     *)
(* fields that steer the protocol are kept.  Timestamps, the information   *)
(* elements other than the challenge and the counters of received frames   *)
(* reported in PONG are left out.                                          *)
(*                                                                         *)
(* writeData() can end the program: its assertion fails over a block       *)
(* without samples, and its two arrays of 300 hold no more than 296 and    *)
(* the header, which nothing checks.  The phases "aborted" and "undefined" *)
(* are final: nothing is said of what follows.                             *)
(***************************************************************************)
EXTENDS Integers, Sequences, Timer

CONSTANTS RetryTimeout,     \* m_retryTimer: Timeout(0, 500)
          PingTimeout,      \* m_pingTimer: Timeout(20, 0)
          SeqNumbers,       \* the values of a uint8_t sequence number
          RingLength,       \* 2000U, the length of m_buffer
          Elapsed,          \* the times one turn of the main loop can take
          Calls,            \* the call numbers a server can choose
          Challenges,       \* the challenges a server can make
          Sizes,            \* the numbers of samples in a frame of audio
          Blocks,           \* the numbers of samples the main loop passes on
          MiniLength        \* 296, those that the array of a frame holds

ASSUME IAXAssumption ==
  /\ RetryTimeout \in Nat /\ RetryTimeout > 1
  /\ PingTimeout \in Nat /\ PingTimeout > 1
  /\ SeqNumbers \in Nat \ {0}
  /\ RingLength \in Nat \ {0}
  /\ Elapsed \subseteq Nat /\ Calls \subseteq Nat /\ Sizes \subseteq Nat
  /\ Blocks \subseteq Nat /\ MiniLength \in Nat

VARIABLES phase,    \* what the caller has done with the object
          iax       \* the object

vars == << phase, iax >>

Final == {"aborted", "undefined"}

NoChallenge == "none"       \* m_seed before any challenge
Asked == Challenges \union {NoChallenge}

\* Replies and notices: see Handled.
FrameTypes == {"NEW", "ACK", "PING", "PONG", "AUTHREP", "REGREQ", "LAGRQ", "LAGRP",
               "HANGUP", "KEY", "UNKEY", "VOICE", "MINI"}

Frames == [type : FrameTypes, retry : BOOLEAN, dCall : Nat,
           oSeq : 0 .. SeqNumbers - 1, iSeq : 0 .. SeqNumbers - 1, answer : Asked]

Statuses == {"DISCONNECTED", "CONNECTING", "REGISTERNG", "CONNECTED"}

Objects == [status : Statuses, retry : Nat, ping : Nat, seed : Asked,
            sCall : Nat, dCall : Nat, iSeq : 0 .. SeqNumbers - 1,
            oSeq : 0 .. SeqNumbers - 1, keyed : BOOLEAN,
            buffered : 0 .. RingLength - 1, out : Seq(Frames)]

\* The constructor.
NewObject ==
  [status |-> "DISCONNECTED", retry |-> Stopped, ping |-> Stopped, seed |-> NoChallenge,
   sCall |-> 0, dCall |-> 0, iSeq |-> 0, oSeq |-> 0, keyed |-> FALSE,
   buffered |-> 0, out |-> << >>]

\* At the beginning of a call nothing has been sent yet.
Begin(s) == [s EXCEPT !.out = << >>]

-----------------------------------------------------------------------------
(***************************************************************************)
(* The private functions that write a frame                                *)
(***************************************************************************)
Send(s, type, retry, answer) ==
  [s EXCEPT !.out = Append(@, [type |-> type, retry |-> retry, dCall |-> s.dCall,
                               oSeq |-> s.oSeq, iSeq |-> s.iSeq, answer |-> answer])]

\* A frame that the peer has to acknowledge has the next sequence number.
Advance(s) == [s EXCEPT !.oSeq = (@ + 1) % SeqNumbers]

\* A NEW starts the numbers again, and forgets the number of the peer's call.
WriteNew(s, retry) ==
  Send([s EXCEPT !.sCall = IF retry THEN @ ELSE @ + 1,
                 !.oSeq = 0, !.iSeq = 0, !.dCall = 0], "NEW", retry, NoChallenge)

\* Variant of WriteAuthRep that repeats the last sequence number.
WriteAuthRepStale(s) == Send(s, "AUTHREP", FALSE, s.seed)

WriteAuthRep(s) == Send(Advance(s), "AUTHREP", FALSE, s.seed)

WriteKey(s, key) == Send(Advance(s), IF key THEN "KEY" ELSE "UNKEY", FALSE, NoChallenge)

WritePing(s) == Send(Advance(s), "PING", FALSE, NoChallenge)

WritePong(s) == Send(Advance(s), "PONG", FALSE, NoChallenge)

WriteAck(s) == Send(s, "ACK", FALSE, NoChallenge)

WriteLagRp(s) == Send(Advance(s), "LAGRP", FALSE, NoChallenge)

WriteLagRq(s) == Send(Advance(s), "LAGRQ", FALSE, NoChallenge)

WriteHangup(s) == Send(Advance(s), "HANGUP", FALSE, NoChallenge)

\* A retried REGREQ keeps the number of whatever was sent last.  The answer
\* to the challenge is left out while the peer's call number is unknown.
WriteRegReq(s, retry) ==
  Send(IF retry THEN s ELSE Advance(s), "REGREQ", retry,
       IF s.dCall > 0 THEN s.seed ELSE NoChallenge)

WriteAudio(s) == Send(Advance(s), "VOICE", FALSE, NoChallenge)

\* The short frames of writeData() have no sequence number.
WriteMini(s) == Send(s, "MINI", FALSE, NoChallenge)

-----------------------------------------------------------------------------
(***************************************************************************)
(* clock(): the timers                                                     *)
(***************************************************************************)
\* Variant of RetryDue that does not repeat a NEW.
RetryDueOnce(s) == IF s.status = "REGISTERNG" THEN WriteRegReq(s, TRUE) ELSE s

\* Variant of RetryDue that does not repeat a REGREQ.
RetryDueOnlyNew(s) == IF s.status = "CONNECTING" THEN WriteNew(s, TRUE) ELSE s

\* What is repeated when the retry timer expires.
RetryDue(s) ==
  IF s.status = "CONNECTING" THEN WriteNew(s, TRUE)
  ELSE IF s.status = "REGISTERNG" THEN WriteRegReq(s, TRUE)
  ELSE s

RetryTimer(s, ms) ==
  LET now == [s EXCEPT !.retry = Ticked(@, RetryTimeout, ms)]
  IN  IF IsRunning(now.retry) /\ HasExpired(now.retry, RetryTimeout)
      THEN [RetryDue(now) EXCEPT !.retry = Started(@, RetryTimeout)]
      ELSE now

PingTimer(s, ms) ==
  LET now == [s EXCEPT !.ping = Ticked(@, PingTimeout, ms)]
  IN  IF IsRunning(now.ping) /\ HasExpired(now.ping, PingTimeout)
      THEN [WritePing(now) EXCEPT !.ping = Started(@, PingTimeout)]
      ELSE now

-----------------------------------------------------------------------------
(***************************************************************************)
(* clock(): the datagram.  No handler looks at the status, or at the call  *)
(* number that a frame is for: any frame is handled at any time.           *)
(***************************************************************************)
\* Every frame but an ACK and a short frame of audio is answered by a frame
\* that carries the number after its own.
Received(s, frame) == [s EXCEPT !.iSeq = (frame.oSeq + 1) % SeqNumbers]

Acknowledged(s, frame) == WriteAck(Received(s, frame))

\* Variant of Connected that does not start the ping timer.
ConnectedSilent(s) == [s EXCEPT !.status = "CONNECTED", !.retry = Stopped]

\* ACCEPT and REGACK: the call is up.
Connected(s) ==
  [s EXCEPT !.status = "CONNECTED", !.retry = Stopped, !.ping = Started(@, PingTimeout)]

\* Variant of Disconnected that lets the retry timer run.
DisconnectedRetrying(s) ==
  [s EXCEPT !.status = "DISCONNECTED", !.keyed = FALSE, !.ping = Stopped]

\* REGREJ, REJECT and HANGUP: the call is over.
Disconnected(s) ==
  [s EXCEPT !.status = "DISCONNECTED", !.keyed = FALSE,
            !.retry = Stopped, !.ping = Stopped]

\* Variant of HandleAck that takes the call number of every ACK.
HandleAckAlways(s, frame) == [s EXCEPT !.dCall = frame.sCall]

\* The peer's call number is taken from the first ACK.
HandleAck(s, frame) == IF s.dCall = 0 THEN [s EXCEPT !.dCall = frame.sCall] ELSE s

HandlePing(s, frame) == WritePong(Acknowledged(s, frame))

HandleAccept(s, frame) == Connected(Acknowledged(s, frame))

HandleReject(s, frame) == Disconnected(Acknowledged(s, frame))

\* Variant of HandleRegAuth that does not look at the method.
HandleRegAuthAny(s, frame) ==
  WriteRegReq([Received(s, frame) EXCEPT !.status = "REGISTERNG", !.seed = frame.challenge,
                                         !.retry = Started(@, RetryTimeout)], FALSE)

\* Variant of HandleRegAuth that does not start the retry timer.
HandleRegAuthOnce(s, frame) ==
  IF frame.challenge = NoChallenge THEN s
  ELSE WriteRegReq([Received(s, frame) EXCEPT !.status = "REGISTERNG",
                                              !.seed = frame.challenge], FALSE)

\* A challenge counts when its method is MD5.  There is no ACK: the REGREQ
\* or AUTHREP with the answer carries the sequence number.
HandleRegAuth(s, frame) ==
  IF frame.challenge = NoChallenge THEN s
  ELSE WriteRegReq([Received(s, frame) EXCEPT !.status = "REGISTERNG",
                                              !.seed = frame.challenge,
                                              !.retry = Started(@, RetryTimeout)], FALSE)

\* Variant of HandleAuthReq that answers before it has taken the challenge.
HandleAuthReqEarly(s, frame) ==
  IF frame.challenge = NoChallenge THEN s
  ELSE [WriteAuthRep(Received(s, frame)) EXCEPT !.seed = frame.challenge]

HandleAuthReq(s, frame) ==
  IF frame.challenge = NoChallenge THEN s
  ELSE WriteAuthRep([Received(s, frame) EXCEPT !.seed = frame.challenge])

HandleRegAck(s, frame) == Connected(Acknowledged(s, frame))

\* Variant of HandleHangup that only acknowledges.
HandleHangupNoticed(s, frame) == Acknowledged(s, frame)

HandleHangup(s, frame) == Disconnected(Acknowledged(s, frame))

\* Variant of HandleNotice that acknowledges before it has taken the number.
HandleNoticeEarly(s, frame) == Received(WriteAck(s), frame)

\* PONG, RINGING, ANSWER, VNAK, STOP SOUNDS, OPTION, TEXT, LAGRP and frames
\* that are not known are acknowledged and otherwise ignored.
HandleNotice(s, frame) == Acknowledged(s, frame)

\* A LAGRQ is answered with a LAGRQ and a LAGRP.
HandleLagRq(s, frame) == WriteLagRp(WriteLagRq(Received(s, frame)))

HandleKey(s, frame) == [Acknowledged(s, frame) EXCEPT !.keyed = TRUE]

HandleUnkey(s, frame) == [Acknowledged(s, frame) EXCEPT !.keyed = FALSE]

\* Variant of Buffer that fills the ring buffer to the brim.
BufferToTheBrim(s, n) ==
  IF ~s.keyed THEN s
  ELSE [s EXCEPT !.buffered = IF n <= RingLength - @ THEN @ + n ELSE 0]

\* Audio is kept while the peer is keyed; too much of it clears the buffer.
Buffer(s, n) ==
  IF ~s.keyed THEN s
  ELSE [s EXCEPT !.buffered = IF n < RingLength - @ THEN @ + n ELSE 0]

HandleVoice(s, frame) == Buffer(Acknowledged(s, frame), frame.size)

HandleMini(s, frame) == Buffer(s, frame.size)

\* The chain of comparisons in clock().
Handled(s, frame) ==
  CASE frame.type = "ACK"     -> HandleAck(s, frame)
    [] frame.type = "PING"    -> HandlePing(s, frame)
    [] frame.type = "ACCEPT"  -> HandleAccept(s, frame)
    [] frame.type = "REJECT"  -> HandleReject(s, frame)
    [] frame.type = "REGAUTH" -> HandleRegAuth(s, frame)
    [] frame.type = "AUTHREQ" -> HandleAuthReq(s, frame)
    [] frame.type = "REGACK"  -> HandleRegAck(s, frame)
    [] frame.type = "HANGUP"  -> HandleHangup(s, frame)
    [] frame.type = "LAGRQ"   -> HandleLagRq(s, frame)
    [] frame.type = "KEY"     -> HandleKey(s, frame)
    [] frame.type = "UNKEY"   -> HandleUnkey(s, frame)
    [] frame.type = "VOICE"   -> HandleVoice(s, frame)
    [] frame.type = "MINI"    -> HandleMini(s, frame)
    [] frame.type = "NOTICE"  -> HandleNotice(s, frame)

\* The frames of the server, with the fields that their type makes use of.
Incoming(types, calls, challenges, sizes) ==
  [type : types, oSeq : 0 .. SeqNumbers - 1, sCall : calls,
   challenge : challenges, size : sizes]

Arrivals ==
  Incoming({"PING", "ACCEPT", "REJECT", "REGACK", "HANGUP", "LAGRQ", "KEY", "UNKEY", "NOTICE"},
           {0}, {NoChallenge}, {0})
  \union Incoming({"ACK"}, Calls, {NoChallenge}, {0})
  \union Incoming({"REGAUTH", "AUTHREQ"}, {0}, Asked, {0})
  \union Incoming({"VOICE", "MINI"}, {0}, {NoChallenge}, Sizes)

-----------------------------------------------------------------------------
(***************************************************************************)
(* The operations of INetwork, as the main loop may call them              *)
(***************************************************************************)
Init == phase = "new" /\ iax = NewObject

\* open() up to the NEW.
Calling(s) == WriteNew([s EXCEPT !.dCall = 0, !.keyed = FALSE], FALSE)

Opened(s) == [Calling(s) EXCEPT !.status = "CONNECTING", !.retry = Started(@, RetryTimeout)]

\* open(): without an address or a socket nothing is changed; if the NEW
\* cannot be sent the socket is closed again and no timer is started.
OpenFails ==
  /\ phase = "new" /\ phase' = "closed"
  /\ iax' \in { Begin(iax), Calling(Begin(iax)) }

Open == phase = "new" /\ phase' = "open" /\ iax' = Opened(Begin(iax))

\* The write functions do nothing unless the call is up.  writeStart() goes
\* on to a full frame of silence if the KEY could be sent.
WriteStart ==
  /\ phase = "open" /\ UNCHANGED phase
  /\ IF iax.status # "CONNECTED" THEN iax' = Begin(iax)
     ELSE LET keyed == WriteKey(Begin(iax), TRUE) IN iax' \in { keyed, WriteAudio(keyed) }

\* The assertion of writeData() comes before the status is looked at.
WriteData(n) ==
  /\ phase = "open"
  /\ \/ n = 0 /\ phase' = "aborted" /\ iax' = Begin(iax)
     \/ n > 0 /\ iax.status # "CONNECTED" /\ UNCHANGED phase /\ iax' = Begin(iax)
     \/ /\ n > MiniLength /\ iax.status = "CONNECTED"
        /\ phase' = "undefined" /\ iax' = Begin(iax)
     \/ /\ n \in 1 .. MiniLength /\ iax.status = "CONNECTED"
        /\ UNCHANGED phase /\ iax' = WriteMini(Begin(iax))

\* Variant of WriteEnd that does not look at the status.
WriteEndAlways ==
  /\ phase = "open" /\ UNCHANGED phase
  /\ iax' = WriteKey(Begin(iax), FALSE)

WriteEnd ==
  /\ phase = "open" /\ UNCHANGED phase
  /\ iax' = IF iax.status # "CONNECTED" THEN Begin(iax) ELSE WriteKey(Begin(iax), FALSE)

\* clock(): the timers first, then the one datagram if there is one from
\* the address of the server.
Clock(ms) ==
  /\ phase = "open" /\ UNCHANGED phase
  /\ LET s == PingTimer(RetryTimer(Begin(iax), ms), ms)
     IN  \/ iax' = s
         \/ \E frame \in Arrivals : iax' = Handled(s, frame)

\* readData() takes as many samples as there are, at most nOut.
ReadData(nOut) ==
  /\ phase = "open" /\ UNCHANGED phase
  /\ iax' = [Begin(iax) EXCEPT !.buffered = IF @ < nOut THEN 0 ELSE @ - nOut]

\* close()
Closed(s) ==
  [WriteHangup(s) EXCEPT !.status = "DISCONNECTED", !.retry = Stopped, !.ping = Stopped]

Close == phase = "open" /\ phase' = "closed" /\ iax' = Closed(Begin(iax))

\* run() is called again after a SIGHUP, with a new object.
Restart == phase = "closed" /\ phase' = "new" /\ iax' = NewObject

\* The program has ended.
Ended == phase \in Final /\ UNCHANGED vars

Next ==
  \/ OpenFails \/ Open \/ WriteStart \/ WriteEnd \/ Close \/ Restart \/ Ended
  \/ \E n \in Blocks : WriteData(n)
  \/ \E ms \in Elapsed : Clock(ms)
  \/ \E nOut \in Sizes : ReadData(nOut)

\* The main loop calls clock() in every turn, and no two turns in a row take
\* no time (FMGateway.cpp:295-296).
Spec == Init /\ [][Next]_vars /\ WF_vars(\E ms \in Elapsed \ {0} : Clock(ms))
-----------------------------------------------------------------------------
(***************************************************************************)
(* Properties                                                              *)
(***************************************************************************)
TypeOK == phase \in {"new", "open", "closed"} \union Final /\ iax \in Objects

OnTime(timer, timeout) == IsRunning(timer) /\ ~HasExpired(timer, timeout)

\* The timers and the status are set in separate statements of open(),
\* close() and eight handlers (IAXNetwork.cpp:186-187, 328-433, 589-592).
\* They agree: something is to be repeated exactly while an answer is
\* awaited, a call that is up is kept alive, nothing runs otherwise, and
\* after every call what is due has been done.
Timed(s) ==
  /\ s.status \in {"CONNECTING", "REGISTERNG"} => OnTime(s.retry, RetryTimeout)
  /\ s.status \in {"DISCONNECTED", "CONNECTED"} => s.retry = Stopped
  /\ s.status = "CONNECTED" => OnTime(s.ping, PingTimeout)
  /\ s.status \in {"DISCONNECTED", "CONNECTING"} => s.ping = Stopped

TimerDiscipline ==
  Timed(iax) /\ (phase \in {"new", "closed"} => iax.status = "DISCONNECTED")

\* A frame that should carry an answer carries one.
AnswerGiven(frame) ==
  frame.type = "AUTHREP" \/ (frame.type = "REGREQ" /\ frame.dCall > 0)
    => frame.answer # NoChallenge

\* The server is sent the answer to a challenge only after it made one:
\* also when a REGREQ is repeated, long after the REGAUTH that called for it
\* (IAXNetwork.cpp:249-263, 379-389).
AnswersOnlyChallenges ==
  /\ iax.status = "REGISTERNG" => iax.seed # NoChallenge
  /\ \A i \in DOMAIN iax.out : AnswerGiven(iax.out[i])

Sent(type) == \E i \in DOMAIN iax.out : iax.out[i].type = type

\* Once the number of the peer's call is known it is kept until a NEW is
\* sent: an ACK that comes late or twice cannot redirect the call
\* (IAXNetwork.cpp:296-298, 615).
CallIdentity ==
  [][ iax.dCall # 0 /\ iax'.dCall # iax.dCall => phase = "closed" \/ Sent("NEW")' ]_vars

\* The number that a frame carries when n is that of the frame before it.
\* Only a frame that the peer must acknowledge has a new one, and only when
\* it is sent for the first time; a NEW starts again at zero.
NumberAfter(n, frame) ==
  IF frame.type = "NEW" THEN 0
  ELSE IF frame.type \in {"ACK", "MINI"} \/ frame.retry THEN n
  ELSE (n + 1) % SeqNumbers

\* The frames follow each other from number n on, and end with number last.
Numbered(n, frames, last) ==
  LET before(i) == IF i = 1 THEN n ELSE frames[i - 1].oSeq
  IN  /\ \A i \in DOMAIN frames : frames[i].oSeq = NumberAfter(before(i), frames[i])
      /\ last = before(Len(frames) + 1)

\* The frames that the peer must acknowledge are numbered without a gap or a
\* repetition, within a call of the object and from one call to the next,
\* although each writer steps m_oSeqNo by itself (IAXNetwork.cpp:614-1234).
NumbersFollow ==
  [][ phase # "closed" => Numbered(iax.oSeq, iax'.out, iax'.oSeq) ]_vars

\* No frame of the peer is taken without the peer being told: whenever
\* m_iSeqNo moves, the last frame of that call carries the new number.
EveryReceiptAcknowledged ==
  [][ iax'.iSeq # iax.iSeq /\ phase # "closed" =>
        /\ iax'.out # << >>
        /\ iax'.out[Len(iax'.out)].iSeq = iax'.iSeq ]_vars

\* A call that is over sends nothing of its own accord: no frame is repeated,
\* no keepalive is sent, and no audio or key of the main loop goes out.
\* Frames of the peer are still answered.
QuietWhenDisconnected ==
  [][ phase = "open" /\ phase' = "open" /\ iax.status = "DISCONNECTED" =>
        \A i \in DOMAIN iax'.out :
          /\ iax'.out[i].type \notin {"NEW", "PING", "KEY", "UNKEY", "VOICE", "MINI"}
          /\ ~iax'.out[i].retry ]_vars

\* A NEW that is not answered is sent again and again, for as long as the
\* program lives.
NewRepeats == []<>(iax.status # "CONNECTING" \/ Sent("NEW") \/ phase \in Final)

\* So is a REGREQ.
RegReqRepeats == []<>(iax.status # "REGISTERNG" \/ Sent("REGREQ") \/ phase \in Final)

\* A call that is up does not fall silent: unless the server keeps being
\* acknowledged, PING goes on.
CallKeptAlive ==
  []<>(iax.status # "CONNECTED" \/ Sent("PING") \/ Sent("ACK") \/ phase \in Final)
=============================================================================
