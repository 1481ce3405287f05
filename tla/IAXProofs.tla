------------------------------ MODULE IAXProofs -----------------------------
(***************************************************************************)
(* Two parts.  The first is about CIAXNetwork alone (IAXNetwork), for      *)
(* every length of the timers, every set of call numbers, challenges and   *)
(* elapsed times, and whatever the server sends in whatever order: the     *)
(* timers agree with the status, no challenge is answered that was not     *)
(* made, and frames are numbered and acknowledged.  It follows the         *)
(* functions that write a frame, which touch neither the status nor a      *)
(* timer, then the two timers and the handlers, which are built from them. *)
(*                                                                         *)
(* The second is about client and server together (IAXSession), for every  *)
(* number of challenges and calls, every capacity of the network and all   *)
(* timers: what the client and the server believe of the first call that   *)
(* the server makes agrees, whatever is lost or overtaken.  The challenge  *)
(* of that call is followed from the server to m_seed and back in the      *)
(* answers; and a frame that tells of the state of the call is under way   *)
(* only after the server has come to that state.                           *)
(***************************************************************************)
EXTENDS IAXSession, SequenceTheorems, TLAPS

\* What holds of the object at every point of a call.
Core(s) ==
  /\ s \in Objects
  /\ s.status = "REGISTERNG" => s.seed # NoChallenge
  /\ \A i \in DOMAIN s.out : AnswerGiven(s.out[i])

\* The part of the object that the timers and the answers depend on.
Same(t, s) ==
  t.status = s.status /\ t.retry = s.retry /\ t.ping = s.ping /\ t.seed = s.seed

Fine(s) == Core(s) /\ Timed(s)

LEMMA SameTimed ==
  ASSUME NEW s, NEW t, Timed(s), Same(t, s)
  PROVE  Timed(t)
BY DEF Timed, Same

LEMMA SameTransitive ==
  ASSUME NEW s, NEW t, NEW u, Same(t, s), Same(u, t)
  PROVE  Same(u, s)
BY DEF Same

\* A frame is put at the end of what was sent.
LEMMA SendCore ==
  ASSUME NEW s, Core(s), NEW type \in FrameTypes, NEW retry \in BOOLEAN,
         NEW answer \in Asked,
         type = "AUTHREP" \/ (type = "REGREQ" /\ s.dCall > 0) => answer # NoChallenge
  PROVE  Core(Send(s, type, retry, answer)) /\ Same(Send(s, type, retry, answer), s)
<1> DEFINE frame == [type |-> type, retry |-> retry, dCall |-> s.dCall,
                     oSeq |-> s.oSeq, iSeq |-> s.iSeq, answer |-> answer]
           t == Send(s, type, retry, answer)
<1>1. s \in Objects
  BY DEF Core
<1>2. frame \in Frames
  BY <1>1 DEF Objects, Frames
<1>3. AnswerGiven(frame)
  BY DEF AnswerGiven
<1> HIDE DEF frame
<1>4. t = [s EXCEPT !.out = Append(@, frame)]
  BY DEF Send, frame
<1>5. s.out \in Seq(Frames)
  BY <1>1 DEF Objects
<1>6. /\ Append(s.out, frame) \in Seq(Frames)
      /\ DOMAIN Append(s.out, frame) = 1 .. Len(s.out) + 1
      /\ \A i \in 1 .. Len(s.out) : Append(s.out, frame)[i] = s.out[i]
      /\ Append(s.out, frame)[Len(s.out) + 1] = frame
  BY <1>2, <1>5, AppendProperties
<1>7. t \in Objects /\ t.out = Append(s.out, frame) /\ Same(t, s)
  BY <1>1, <1>4, <1>6 DEF Objects, Same
<1>8. \A i \in DOMAIN t.out : AnswerGiven(t.out[i])
  <2>1. \A i \in 1 .. Len(s.out) : AnswerGiven(s.out[i])
    BY <1>5 DEF Core
  <2>2. \A i \in 1 .. Len(s.out) + 1 : i \in 1 .. Len(s.out) \/ i = Len(s.out) + 1
    BY <1>5
  <2> QED BY <1>3, <1>6, <1>7, <2>1, <2>2
<1> QED BY <1>7, <1>8 DEF Core, Same

LEMMA AdvanceCore ==
  ASSUME NEW s, Core(s)
  PROVE  /\ Core(Advance(s)) /\ Same(Advance(s), s)
         /\ Advance(s).dCall = s.dCall
<1>1. s \in Objects /\ s.oSeq \in 0 .. SeqNumbers - 1
  BY DEF Core, Objects
<1>2. (s.oSeq + 1) % SeqNumbers \in 0 .. SeqNumbers - 1
  BY <1>1, IAXAssumption
<1>3. Advance(s) \in Objects
  BY <1>1, <1>2 DEF Advance, Objects
<1>4. Same(Advance(s), s) /\ Advance(s).out = s.out /\ Advance(s).dCall = s.dCall
  BY <1>1 DEF Advance, Same, Objects
<1> QED BY <1>3, <1>4 DEF Core, Same

\* The frames without an answer, numbered or not.
LEMMA PlainCore ==
  ASSUME NEW s, Core(s), NEW type \in FrameTypes \ {"AUTHREP", "REGREQ"},
         NEW retry \in BOOLEAN
  PROVE  /\ Core(Send(s, type, retry, NoChallenge))
         /\ Same(Send(s, type, retry, NoChallenge), s)
         /\ Core(Send(Advance(s), type, retry, NoChallenge))
         /\ Same(Send(Advance(s), type, retry, NoChallenge), s)
<1>1. NoChallenge \in Asked /\ type \in FrameTypes
  BY DEF Asked
<1>2. Core(Advance(s)) /\ Same(Advance(s), s)
  BY AdvanceCore
<1>3. /\ Core(Send(s, type, retry, NoChallenge))
      /\ Same(Send(s, type, retry, NoChallenge), s)
  BY <1>1, SendCore
<1>4. /\ Core(Send(Advance(s), type, retry, NoChallenge))
      /\ Same(Send(Advance(s), type, retry, NoChallenge), Advance(s))
  BY <1>1, <1>2, SendCore
<1> QED BY <1>2, <1>3, <1>4 DEF Same

LEMMA WritesCore ==
  ASSUME NEW s, Core(s)
  PROVE  /\ Core(WritePing(s)) /\ Same(WritePing(s), s)
         /\ Core(WritePong(s)) /\ Same(WritePong(s), s)
         /\ Core(WriteAck(s)) /\ Same(WriteAck(s), s)
         /\ Core(WriteLagRp(s)) /\ Same(WriteLagRp(s), s)
         /\ Core(WriteLagRq(s)) /\ Same(WriteLagRq(s), s)
         /\ Core(WriteHangup(s)) /\ Same(WriteHangup(s), s)
         /\ Core(WriteAudio(s)) /\ Same(WriteAudio(s), s)
         /\ Core(WriteMini(s)) /\ Same(WriteMini(s), s)
         /\ \A key \in BOOLEAN : Core(WriteKey(s, key)) /\ Same(WriteKey(s, key), s)
<1>1. \A type \in {"PING", "PONG", "ACK", "LAGRP", "LAGRQ", "HANGUP", "VOICE", "MINI",
                   "KEY", "UNKEY"} : type \in FrameTypes \ {"AUTHREP", "REGREQ"}
  BY DEF FrameTypes
<1> QED BY <1>1, PlainCore DEF WritePing, WritePong, WriteAck, WriteLagRp, WriteLagRq,
                               WriteHangup, WriteAudio, WriteMini, WriteKey

LEMMA NewCore ==
  ASSUME NEW s, Core(s), NEW retry \in BOOLEAN
  PROVE  Core(WriteNew(s, retry)) /\ Same(WriteNew(s, retry), s)
<1> DEFINE n == IF retry THEN s.sCall ELSE s.sCall + 1
           t == [s EXCEPT !.sCall = n, !.oSeq = 0, !.iSeq = 0, !.dCall = 0]
<1>1. s \in Objects /\ 0 \in 0 .. SeqNumbers - 1 /\ n \in Nat
  BY IAXAssumption DEF Core, Objects
<1> HIDE DEF n
<1>2. t \in Objects
  BY <1>1 DEF Objects
<1>3. Same(t, s) /\ t.out = s.out
  BY <1>1 DEF Same, Objects
<1>4. Core(t)
  BY <1>2, <1>3 DEF Core, Same
<1>5. "NEW" \in FrameTypes \ {"AUTHREP", "REGREQ"}
  BY DEF FrameTypes
<1>6. WriteNew(s, retry) = Send(t, "NEW", retry, NoChallenge)
  BY DEF WriteNew, n
<1> HIDE DEF t
<1>7. Core(Send(t, "NEW", retry, NoChallenge)) /\ Same(Send(t, "NEW", retry, NoChallenge), t)
  BY <1>4, <1>5, PlainCore
<1> QED BY <1>3, <1>6, <1>7 DEF Same

\* The two frames that answer a challenge, once there is one.
LEMMA AnswerCore ==
  ASSUME NEW s, Core(s), s.seed # NoChallenge, NEW retry \in BOOLEAN
  PROVE  /\ Core(WriteAuthRep(s)) /\ Same(WriteAuthRep(s), s)
         /\ Core(WriteRegReq(s, retry)) /\ Same(WriteRegReq(s, retry), s)
<1>1. Core(Advance(s)) /\ Same(Advance(s), s) /\ Advance(s).dCall = s.dCall
  BY AdvanceCore
<1>2. s.seed \in Asked /\ NoChallenge \in Asked
      /\ "AUTHREP" \in FrameTypes /\ "REGREQ" \in FrameTypes
  BY DEF Core, Objects, Asked, FrameTypes
<1>3. /\ Core(Send(Advance(s), "AUTHREP", FALSE, s.seed))
      /\ Same(Send(Advance(s), "AUTHREP", FALSE, s.seed), Advance(s))
  BY <1>1, <1>2, SendCore
<1> DEFINE answer == IF s.dCall > 0 THEN s.seed ELSE NoChallenge
<1>4. answer \in Asked /\ (s.dCall > 0 => answer # NoChallenge)
  BY <1>2
<1> HIDE DEF answer
<1>5. /\ Core(Send(s, "REGREQ", retry, answer))
      /\ Same(Send(s, "REGREQ", retry, answer), s)
  BY <1>2, <1>4, SendCore
<1>6. /\ Core(Send(Advance(s), "REGREQ", retry, answer))
      /\ Same(Send(Advance(s), "REGREQ", retry, answer), Advance(s))
  BY <1>1, <1>2, <1>4, SendCore
<1>7. WriteRegReq(s, retry) = Send(IF retry THEN s ELSE Advance(s), "REGREQ", retry, answer)
  BY DEF WriteRegReq, answer
<1> QED BY <1>1, <1>3, <1>5, <1>6, <1>7 DEF WriteAuthRep, Same

-----------------------------------------------------------------------------
\* A timer that runs is either clocked short of its end or started again.
LEMMA TimerStep ==
  ASSUME NEW timeout \in Nat, timeout > 1, NEW timer \in Nat, NEW ms \in Nat
  PROVE  /\ Ticked(timer, timeout, ms) \in Nat
         /\ Ticked(Stopped, timeout, ms) = Stopped
         /\ OnTime(Started(timer, timeout), timeout)
         /\ Started(timer, timeout) \in Nat
         /\ ~HasExpired(Stopped, timeout)
         /\ timer > 0 => Ticked(timer, timeout, ms) > 0
BY DEF Ticked, Stopped, OnTime, Started, IsRunning, HasExpired

\* Changing one timer changes nothing else.
LEMMA SetTimers ==
  ASSUME NEW s, Core(s), NEW n \in Nat
  PROVE  /\ Core([s EXCEPT !.retry = n]) /\ Core([s EXCEPT !.ping = n])
         /\ [s EXCEPT !.retry = n].retry = n /\ [s EXCEPT !.ping = n].ping = n
         /\ [s EXCEPT !.retry = n].ping = s.ping /\ [s EXCEPT !.ping = n].retry = s.retry
         /\ [s EXCEPT !.retry = n].status = s.status /\ [s EXCEPT !.ping = n].status = s.status
         /\ [s EXCEPT !.retry = n].seed = s.seed /\ [s EXCEPT !.ping = n].seed = s.seed
<1>1. s \in Objects
  BY DEF Core
<1>2. /\ [s EXCEPT !.retry = n] \in Objects /\ [s EXCEPT !.ping = n] \in Objects
      /\ [s EXCEPT !.retry = n].out = s.out /\ [s EXCEPT !.ping = n].out = s.out
  BY <1>1 DEF Objects
<1>3. /\ [s EXCEPT !.retry = n].retry = n /\ [s EXCEPT !.ping = n].ping = n
      /\ [s EXCEPT !.retry = n].ping = s.ping /\ [s EXCEPT !.ping = n].retry = s.retry
      /\ [s EXCEPT !.retry = n].status = s.status /\ [s EXCEPT !.ping = n].status = s.status
      /\ [s EXCEPT !.retry = n].seed = s.seed /\ [s EXCEPT !.ping = n].seed = s.seed
  BY <1>1 DEF Objects
<1> QED BY <1>2, <1>3 DEF Core

\* The retry timer: what is due is repeated, and the timer starts again.
LEMMA RetryTimerFine ==
  ASSUME NEW s, Fine(s), NEW ms \in Nat
  PROVE  Fine(RetryTimer(s, ms))
<1> DEFINE now == [s EXCEPT !.retry = Ticked(@, RetryTimeout, ms)]
<1>1. s.retry \in Nat /\ s.ping \in Nat /\ s.status \in Statuses
  BY DEF Fine, Core, Objects
<1>2. Ticked(s.retry, RetryTimeout, ms) \in Nat
  BY <1>1, TimerStep, IAXAssumption
<1>3. now = [s EXCEPT !.retry = Ticked(s.retry, RetryTimeout, ms)]
  OBVIOUS
<1> HIDE DEF now
<1>4. /\ Core(now) /\ now.retry = Ticked(s.retry, RetryTimeout, ms)
      /\ now.ping = s.ping /\ now.status = s.status /\ now.seed = s.seed
  BY <1>2, <1>3, SetTimers DEF Fine
<1>5. s.retry = Stopped => now.retry = Stopped /\ ~HasExpired(now.retry, RetryTimeout)
  BY <1>1, <1>4, TimerStep, IAXAssumption
<1>6. s.status \in {"CONNECTING", "REGISTERNG"} => IsRunning(now.retry)
  <2>1. s.status \in {"CONNECTING", "REGISTERNG"} => s.retry > 0
    BY DEF Fine, Timed, OnTime, IsRunning
  <2>2. s.retry > 0 => Ticked(s.retry, RetryTimeout, ms) > 0
    BY <1>1, IAXAssumption DEF Ticked
  <2>3. s.retry > 0 => now.retry > 0
    BY <1>4, <2>2
  <2> QED BY <2>1, <2>3 DEF IsRunning
<1>7. CASE IsRunning(now.retry) /\ HasExpired(now.retry, RetryTimeout)
  <2> DEFINE due == RetryDue(now)
             n == Started(due.retry, RetryTimeout)
  <2>1. s.status \in {"CONNECTING", "REGISTERNG"}
    BY <1>1, <1>5, <1>7 DEF Fine, Timed, Statuses
  <2>2. Core(due) /\ Same(due, now)
    <3>1. CASE now.status = "CONNECTING"
      BY <1>4, <3>1, NewCore DEF RetryDue
    <3>2. CASE now.status = "REGISTERNG"
      <4>1. now.seed # NoChallenge
        BY <1>4, <3>2 DEF Core
      <4>2. now.status # "CONNECTING"
        BY <3>2
      <4> QED BY <1>4, <3>2, <4>1, <4>2, AnswerCore DEF RetryDue
    <3> QED BY <1>4, <2>1, <3>1, <3>2
  <2>3. due.retry \in Nat
    BY <2>2 DEF Core, Objects
  <2>4. n \in Nat /\ OnTime(n, RetryTimeout)
    BY <2>3, TimerStep, IAXAssumption
  <2>5. RetryTimer(s, ms) = [due EXCEPT !.retry = n]
    BY <1>7 DEF RetryTimer, now
  <2> HIDE DEF due, n
  <2>6. /\ Core([due EXCEPT !.retry = n]) /\ [due EXCEPT !.retry = n].retry = n
        /\ [due EXCEPT !.retry = n].ping = s.ping /\ [due EXCEPT !.retry = n].status = s.status
    BY <1>4, <2>2, <2>4, SetTimers DEF Same
  <2> QED BY <2>1, <2>4, <2>5, <2>6 DEF Fine, Timed
<1>8. CASE ~(IsRunning(now.retry) /\ HasExpired(now.retry, RetryTimeout))
  <2>1. RetryTimer(s, ms) = now
    BY <1>8 DEF RetryTimer, now
  <2>2. s.status \in {"CONNECTING", "REGISTERNG"} => OnTime(now.retry, RetryTimeout)
    BY <1>6, <1>8 DEF OnTime
  <2> QED BY <1>4, <1>5, <2>1, <2>2 DEF Fine, Timed
<1> QED BY <1>7, <1>8

\* The ping timer likewise.
LEMMA PingTimerFine ==
  ASSUME NEW s, Fine(s), NEW ms \in Nat
  PROVE  Fine(PingTimer(s, ms))
<1> DEFINE now == [s EXCEPT !.ping = Ticked(@, PingTimeout, ms)]
<1>1. s.retry \in Nat /\ s.ping \in Nat /\ s.status \in Statuses
  BY DEF Fine, Core, Objects
<1>2. Ticked(s.ping, PingTimeout, ms) \in Nat
  BY <1>1, TimerStep, IAXAssumption
<1>3. now = [s EXCEPT !.ping = Ticked(s.ping, PingTimeout, ms)]
  OBVIOUS
<1> HIDE DEF now
<1>4. /\ Core(now) /\ now.ping = Ticked(s.ping, PingTimeout, ms)
      /\ now.retry = s.retry /\ now.status = s.status /\ now.seed = s.seed
  BY <1>2, <1>3, SetTimers DEF Fine
<1>5. s.ping = Stopped => now.ping = Stopped /\ ~HasExpired(now.ping, PingTimeout)
  <2>1. PingTimeout \in Nat /\ PingTimeout > 1
    BY IAXAssumption
  <2>2. Ticked(Stopped, PingTimeout, ms) = Stopped /\ ~HasExpired(Stopped, PingTimeout)
    BY <2>1, TimerStep
  <2> QED BY <1>4, <2>2
<1>6. s.status = "CONNECTED" => IsRunning(now.ping)
  <2>1. s.status = "CONNECTED" => s.ping > 0
    BY DEF Fine, Timed, OnTime, IsRunning
  <2>2. s.ping > 0 => Ticked(s.ping, PingTimeout, ms) > 0
    BY <1>1, IAXAssumption DEF Ticked
  <2>3. s.ping > 0 => now.ping > 0
    BY <1>4, <2>2
  <2> QED BY <2>1, <2>3 DEF IsRunning
<1>7. CASE IsRunning(now.ping) /\ HasExpired(now.ping, PingTimeout)
  <2> DEFINE due == WritePing(now)
             n == Started(due.ping, PingTimeout)
  <2>1. s.status \notin {"DISCONNECTED", "CONNECTING"}
    BY <1>1, <1>5, <1>7 DEF Fine, Timed
  <2>2. Core(due) /\ Same(due, now)
    BY <1>4, WritesCore
  <2>3. due.ping \in Nat
    BY <2>2 DEF Core, Objects
  <2>4. n \in Nat /\ OnTime(n, PingTimeout)
    BY <2>3, TimerStep, IAXAssumption
  <2>5. PingTimer(s, ms) = [due EXCEPT !.ping = n]
    BY <1>7 DEF PingTimer, now
  <2> HIDE DEF due, n
  <2>6. /\ Core([due EXCEPT !.ping = n]) /\ [due EXCEPT !.ping = n].ping = n
        /\ [due EXCEPT !.ping = n].retry = s.retry /\ [due EXCEPT !.ping = n].status = s.status
    BY <1>4, <2>2, <2>4, SetTimers DEF Same
  <2> QED BY <2>1, <2>4, <2>5, <2>6 DEF Fine, Timed
<1>8. CASE ~(IsRunning(now.ping) /\ HasExpired(now.ping, PingTimeout))
  <2>1. PingTimer(s, ms) = now
    BY <1>8 DEF PingTimer, now
  <2>2. s.status = "CONNECTED" => OnTime(now.ping, PingTimeout)
    BY <1>6, <1>8 DEF OnTime
  <2> QED BY <1>4, <1>5, <2>1, <2>2 DEF Fine, Timed
<1> QED BY <1>7, <1>8

-----------------------------------------------------------------------------
LEMMA ArrivalType ==
  ASSUME NEW frame \in Arrivals
  PROVE  /\ frame.oSeq \in 0 .. SeqNumbers - 1 /\ frame.sCall \in Nat
         /\ frame.challenge \in Asked /\ frame.size \in Nat
         /\ frame.type \in {"PING", "ACCEPT", "REJECT", "REGACK", "HANGUP", "LAGRQ", "KEY",
                            "UNKEY", "NOTICE", "ACK", "REGAUTH", "AUTHREQ", "VOICE", "MINI"}
<1> DEFINE plain == {"PING", "ACCEPT", "REJECT", "REGACK", "HANGUP", "LAGRQ", "KEY",
                     "UNKEY", "NOTICE"}
<1>1. NoChallenge \in Asked /\ Calls \subseteq Nat /\ Sizes \subseteq Nat /\ 0 \in Nat
  BY IAXAssumption DEF Asked
<1>2. ASSUME NEW types, NEW calls \in SUBSET Nat, NEW challenges \in SUBSET Asked,
             NEW sizes \in SUBSET Nat, frame \in Incoming(types, calls, challenges, sizes)
      PROVE  /\ frame.oSeq \in 0 .. SeqNumbers - 1 /\ frame.sCall \in Nat
             /\ frame.challenge \in Asked /\ frame.size \in Nat /\ frame.type \in types
  BY <1>2 DEF Incoming
<1>3. CASE frame \in Incoming(plain, {0}, {NoChallenge}, {0})
  BY <1>1, <1>2, <1>3
<1>4. CASE frame \in Incoming({"ACK"}, Calls, {NoChallenge}, {0})
  BY <1>1, <1>2, <1>4
<1>5. CASE frame \in Incoming({"REGAUTH", "AUTHREQ"}, {0}, Asked, {0})
  BY <1>1, <1>2, <1>5
<1>6. CASE frame \in Incoming({"VOICE", "MINI"}, {0}, {NoChallenge}, Sizes)
  BY <1>1, <1>2, <1>6
<1> QED BY <1>3, <1>4, <1>5, <1>6 DEF Arrivals

\* The fields that neither the timers nor the answers depend on.
LEMMA SetOthers ==
  ASSUME NEW s, Fine(s)
  PROVE  /\ \A n \in Nat : Fine([s EXCEPT !.dCall = n])
         /\ \A n \in 0 .. SeqNumbers - 1 :
              Fine([s EXCEPT !.iSeq = n]) /\ Same([s EXCEPT !.iSeq = n], s)
         /\ \A b \in BOOLEAN : Fine([s EXCEPT !.keyed = b])
         /\ \A n \in 0 .. RingLength - 1 : Fine([s EXCEPT !.buffered = n])
         /\ Fine([s EXCEPT !.out = << >>])
<1>1. s \in Objects /\ Core(s) /\ Timed(s)
  BY DEF Fine, Core
<1>2. ASSUME NEW t \in Objects, t.out = s.out, Same(t, s)
      PROVE  Fine(t)
  BY <1>1, <1>2, SameTimed DEF Fine, Core, Same
<1>3. ASSUME NEW n \in Nat PROVE Fine([s EXCEPT !.dCall = n])
  <2>1. [s EXCEPT !.dCall = n] \in Objects /\ [s EXCEPT !.dCall = n].out = s.out
        /\ Same([s EXCEPT !.dCall = n], s)
    BY <1>1 DEF Objects, Same
  <2> QED BY <1>2, <2>1
<1>4. ASSUME NEW n \in 0 .. SeqNumbers - 1
      PROVE  Fine([s EXCEPT !.iSeq = n]) /\ Same([s EXCEPT !.iSeq = n], s)
  <2>1. [s EXCEPT !.iSeq = n] \in Objects /\ [s EXCEPT !.iSeq = n].out = s.out
        /\ Same([s EXCEPT !.iSeq = n], s)
    BY <1>1 DEF Objects, Same
  <2> QED BY <1>2, <2>1
<1>5. ASSUME NEW b \in BOOLEAN PROVE Fine([s EXCEPT !.keyed = b])
  <2>1. [s EXCEPT !.keyed = b] \in Objects /\ [s EXCEPT !.keyed = b].out = s.out
        /\ Same([s EXCEPT !.keyed = b], s)
    BY <1>1 DEF Objects, Same
  <2> QED BY <1>2, <2>1
<1>6. ASSUME NEW n \in 0 .. RingLength - 1 PROVE Fine([s EXCEPT !.buffered = n])
  <2>1. [s EXCEPT !.buffered = n] \in Objects /\ [s EXCEPT !.buffered = n].out = s.out
        /\ Same([s EXCEPT !.buffered = n], s)
    BY <1>1 DEF Objects, Same
  <2> QED BY <1>2, <2>1
<1>7. Fine([s EXCEPT !.out = << >>])
  <2>1. << >> \in Seq(Frames)
    BY EmptySeq
  <2>2. [s EXCEPT !.out = << >>] \in Objects /\ [s EXCEPT !.out = << >>].out = << >>
        /\ Same([s EXCEPT !.out = << >>], s)
    BY <1>1, <2>1 DEF Objects, Same
  <2>3. DOMAIN << >> = {}
    BY <2>1
  <2> QED BY <1>1, <2>2, <2>3, SameTimed DEF Fine, Core, Same
<1> QED BY <1>3, <1>4, <1>5, <1>6, <1>7

LEMMA AcknowledgedFine ==
  ASSUME NEW s, Fine(s), NEW frame \in Arrivals
  PROVE  Fine(Received(s, frame)) /\ Fine(Acknowledged(s, frame))
<1>1. (frame.oSeq + 1) % SeqNumbers \in 0 .. SeqNumbers - 1
  BY ArrivalType, IAXAssumption
<1>2. Fine(Received(s, frame))
  BY <1>1, SetOthers DEF Received
<1>3. /\ Core(WriteAck(Received(s, frame)))
      /\ Same(WriteAck(Received(s, frame)), Received(s, frame))
  BY <1>2, WritesCore DEF Fine
<1> QED BY <1>2, <1>3, SameTimed DEF Acknowledged, Fine

LEMMA StatusFine ==
  ASSUME NEW s, Fine(s)
  PROVE  Fine(Connected(s)) /\ Fine(Disconnected(s))
<1>1. s \in Objects /\ Core(s) /\ s.ping \in Nat
  BY DEF Fine, Core, Objects
<1>2. Started(s.ping, PingTimeout) \in Nat /\ OnTime(Started(s.ping, PingTimeout), PingTimeout)
  BY <1>1, TimerStep, IAXAssumption
<1> DEFINE n == Started(s.ping, PingTimeout)
           up == [s EXCEPT !.status = "CONNECTED", !.retry = Stopped, !.ping = n]
           down == [s EXCEPT !.status = "DISCONNECTED", !.keyed = FALSE,
                             !.retry = Stopped, !.ping = Stopped]
<1>3. Connected(s) = up /\ Disconnected(s) = down
  BY DEF Connected, Disconnected
<1>4. n \in Nat /\ OnTime(n, PingTimeout)
  BY <1>2
<1> HIDE DEF n
<1>5. up \in Objects /\ up.out = s.out /\ up.status = "CONNECTED" /\ up.retry = Stopped
      /\ up.ping = n
  BY <1>1, <1>4 DEF Objects, Stopped, Statuses
<1>6. down \in Objects /\ down.out = s.out /\ down.status = "DISCONNECTED"
      /\ down.retry = Stopped /\ down.ping = Stopped
  BY <1>1 DEF Objects, Stopped, Statuses
<1> HIDE DEF up, down
<1>7. Fine(up)
  BY <1>1, <1>4, <1>5 DEF Fine, Core, Timed
<1>8. Fine(down)
  BY <1>1, <1>6 DEF Fine, Core, Timed
<1> QED BY <1>3, <1>7, <1>8

LEMMA ChallengeFine ==
  ASSUME NEW s, Fine(s), NEW frame \in Arrivals
  PROVE  Fine(HandleRegAuth(s, frame)) /\ Fine(HandleAuthReq(s, frame))
<1>1. CASE frame.challenge = NoChallenge
  BY <1>1 DEF HandleRegAuth, HandleAuthReq
<1>2. CASE frame.challenge # NoChallenge
  <2> DEFINE r == Received(s, frame)
             c == frame.challenge
             n == Started(r.retry, RetryTimeout)
             asked == [r EXCEPT !.status = "REGISTERNG", !.seed = c, !.retry = n]
             replying == [r EXCEPT !.seed = c]
  <2>1. Fine(r) /\ c \in Asked /\ c # NoChallenge
    BY <1>2, AcknowledgedFine, ArrivalType
  <2>2. /\ HandleRegAuth(s, frame) = WriteRegReq(asked, FALSE)
        /\ HandleAuthReq(s, frame) = WriteAuthRep(replying)
    BY <1>2 DEF HandleRegAuth, HandleAuthReq
  <2> HIDE DEF r, c
  <2>3. r \in Objects /\ r.retry \in Nat
    BY <2>1 DEF Fine, Core, Objects
  <2>4. n \in Nat /\ OnTime(n, RetryTimeout)
    BY <2>3, TimerStep, IAXAssumption
  <2> HIDE DEF n
  <2>5. asked \in Objects /\ asked.out = r.out /\ asked.status = "REGISTERNG"
        /\ asked.seed = c /\ asked.retry = n
    BY <2>1, <2>3, <2>4 DEF Objects, Statuses
  <2>6. replying \in Objects /\ replying.out = r.out /\ replying.status = r.status
        /\ replying.seed = c /\ replying.retry = r.retry /\ replying.ping = r.ping
    BY <2>1, <2>3 DEF Objects
  <2> HIDE DEF asked, replying
  <2>7. Core(asked) /\ Timed(asked)
    BY <2>1, <2>4, <2>5 DEF Fine, Core, Timed
  <2>8. Core(replying) /\ Timed(replying)
    BY <2>1, <2>6 DEF Fine, Core, Timed
  <2>9. /\ Core(WriteRegReq(asked, FALSE)) /\ Same(WriteRegReq(asked, FALSE), asked)
        /\ Core(WriteAuthRep(replying)) /\ Same(WriteAuthRep(replying), replying)
    BY <2>1, <2>5, <2>6, <2>7, <2>8, AnswerCore
  <2> QED BY <2>2, <2>7, <2>8, <2>9, SameTimed DEF Fine
<1> QED BY <1>1, <1>2

\* A frame of audio, whether it fits the buffer or clears it.
LEMMA BufferFine ==
  ASSUME NEW s, Fine(s), NEW n \in Nat
  PROVE  Fine(Buffer(s, n))
<1> DEFINE m == IF n < RingLength - s.buffered THEN s.buffered + n ELSE 0
<1>1. s.buffered \in 0 .. RingLength - 1
  BY DEF Fine, Core, Objects
<1>2. m \in 0 .. RingLength - 1
  BY <1>1, IAXAssumption
<1>3. Buffer(s, n) = IF ~s.keyed THEN s ELSE [s EXCEPT !.buffered = m]
  BY DEF Buffer
<1> HIDE DEF m
<1> QED BY <1>2, <1>3, SetOthers

\* Whatever arrives, in whatever state.
LEMMA HandledFine ==
  ASSUME NEW s, Fine(s), NEW frame \in Arrivals
  PROVE  Fine(Handled(s, frame))
<1> DEFINE r == Received(s, frame)
           k == Acknowledged(s, frame)
<1>1. Fine(r) /\ Fine(k)
  BY AcknowledgedFine
<1>2. /\ frame.sCall \in Nat /\ frame.size \in Nat
      /\ frame.type \in {"PING", "ACCEPT", "REJECT", "REGACK", "HANGUP", "LAGRQ", "KEY",
                         "UNKEY", "NOTICE", "ACK", "REGAUTH", "AUTHREQ", "VOICE", "MINI"}
  BY ArrivalType
<1>3. Fine(HandleAck(s, frame))
  BY <1>2, SetOthers DEF HandleAck
<1>4. Fine(HandlePing(s, frame))
  <2>1. Core(WritePong(k)) /\ Same(WritePong(k), k)
    BY <1>1, WritesCore DEF Fine
  <2> QED BY <1>1, <2>1, SameTimed DEF HandlePing, Fine
<1>5. /\ Fine(HandleAccept(s, frame)) /\ Fine(HandleRegAck(s, frame))
      /\ Fine(HandleReject(s, frame)) /\ Fine(HandleHangup(s, frame))
  BY <1>1, StatusFine DEF HandleAccept, HandleRegAck, HandleReject, HandleHangup
<1>6. Fine(HandleRegAuth(s, frame)) /\ Fine(HandleAuthReq(s, frame))
  BY ChallengeFine
<1>7. Fine(HandleLagRq(s, frame))
  <2>1. Core(WriteLagRq(r)) /\ Same(WriteLagRq(r), r)
    BY <1>1, WritesCore DEF Fine
  <2>2. Core(WriteLagRp(WriteLagRq(r))) /\ Same(WriteLagRp(WriteLagRq(r)), WriteLagRq(r))
    BY <2>1, WritesCore
  <2> QED BY <1>1, <2>1, <2>2, SameTimed DEF HandleLagRq, Fine
<1>8. Fine(HandleKey(s, frame)) /\ Fine(HandleUnkey(s, frame))
  BY <1>1, SetOthers DEF HandleKey, HandleUnkey
<1>9. Fine(HandleVoice(s, frame)) /\ Fine(HandleMini(s, frame))
  BY <1>1, <1>2, BufferFine DEF HandleVoice, HandleMini
<1>10. Fine(HandleNotice(s, frame))
  BY <1>1 DEF HandleNotice
<1> HIDE DEF r, k
<1> QED BY <1>2, <1>3, <1>4, <1>5, <1>6, <1>7, <1>8, <1>9, <1>10 DEF Handled

-----------------------------------------------------------------------------
IInv ==
  /\ phase \in {"new", "open", "closed"} \union Final
  /\ Fine(iax)
  /\ phase \in {"new", "closed"} => iax.status = "DISCONNECTED"

LEMMA NewObjectFine == Fine(NewObject) /\ NewObject.status = "DISCONNECTED"
<1>1. << >> \in Seq(Frames) /\ DOMAIN << >> = {}
  BY EmptySeq
<1>2. 0 \in 0 .. SeqNumbers - 1 /\ 0 \in 0 .. RingLength - 1
  BY IAXAssumption
<1>3. NewObject \in Objects
  BY <1>1, <1>2 DEF NewObject, Objects, Statuses, Asked, Stopped
<1>4. /\ NewObject.status = "DISCONNECTED" /\ NewObject.retry = Stopped
      /\ NewObject.ping = Stopped /\ NewObject.out = << >>
  BY DEF NewObject
<1> QED BY <1>1, <1>3, <1>4 DEF Fine, Core, Timed

\* open(), as far as the NEW.
LEMMA OpeningFine ==
  ASSUME NEW s, Fine(s), s.status = "DISCONNECTED"
  PROVE  LET t == WriteNew([Begin(s) EXCEPT !.dCall = 0, !.keyed = FALSE], FALSE)
         IN  Fine(t) /\ Same(t, s)
<1> DEFINE b == [s EXCEPT !.out = << >>]
           d == [b EXCEPT !.dCall = 0]
           k == [d EXCEPT !.keyed = FALSE]
<1>1. Fine(b)
  BY SetOthers
<1>2. Fine(d)
  BY <1>1, SetOthers
<1>3. Fine(k)
  BY <1>2, SetOthers
<1>4. s \in Objects
  BY DEF Fine, Core
<1>5. Same(k, s)
  BY <1>4 DEF Same, Objects
<1>6. k = [Begin(s) EXCEPT !.dCall = 0, !.keyed = FALSE]
  BY <1>4 DEF Begin, Objects
<1> HIDE DEF k
<1>7. Core(WriteNew(k, FALSE)) /\ Same(WriteNew(k, FALSE), k)
  BY <1>3, NewCore DEF Fine
<1> QED BY <1>3, <1>5, <1>6, <1>7, SameTimed, SameTransitive DEF Fine

\* The datagram of clock() or none, after both timers.
LEMMA ClockFine ==
  ASSUME Fine(iax), NEW ms \in Nat, Clock(ms)
  PROVE  phase' = "open" /\ Fine(iax')
<1> DEFINE b == Begin(iax)
           r == RetryTimer(b, ms)
           s == PingTimer(r, ms)
<1>1. Fine(b)
  BY SetOthers DEF Begin
<1> HIDE DEF b
<1>2. Fine(r)
  BY <1>1, RetryTimerFine
<1> HIDE DEF r
<1>3. Fine(s)
  BY <1>2, PingTimerFine
<1>4. phase' = "open" /\ (iax' = s \/ \E frame \in Arrivals : iax' = Handled(s, frame))
  BY DEF Clock, s, r, b
<1> HIDE DEF s
<1> QED BY <1>3, <1>4, HandledFine

\* The functions that the main loop calls to send: nothing, a key, a frame.
LEMMA SendingFine ==
  ASSUME Fine(iax), WriteStart \/ WriteEnd \/ \E n \in Blocks : WriteData(n)
  PROVE  phase' \in {"open"} \union Final /\ Fine(iax')
<1> DEFINE b == Begin(iax)
<1>1. Fine(b)
  BY SetOthers DEF Begin
<1>2. ASSUME NEW key \in BOOLEAN
      PROVE  /\ Core(WriteKey(b, key)) /\ Same(WriteKey(b, key), b)
             /\ Core(WriteAudio(WriteKey(b, key)))
             /\ Same(WriteAudio(WriteKey(b, key)), WriteKey(b, key))
  <2>1. Core(WriteKey(b, key)) /\ Same(WriteKey(b, key), b)
    BY <1>1, WritesCore DEF Fine
  <2> QED BY <2>1, WritesCore
<1>3. \A key \in BOOLEAN : Fine(WriteKey(b, key)) /\ Fine(WriteAudio(WriteKey(b, key)))
  BY <1>1, <1>2, SameTimed DEF Fine
<1>4. Fine(WriteMini(b))
  <2>1. Core(WriteMini(b)) /\ Same(WriteMini(b), b)
    BY <1>1, WritesCore DEF Fine
  <2> QED BY <1>1, <2>1, SameTimed DEF Fine
<1>5. phase' \in {"open"} \union Final
  BY DEF WriteStart, WriteData, WriteEnd, Final
<1>6. CASE WriteStart
  BY <1>1, <1>3, <1>6 DEF WriteStart
<1>7. CASE \E n \in Blocks : WriteData(n)
  <2>1. iax' \in { b, WriteMini(b) }
    BY <1>7 DEF WriteData
  <2> QED BY <1>1, <1>4, <1>5, <2>1
<1>8. CASE WriteEnd
  BY <1>1, <1>3, <1>8 DEF WriteEnd
<1> QED BY <1>5, <1>6, <1>7, <1>8

\* open(), when the NEW was sent.
LEMMA OpenedFine ==
  ASSUME NEW s, Fine(s), s.status = "DISCONNECTED"
  PROVE  /\ Fine(Opened(Begin(s)))
         /\ Opened(Begin(s)).status = "CONNECTING" /\ Opened(Begin(s)).seed = s.seed
         /\ Opened(Begin(s)).out = Calling(Begin(s)).out
<1> DEFINE t == WriteNew([Begin(s) EXCEPT !.dCall = 0, !.keyed = FALSE], FALSE)
           n == Started(t.retry, RetryTimeout)
           o == [t EXCEPT !.status = "CONNECTING", !.retry = n]
<1>1. Fine(t) /\ Same(t, s)
  BY OpeningFine
<1>2. Opened(Begin(s)) = o /\ Calling(Begin(s)) = t
  BY DEF Opened, Calling
<1> HIDE DEF t
<1>3. t \in Objects /\ t.retry \in Nat /\ t.status = "DISCONNECTED"
  BY <1>1 DEF Fine, Core, Objects, Same
<1>4. n \in Nat /\ OnTime(n, RetryTimeout)
  BY <1>3, TimerStep, IAXAssumption
<1> HIDE DEF n
<1>5. o \in Objects /\ o.out = t.out /\ o.status = "CONNECTING"
      /\ o.retry = n /\ o.ping = t.ping /\ o.seed = t.seed
  BY <1>3, <1>4 DEF Objects, Statuses
<1> HIDE DEF o
<1>6. Core(o)
  BY <1>1, <1>5 DEF Fine, Core
<1>7. t.ping = Stopped
  BY <1>1, <1>3 DEF Fine, Timed
<1> QED BY <1>1, <1>2, <1>4, <1>5, <1>6, <1>7 DEF Fine, Timed, Same

\* close(): nothing runs afterwards.
LEMMA ClosedFine ==
  ASSUME NEW s, Fine(s)
  PROVE  /\ Fine(Closed(s))
         /\ Closed(s).status = "DISCONNECTED" /\ Closed(s).seed = s.seed
         /\ Closed(s).out = WriteHangup(s).out
<1> DEFINE t == WriteHangup(s)
           c == [t EXCEPT !.status = "DISCONNECTED", !.retry = Stopped, !.ping = Stopped]
<1>1. Core(t) /\ Same(t, s)
  BY WritesCore DEF Fine
<1>2. Closed(s) = c
  BY DEF Closed
<1> HIDE DEF t
<1>3. t \in Objects
  BY <1>1 DEF Core
<1>4. c \in Objects /\ c.out = t.out /\ c.status = "DISCONNECTED"
      /\ c.retry = Stopped /\ c.ping = Stopped /\ c.seed = t.seed
  BY <1>3 DEF Objects, Statuses, Stopped
<1> HIDE DEF c
<1> QED BY <1>1, <1>2, <1>4 DEF Fine, Core, Timed, Same, t

\* Taking samples leaves the buffer within its length.
LEMMA ReadDataFine ==
  ASSUME Fine(iax), NEW nOut \in Nat, ReadData(nOut)
  PROVE  phase' = "open" /\ Fine(iax')
<1> DEFINE b == Begin(iax)
           m == IF b.buffered < nOut THEN 0 ELSE b.buffered - nOut
<1>1. Fine(b)
  BY SetOthers DEF Begin
<1>2. phase' = "open" /\ iax' = [b EXCEPT !.buffered = m]
  BY DEF ReadData
<1> HIDE DEF b
<1>3. b.buffered \in 0 .. RingLength - 1
  BY <1>1 DEF Fine, Core, Objects
<1>4. m \in 0 .. RingLength - 1
  BY <1>3, IAXAssumption
<1> HIDE DEF m
<1> QED BY <1>1, <1>2, <1>4, SetOthers

-----------------------------------------------------------------------------
LEMMA InitInv == Init => IInv
BY NewObjectFine DEF Init, IInv

LEMMA NextInv == IInv /\ [Next]_vars => IInv'
<1> SUFFICES ASSUME IInv, [Next]_vars PROVE IInv'
  OBVIOUS
<1>1. Fine(iax) /\ (phase \in {"new", "closed"} => iax.status = "DISCONNECTED")
  BY DEF IInv
<1>2. CASE OpenFails
  <2> DEFINE t == WriteNew([Begin(iax) EXCEPT !.dCall = 0, !.keyed = FALSE], FALSE)
  <2>1. iax.status = "DISCONNECTED" /\ phase' = "closed"
        /\ (iax' = Begin(iax) \/ iax' = t)
    BY <1>1, <1>2 DEF OpenFails, Calling
  <2>2. Fine(t) /\ Same(t, iax)
    BY <1>1, <2>1, OpeningFine
  <2> HIDE DEF t
  <2>3. Fine(Begin(iax))
    BY <1>1, SetOthers DEF Begin
  <2>4. Begin(iax).status = iax.status
    BY <1>1 DEF Begin, Fine, Core, Objects
  <2> QED BY <2>1, <2>2, <2>3, <2>4 DEF IInv, Same
<1>3. CASE Open
  <2>1. iax.status = "DISCONNECTED"
    BY <1>1, <1>3 DEF Open
  <2>2. phase' = "open" /\ Fine(iax')
    BY <1>1, <1>3, <2>1, OpenedFine DEF Open
  <2> QED BY <2>2 DEF IInv, Fine, Core, Timed
<1>4. CASE WriteStart \/ WriteEnd \/ \E n \in Blocks : WriteData(n)
  <2>1. phase' \in {"open"} \union Final /\ Fine(iax')
    BY <1>1, <1>4, SendingFine
  <2> QED BY <2>1 DEF IInv, Final, Fine, Core, Timed
<1>5. CASE Close
  <2>1. Fine(Begin(iax))
    BY <1>1, SetOthers DEF Begin
  <2>2. phase' = "closed" /\ Fine(iax') /\ iax'.status = "DISCONNECTED"
    BY <1>5, <2>1, ClosedFine DEF Close
  <2> QED BY <2>2 DEF IInv, Fine, Core, Timed
<1>6. CASE Restart
  BY <1>6, NewObjectFine DEF Restart, IInv, Fine, Core, Timed
<1>7. ASSUME NEW ms \in Elapsed, Clock(ms) PROVE IInv'
  <2>1. ms \in Nat
    BY IAXAssumption
  <2>2. phase' = "open" /\ Fine(iax')
    BY <1>1, <1>7, <2>1, ClockFine
  <2> QED BY <2>2 DEF IInv, Fine, Core, Timed
<1>8. ASSUME NEW nOut \in Sizes, ReadData(nOut) PROVE IInv'
  <2>1. nOut \in Nat
    BY IAXAssumption
  <2>2. phase' = "open" /\ Fine(iax')
    BY <1>1, <1>8, <2>1, ReadDataFine
  <2> QED BY <2>2 DEF IInv, Fine, Core, Timed
<1>9. CASE UNCHANGED vars
  BY <1>9 DEF vars, IInv, Final, Fine, Core, Timed
<1> QED BY <1>2, <1>3, <1>4, <1>5, <1>6, <1>7, <1>8, <1>9 DEF Next, Ended

LEMMA Invariant == Spec => []IInv
BY InitInv, NextInv, PTL DEF Spec

\* Every field of CIAXNetwork stays in its range: the sequence numbers are
\* bytes and m_buffer never holds as much as its length, whatever arrives.
THEOREM TypeCorrect == Spec => []TypeOK
<1>1. IInv => TypeOK
  BY DEF IInv, Fine, Core, TypeOK
<1> QED BY <1>1, Invariant, PTL

\* The retry and the ping timer agree with m_status after every call,
\* whatever the server sends and whenever: open(), close(), the timers and
\* the handlers of clock() set all three together.
THEOREM TimersAgree == Spec => []TimerDiscipline
<1>1. IInv => TimerDiscipline
  BY DEF IInv, Fine, TimerDiscipline
<1> QED BY <1>1, Invariant, PTL

\* No AUTHREP, and no REGREQ with an answer, first or repeated, is sent
\* unless the server made a challenge to this object before.
THEOREM AnswersHold == Spec => []AnswersOnlyChallenges
<1>1. IInv => AnswersOnlyChallenges
  BY DEF IInv, Fine, Core, AnswersOnlyChallenges
<1> QED BY <1>1, Invariant, PTL

-----------------------------------------------------------------------------
(***************************************************************************)
(* What no call of CIAXNetwork does, for every value of the constants and  *)
(* whatever the server sends: take another call number of the peer, number *)
(* frames with gaps, take a frame without telling the peer, or send of its *)
(* own accord when there is no call.  A call of the object is followed     *)
(* from its beginning s0 through the functions that write a frame.         *)
(***************************************************************************)
HasNew(s) == \E i \in DOMAIN s.out : s.out[i].type = "NEW"

\* What holds of the object s at every point of a call that began with s0,
\* except between the receipt of a frame and the answer to it.
Part(s, s0) ==
  /\ s \in Objects
  /\ Numbered(s0.oSeq, s.out, s.oSeq)
  /\ s0.dCall = 0 \/ s.dCall = s0.dCall \/ HasNew(s)

\* The last frame sent carries what was received.
Answered(s) == s.out # << >> /\ s.out[Len(s.out)].iSeq = s.iSeq

Story(s, s0) == Part(s, s0) /\ (s.iSeq = s0.iSeq \/ Answered(s))

\* The fields that the four properties are about.
SameWire(t, s) ==
  t.out = s.out /\ t.oSeq = s.oSeq /\ t.iSeq = s.iSeq /\ t.dCall = s.dCall

LEMMA WireStory ==
  ASSUME NEW s, NEW s0, NEW t \in Objects, SameWire(t, s)
  PROVE  (Part(s, s0) => Part(t, s0)) /\ (Story(s, s0) => Story(t, s0))
         /\ (Answered(s) => Answered(t))
BY DEF SameWire, Part, Answered, Story, HasNew

\* A frame with the number that follows is put at the end.
LEMMA AppendNumbered ==
  ASSUME NEW n \in Nat, NEW m \in Nat, NEW frames \in Seq(Frames), NEW frame \in Frames,
         Numbered(n, frames, m), frame.oSeq = NumberAfter(m, frame)
  PROVE  Numbered(n, Append(frames, frame), frame.oSeq)
<1> DEFINE longer == Append(frames, frame)
           len == Len(frames)
           before(i) == IF i = 1 THEN n ELSE frames[i - 1].oSeq
           after(i) == IF i = 1 THEN n ELSE longer[i - 1].oSeq
<1>1. /\ longer \in Seq(Frames) /\ Len(longer) = len + 1 /\ len \in Nat
      /\ DOMAIN longer = 1 .. len + 1 /\ DOMAIN frames = 1 .. len
      /\ longer[len + 1] = frame
  BY AppendProperties
<1>2. \A i \in 1 .. len : longer[i] = frames[i]
  BY AppendProperties
<1>3. /\ \A i \in 1 .. len : frames[i].oSeq = NumberAfter(before(i), frames[i])
      /\ m = before(len + 1)
  BY <1>1 DEF Numbered
<1>4. \A i \in 1 .. len + 1 : after(i) = before(i)
  <2> TAKE i \in 1 .. len + 1
  <2>1. i # 1 => i - 1 \in 1 .. len
    BY <1>1
  <2> QED BY <1>2, <2>1
<1>5. after(len + 2) = frame.oSeq
  <2>1. len + 2 # 1 /\ len + 2 - 1 = len + 1
    BY <1>1
  <2> QED BY <1>1, <2>1
<1> HIDE DEF before, longer
<1>6. ASSUME NEW i \in 1 .. len + 1 PROVE longer[i].oSeq = NumberAfter(after(i), longer[i])
  <2>1. CASE i = len + 1
    <3>1. after(i) = m /\ longer[i] = frame
      BY <1>1, <1>3, <1>4, <2>1
    <3> HIDE DEF after
    <3> QED BY <3>1
  <2>2. CASE i \in 1 .. len
    <3>1. after(i) = before(i) /\ longer[i] = frames[i]
      BY <1>2, <1>4, <2>2
    <3> HIDE DEF after
    <3> QED BY <1>3, <2>2, <3>1
  <2> QED BY <1>1, <2>1, <2>2
<1>7. Len(longer) + 1 = len + 2
  BY <1>1
<1>8. /\ \A i \in DOMAIN longer : longer[i].oSeq = NumberAfter(after(i), longer[i])
      /\ frame.oSeq = after(Len(longer) + 1)
  BY <1>1, <1>5, <1>6, <1>7
<1> QED BY <1>8 DEF Numbered, longer

\* The result of a write function: the object as it was with one frame more,
\* which carries its numbers.
LEMMA SendAppends ==
  ASSUME NEW s \in Objects, NEW type \in FrameTypes, NEW retry \in BOOLEAN,
         NEW answer \in Asked
  PROVE  LET t == Send(s, type, retry, answer)
         IN  \E frame \in Frames :
               /\ t \in Objects /\ t.out = Append(s.out, frame)
               /\ t.oSeq = s.oSeq /\ t.iSeq = s.iSeq /\ t.dCall = s.dCall
               /\ frame.type = type /\ frame.retry = retry
               /\ frame.oSeq = s.oSeq /\ frame.iSeq = s.iSeq
<1> DEFINE frame == [type |-> type, retry |-> retry, dCall |-> s.dCall,
                     oSeq |-> s.oSeq, iSeq |-> s.iSeq, answer |-> answer]
<1>1. /\ frame \in Frames /\ frame.type = type /\ frame.retry = retry
      /\ frame.oSeq = s.oSeq /\ frame.iSeq = s.iSeq
  BY DEF Objects, Frames
<1>2. Send(s, type, retry, answer) = [s EXCEPT !.out = Append(@, frame)]
  BY DEF Send
<1> HIDE DEF frame
<1>3. s.out \in Seq(Frames)
  BY DEF Objects
<1>4. Append(s.out, frame) \in Seq(Frames)
  BY <1>1, <1>3, AppendProperties
<1> DEFINE t == [s EXCEPT !.out = Append(@, frame)]
<1>5. /\ t \in Objects /\ t.out = Append(s.out, frame)
      /\ t.oSeq = s.oSeq /\ t.iSeq = s.iSeq /\ t.dCall = s.dCall
  BY <1>4 DEF Objects
<1> HIDE DEF t
<1>6. Send(s, type, retry, answer) = t
  BY <1>2 DEF t
<1> QED BY <1>1, <1>5, <1>6

\* A frame that repeats the number: an ACK, a short frame, a repetition.
LEMMA SendPart ==
  ASSUME NEW s, NEW s0 \in Objects, Part(s, s0), NEW type \in FrameTypes \ {"NEW"},
         NEW retry \in BOOLEAN, NEW answer \in Asked,
         type \in {"ACK", "MINI"} \/ retry
  PROVE  LET t == Send(s, type, retry, answer) IN Part(t, s0) /\ Answered(t)
<1> DEFINE t == Send(s, type, retry, answer)
<1>1. s \in Objects /\ s.out \in Seq(Frames) /\ s.oSeq \in Nat /\ s0.oSeq \in Nat
  BY DEF Part, Objects
<1>2. PICK frame \in Frames :
        /\ t \in Objects /\ t.out = Append(s.out, frame)
        /\ t.oSeq = s.oSeq /\ t.iSeq = s.iSeq /\ t.dCall = s.dCall
        /\ frame.type = type /\ frame.retry = retry
        /\ frame.oSeq = s.oSeq /\ frame.iSeq = s.iSeq
  BY <1>1, SendAppends
<1> HIDE DEF t
<1>3. frame.oSeq = NumberAfter(s.oSeq, frame)
  BY <1>2 DEF NumberAfter
<1>4. Numbered(s0.oSeq, t.out, t.oSeq)
  BY <1>1, <1>2, <1>3, AppendNumbered DEF Part
<1>5. Answered(t) /\ (HasNew(s) => HasNew(t))
  <2>1. /\ DOMAIN t.out = 1 .. Len(s.out) + 1 /\ Len(t.out) = Len(s.out) + 1
        /\ DOMAIN s.out = 1 .. Len(s.out)
        /\ t.out[Len(s.out) + 1] = frame /\ Len(s.out) \in Nat
    BY <1>1, <1>2, AppendProperties
  <2>2. \A i \in 1 .. Len(s.out) : t.out[i] = s.out[i]
    BY <1>1, <1>2, AppendProperties
  <2>3. t.out # << >>
    BY <2>1
  <2> QED BY <1>2, <2>1, <2>2, <2>3 DEF Answered, HasNew
<1> QED BY <1>2, <1>4, <1>5 DEF Part, t

LEMMA AdvanceType ==
  ASSUME NEW s \in Objects
  PROVE  /\ Advance(s) \in Objects /\ Advance(s).oSeq = (s.oSeq + 1) % SeqNumbers
         /\ Advance(s).out = s.out /\ Advance(s).iSeq = s.iSeq
         /\ Advance(s).dCall = s.dCall /\ Advance(s).seed = s.seed
<1>1. (s.oSeq + 1) % SeqNumbers \in 0 .. SeqNumbers - 1
  BY IAXAssumption DEF Objects
<1> QED BY <1>1 DEF Advance, Objects

\* A frame with a number of its own.
LEMMA SendNextPart ==
  ASSUME NEW s, NEW s0 \in Objects, Part(s, s0),
         NEW type \in FrameTypes \ {"NEW", "ACK", "MINI"}, NEW answer \in Asked
  PROVE  LET t == Send(Advance(s), type, FALSE, answer) IN Part(t, s0) /\ Answered(t)
<1> DEFINE a == Advance(s)
           first == FALSE
           t == Send(a, type, first, answer)
<1>1. s \in Objects /\ s.out \in Seq(Frames) /\ s.oSeq \in Nat /\ s0.oSeq \in Nat
  BY DEF Part, Objects
<1>2. /\ a \in Objects /\ a.oSeq = (s.oSeq + 1) % SeqNumbers
      /\ a.out = s.out /\ a.iSeq = s.iSeq /\ a.dCall = s.dCall
  BY <1>1, AdvanceType
<1> HIDE DEF a
<1>3. PICK frame \in Frames :
        /\ t \in Objects /\ t.out = Append(a.out, frame)
        /\ t.oSeq = a.oSeq /\ t.iSeq = a.iSeq /\ t.dCall = a.dCall
        /\ frame.type = type /\ frame.retry = first
        /\ frame.oSeq = a.oSeq /\ frame.iSeq = a.iSeq
  <2>1. first \in BOOLEAN /\ type \in FrameTypes
    OBVIOUS
  <2> HIDE DEF first
  <2> QED BY <1>2, <2>1, SendAppends
<1> HIDE DEF t
<1>4. frame.oSeq = NumberAfter(s.oSeq, frame)
  BY <1>2, <1>3 DEF NumberAfter, first
<1>5. Numbered(s0.oSeq, t.out, t.oSeq)
  BY <1>1, <1>2, <1>3, <1>4, AppendNumbered DEF Part
<1>6. Answered(t) /\ (HasNew(s) => HasNew(t))
  <2>1. /\ DOMAIN t.out = 1 .. Len(s.out) + 1 /\ Len(t.out) = Len(s.out) + 1
        /\ DOMAIN s.out = 1 .. Len(s.out)
        /\ t.out[Len(s.out) + 1] = frame /\ Len(s.out) \in Nat
    BY <1>1, <1>2, <1>3, AppendProperties
  <2>2. \A i \in 1 .. Len(s.out) : t.out[i] = s.out[i]
    BY <1>1, <1>2, <1>3, AppendProperties
  <2>3. t.out # << >>
    BY <2>1
  <2> QED BY <1>3, <2>1, <2>2, <2>3 DEF Answered, HasNew
<1> QED BY <1>2, <1>3, <1>5, <1>6 DEF Part, t, a, first

LEMMA WritersPart ==
  ASSUME NEW s, NEW s0 \in Objects, Part(s, s0)
  PROVE  /\ Part(WritePing(s), s0) /\ Answered(WritePing(s))
         /\ Part(WritePong(s), s0) /\ Answered(WritePong(s))
         /\ Part(WriteAck(s), s0) /\ Answered(WriteAck(s))
         /\ Part(WriteLagRp(s), s0) /\ Answered(WriteLagRp(s))
         /\ Part(WriteLagRq(s), s0) /\ Answered(WriteLagRq(s))
         /\ Part(WriteHangup(s), s0) /\ Answered(WriteHangup(s))
         /\ Part(WriteAudio(s), s0) /\ Answered(WriteAudio(s))
         /\ Part(WriteMini(s), s0) /\ Answered(WriteMini(s))
         /\ Part(WriteAuthRep(s), s0) /\ Answered(WriteAuthRep(s))
         /\ \A key \in BOOLEAN : Part(WriteKey(s, key), s0) /\ Answered(WriteKey(s, key))
<1>1. s \in Objects
  BY DEF Part
<1>2. NoChallenge \in Asked /\ s.seed \in Asked /\ Advance(s).seed = s.seed
  BY <1>1, AdvanceType DEF Objects, Asked
<1>3. \A type \in {"PING", "PONG", "LAGRP", "LAGRQ", "HANGUP", "VOICE", "KEY", "UNKEY"} :
        type \in FrameTypes \ {"NEW", "ACK", "MINI"}
  BY DEF FrameTypes
<1>4. \A type \in {"PING", "PONG", "LAGRP", "LAGRQ", "HANGUP", "VOICE", "KEY", "UNKEY"} :
        LET t == Send(Advance(s), type, FALSE, NoChallenge) IN Part(t, s0) /\ Answered(t)
  BY <1>2, <1>3, SendNextPart
<1>5. /\ Part(WritePing(s), s0) /\ Answered(WritePing(s))
      /\ Part(WritePong(s), s0) /\ Answered(WritePong(s))
      /\ Part(WriteLagRp(s), s0) /\ Answered(WriteLagRp(s))
      /\ Part(WriteLagRq(s), s0) /\ Answered(WriteLagRq(s))
      /\ Part(WriteHangup(s), s0) /\ Answered(WriteHangup(s))
      /\ Part(WriteAudio(s), s0) /\ Answered(WriteAudio(s))
      /\ \A key \in BOOLEAN : Part(WriteKey(s, key), s0) /\ Answered(WriteKey(s, key))
  BY <1>4 DEF WritePing, WritePong, WriteLagRp, WriteLagRq, WriteHangup, WriteAudio, WriteKey
<1>6. \A type \in {"ACK", "MINI"} :
        LET t == Send(s, type, FALSE, NoChallenge) IN Part(t, s0) /\ Answered(t)
  <2>1. \A type \in {"ACK", "MINI"} : type \in FrameTypes \ {"NEW"}
    BY DEF FrameTypes
  <2> QED BY <1>2, <2>1, SendPart
<1>7. /\ Part(WriteAck(s), s0) /\ Answered(WriteAck(s))
      /\ Part(WriteMini(s), s0) /\ Answered(WriteMini(s))
  BY <1>6 DEF WriteAck, WriteMini
<1>8. Part(WriteAuthRep(s), s0) /\ Answered(WriteAuthRep(s))
  <2>1. "AUTHREP" \in FrameTypes \ {"NEW", "ACK", "MINI"}
    BY DEF FrameTypes
  <2>2. LET t == Send(Advance(s), "AUTHREP", FALSE, s.seed) IN Part(t, s0) /\ Answered(t)
    BY <1>2, <2>1, SendNextPart
  <2>3. WriteAuthRep(s) = Send(Advance(s), "AUTHREP", FALSE, s.seed)
    BY DEF WriteAuthRep
  <2> QED BY <2>2, <2>3
<1> QED BY <1>5, <1>7, <1>8

LEMMA RegReqPart ==
  ASSUME NEW s, NEW s0 \in Objects, Part(s, s0)
  PROVE  /\ Part(WriteRegReq(s, TRUE), s0) /\ Answered(WriteRegReq(s, TRUE))
         /\ Part(WriteRegReq(s, FALSE), s0) /\ Answered(WriteRegReq(s, FALSE))
<1> DEFINE answer == IF s.dCall > 0 THEN s.seed ELSE NoChallenge
<1>1. answer \in Asked
  BY DEF Part, Objects, Asked
<1>2. /\ WriteRegReq(s, TRUE) = Send(s, "REGREQ", TRUE, answer)
      /\ WriteRegReq(s, FALSE) = Send(Advance(s), "REGREQ", FALSE, answer)
  BY DEF WriteRegReq
<1> HIDE DEF answer
<1>3. "REGREQ" \in FrameTypes \ {"NEW", "ACK", "MINI"}
  BY DEF FrameTypes
<1>4. LET t == Send(s, "REGREQ", TRUE, answer) IN Part(t, s0) /\ Answered(t)
  BY <1>1, <1>3, SendPart
<1>5. LET t == Send(Advance(s), "REGREQ", FALSE, answer) IN Part(t, s0) /\ Answered(t)
  BY <1>1, <1>3, SendNextPart
<1> QED BY <1>2, <1>4, <1>5

\* A NEW starts the numbers again, whatever was sent before.
LEMMA NewPart ==
  ASSUME NEW s \in Objects, NEW s0 \in Objects, Numbered(s0.oSeq, s.out, s.oSeq),
         NEW retry \in BOOLEAN
  PROVE  /\ Part(WriteNew(s, retry), s0) /\ Answered(WriteNew(s, retry))
         /\ HasNew(WriteNew(s, retry))
<1> DEFINE n == IF retry THEN s.sCall ELSE s.sCall + 1
           a == [s EXCEPT !.sCall = n, !.oSeq = 0, !.iSeq = 0, !.dCall = 0]
           t == Send(a, "NEW", retry, NoChallenge)
<1>1. s \in Objects /\ s.out \in Seq(Frames) /\ s.oSeq \in Nat /\ s0.oSeq \in Nat
      /\ s.sCall \in Nat
  BY DEF Objects
<1>2. WriteNew(s, retry) = t
  BY DEF WriteNew
<1>3. n \in Nat /\ 0 \in 0 .. SeqNumbers - 1
  BY <1>1, IAXAssumption
<1> HIDE DEF n
<1>4. a \in Objects /\ a.out = s.out /\ a.oSeq = 0 /\ a.iSeq = 0 /\ a.dCall = 0
  BY <1>1, <1>3 DEF Objects
<1> HIDE DEF a
<1>5. PICK frame \in Frames :
        /\ t \in Objects /\ t.out = Append(a.out, frame)
        /\ t.oSeq = a.oSeq /\ t.iSeq = a.iSeq /\ t.dCall = a.dCall
        /\ frame.type = "NEW" /\ frame.retry = retry
        /\ frame.oSeq = a.oSeq /\ frame.iSeq = a.iSeq
  <2>1. "NEW" \in FrameTypes /\ NoChallenge \in Asked
    BY DEF FrameTypes, Asked
  <2> QED BY <1>4, <2>1, SendAppends
<1> HIDE DEF t
<1>6. frame.oSeq = NumberAfter(s.oSeq, frame)
  BY <1>4, <1>5 DEF NumberAfter
<1>7. Numbered(s0.oSeq, t.out, t.oSeq)
  BY <1>1, <1>4, <1>5, <1>6, AppendNumbered
<1>8. Answered(t) /\ HasNew(t)
  <2>1. /\ DOMAIN t.out = 1 .. Len(s.out) + 1 /\ Len(t.out) = Len(s.out) + 1
        /\ t.out[Len(s.out) + 1] = frame /\ Len(s.out) \in Nat
    BY <1>1, <1>4, <1>5, AppendProperties
  <2>2. t.out # << >> /\ Len(s.out) + 1 \in DOMAIN t.out
    BY <2>1
  <2> QED BY <1>5, <2>1, <2>2 DEF Answered, HasNew
<1> QED BY <1>2, <1>5, <1>7, <1>8 DEF Part

-----------------------------------------------------------------------------
\* Fields that no frame carries.
LEMMA SetWire ==
  ASSUME NEW s \in Objects
  PROVE  /\ \A n \in Nat : /\ [s EXCEPT !.retry = n] \in Objects
                           /\ SameWire([s EXCEPT !.retry = n], s)
                           /\ [s EXCEPT !.ping = n] \in Objects
                           /\ SameWire([s EXCEPT !.ping = n], s)
         /\ \A b \in BOOLEAN : /\ [s EXCEPT !.keyed = b] \in Objects
                               /\ SameWire([s EXCEPT !.keyed = b], s)
         /\ \A c \in Asked : /\ [s EXCEPT !.seed = c] \in Objects
                             /\ SameWire([s EXCEPT !.seed = c], s)
         /\ \A n \in 0 .. RingLength - 1 : /\ [s EXCEPT !.buffered = n] \in Objects
                                           /\ SameWire([s EXCEPT !.buffered = n], s)
BY DEF Objects, SameWire

LEMMA TimerNat ==
  ASSUME NEW timeout \in Nat, NEW timer \in Nat, NEW ms \in Nat
  PROVE  Ticked(timer, timeout, ms) \in Nat /\ Started(timer, timeout) \in Nat
BY DEF Ticked, Started, Stopped

\* What the timers of clock() repeat or send belongs to the story as well.
LEMMA TimersStory ==
  ASSUME NEW s, NEW s0 \in Objects, Story(s, s0), NEW ms \in Nat
  PROVE  Story(RetryTimer(s, ms), s0) /\ Story(PingTimer(s, ms), s0)
<1> DEFINE r == Ticked(s.retry, RetryTimeout, ms)
           p == Ticked(s.ping, PingTimeout, ms)
           now == [s EXCEPT !.retry = r]
           on == [s EXCEPT !.ping = p]
<1>1. s \in Objects /\ s.retry \in Nat /\ s.ping \in Nat
  BY DEF Story, Part, Objects
<1>2. r \in Nat /\ p \in Nat
  BY <1>1, TimerNat, IAXAssumption
<1>3. /\ RetryTimer(s, ms) = IF IsRunning(now.retry) /\ HasExpired(now.retry, RetryTimeout)
           THEN [RetryDue(now) EXCEPT !.retry = Started(@, RetryTimeout)] ELSE now
      /\ PingTimer(s, ms) = IF IsRunning(on.ping) /\ HasExpired(on.ping, PingTimeout)
           THEN [WritePing(on) EXCEPT !.ping = Started(@, PingTimeout)] ELSE on
  BY DEF RetryTimer, PingTimer
<1> HIDE DEF r, p
<1>4. Story(now, s0) /\ Story(on, s0)
  BY <1>1, <1>2, SetWire, WireStory
<1> HIDE DEF now, on
<1>5. Story([RetryDue(now) EXCEPT !.retry = Started(@, RetryTimeout)], s0)
  <2> DEFINE due == RetryDue(now)
             n == Started(due.retry, RetryTimeout)
  <2>1. Story(due, s0)
    <3>1. CASE now.status = "CONNECTING"
      <4>1. due = WriteNew(now, TRUE)
        BY <3>1 DEF RetryDue
      <4>2. Part(WriteNew(now, TRUE), s0) /\ Answered(WriteNew(now, TRUE))
        BY <1>4, NewPart DEF Story, Part
      <4> QED BY <4>1, <4>2 DEF Story
    <3>2. CASE now.status = "REGISTERNG"
      <4>1. due = WriteRegReq(now, TRUE)
        BY <3>2 DEF RetryDue
      <4>2. Part(WriteRegReq(now, TRUE), s0) /\ Answered(WriteRegReq(now, TRUE))
        BY <1>4, RegReqPart DEF Story
      <4> QED BY <4>1, <4>2 DEF Story
    <3>3. CASE now.status \notin {"CONNECTING", "REGISTERNG"}
      <4>1. due = now
        BY <3>3 DEF RetryDue
      <4> QED BY <1>4, <4>1
    <3> QED BY <3>1, <3>2, <3>3
  <2>2. due \in Objects /\ due.retry \in Nat
    BY <2>1 DEF Story, Part, Objects
  <2>3. n \in Nat
    BY <2>2, TimerNat, IAXAssumption
  <2> HIDE DEF due, n
  <2>4. Story([due EXCEPT !.retry = n], s0)
    BY <2>1, <2>2, <2>3, SetWire, WireStory
  <2> QED BY <2>4 DEF due, n
<1>6. Story([WritePing(on) EXCEPT !.ping = Started(@, PingTimeout)], s0)
  <2> DEFINE due == WritePing(on)
             n == Started(due.ping, PingTimeout)
  <2>1. Story(due, s0)
    BY <1>4, WritersPart DEF Story
  <2>2. due \in Objects /\ due.ping \in Nat
    BY <2>1 DEF Story, Part, Objects
  <2>3. n \in Nat
    BY <2>2, TimerNat, IAXAssumption
  <2> HIDE DEF due, n
  <2>4. Story([due EXCEPT !.ping = n], s0)
    BY <2>1, <2>2, <2>3, SetWire, WireStory
  <2> QED BY <2>4 DEF due, n
<1> QED BY <1>3, <1>4, <1>5, <1>6

-----------------------------------------------------------------------------
\* Between the receipt of a frame and the answer.
LEMMA ReceivedPart ==
  ASSUME NEW s, NEW s0 \in Objects, Part(s, s0), NEW frame \in Arrivals
  PROVE  /\ Part(Received(s, frame), s0)
         /\ Part(Acknowledged(s, frame), s0) /\ Answered(Acknowledged(s, frame))
<1>1. (frame.oSeq + 1) % SeqNumbers \in 0 .. SeqNumbers - 1
  BY ArrivalType, IAXAssumption
<1>2. s \in Objects
  BY DEF Part
<1> DEFINE r == Received(s, frame)
<1>3. r \in Objects /\ r.out = s.out /\ r.oSeq = s.oSeq /\ r.dCall = s.dCall
  BY <1>1, <1>2 DEF Received, Objects
<1> HIDE DEF r
<1>4. Part(r, s0)
  BY <1>3 DEF Part, HasNew
<1>5. Part(WriteAck(r), s0) /\ Answered(WriteAck(r))
  BY <1>4, WritersPart
<1> QED BY <1>4, <1>5 DEF r, Acknowledged

\* The answers to a challenge.
LEMMA ChallengeStory ==
  ASSUME NEW s, NEW s0 \in Objects, Story(s, s0), NEW frame \in Arrivals
  PROVE  Story(HandleRegAuth(s, frame), s0) /\ Story(HandleAuthReq(s, frame), s0)
<1>1. CASE frame.challenge = NoChallenge
  BY <1>1 DEF HandleRegAuth, HandleAuthReq
<1>2. CASE frame.challenge # NoChallenge
  <2> DEFINE r == Received(s, frame)
             c == frame.challenge
             n == Started(r.retry, RetryTimeout)
             asked == [r EXCEPT !.status = "REGISTERNG", !.seed = c, !.retry = n]
             replying == [r EXCEPT !.seed = c]
  <2>1. Part(r, s0) /\ c \in Asked
    BY ReceivedPart, ArrivalType DEF Story
  <2>2. /\ HandleRegAuth(s, frame) = WriteRegReq(asked, FALSE)
        /\ HandleAuthReq(s, frame) = WriteAuthRep(replying)
    BY <1>2 DEF HandleRegAuth, HandleAuthReq
  <2> HIDE DEF r, c
  <2>3. r \in Objects /\ r.retry \in Nat
    BY <2>1 DEF Part, Objects
  <2>4. n \in Nat
    BY <2>3, TimerNat, IAXAssumption
  <2> HIDE DEF n
  <2>5. asked \in Objects /\ SameWire(asked, r)
    BY <2>1, <2>3, <2>4 DEF Objects, Statuses, SameWire
  <2>6. replying \in Objects /\ SameWire(replying, r)
    BY <2>1, <2>3, SetWire
  <2> HIDE DEF asked, replying
  <2>7. Part(asked, s0) /\ Part(replying, s0)
    BY <2>1, <2>5, <2>6, WireStory
  <2>8. /\ Part(WriteRegReq(asked, FALSE), s0) /\ Answered(WriteRegReq(asked, FALSE))
        /\ Part(WriteAuthRep(replying), s0) /\ Answered(WriteAuthRep(replying))
    BY <2>7, WritersPart, RegReqPart
  <2> QED BY <2>2, <2>8 DEF Story
<1> QED BY <1>1, <1>2

\* A call that comes up or ends.
LEMMA StatusWire ==
  ASSUME NEW s \in Objects
  PROVE  /\ Connected(s) \in Objects /\ SameWire(Connected(s), s)
         /\ Disconnected(s) \in Objects /\ SameWire(Disconnected(s), s)
<1> DEFINE n == Started(s.ping, PingTimeout)
           up == [s EXCEPT !.status = "CONNECTED", !.retry = Stopped, !.ping = n]
           down == [s EXCEPT !.status = "DISCONNECTED", !.keyed = FALSE,
                             !.retry = Stopped, !.ping = Stopped]
<1>1. n \in Nat
  BY TimerNat, IAXAssumption DEF Objects
<1>2. Connected(s) = up /\ Disconnected(s) = down
  BY DEF Connected, Disconnected
<1> HIDE DEF n
<1>3. up \in Objects /\ SameWire(up, s)
  BY <1>1 DEF Objects, Statuses, Stopped, SameWire
<1>4. down \in Objects /\ SameWire(down, s)
  BY DEF Objects, Statuses, Stopped, SameWire
<1> QED BY <1>2, <1>3, <1>4

LEMMA BufferWire ==
  ASSUME NEW s \in Objects, NEW n \in Nat
  PROVE  Buffer(s, n) \in Objects /\ SameWire(Buffer(s, n), s)
<1> DEFINE m == IF n < RingLength - s.buffered THEN s.buffered + n ELSE 0
<1>1. s.buffered \in 0 .. RingLength - 1
  BY DEF Objects
<1>2. m \in 0 .. RingLength - 1
  BY <1>1, IAXAssumption
<1>3. Buffer(s, n) = IF ~s.keyed THEN s ELSE [s EXCEPT !.buffered = m]
  BY DEF Buffer
<1> HIDE DEF m
<1>4. SameWire(s, s)
  BY DEF SameWire
<1> QED BY <1>2, <1>3, <1>4, SetWire

\* The peer's call number is taken only when there is none.
LEMMA HandleAckStory ==
  ASSUME NEW s, NEW s0 \in Objects, Story(s, s0), NEW frame \in Arrivals
  PROVE  Story(HandleAck(s, frame), s0)
<1>1. CASE s.dCall = 0
  <2> DEFINE t == [s EXCEPT !.dCall = frame.sCall]
  <2>1. s \in Objects /\ frame.sCall \in Nat
    BY ArrivalType DEF Story, Part
  <2>2. t \in Objects /\ t.out = s.out /\ t.oSeq = s.oSeq /\ t.iSeq = s.iSeq
    BY <2>1 DEF Objects
  <2>3. HandleAck(s, frame) = t
    BY <1>1 DEF HandleAck
  <2> HIDE DEF t
  <2>4. s0.dCall = 0 \/ HasNew(s)
    BY <1>1 DEF Story, Part
  <2> QED BY <2>2, <2>3, <2>4 DEF Story, Part, Answered, HasNew
<1>2. CASE s.dCall # 0
  BY <1>2 DEF HandleAck
<1> QED BY <1>1, <1>2

\* Whatever arrives, in whatever state.
LEMMA HandledStory ==
  ASSUME NEW s, NEW s0 \in Objects, Story(s, s0), NEW frame \in Arrivals
  PROVE  Story(Handled(s, frame), s0)
<1> DEFINE r == Received(s, frame)
           k == Acknowledged(s, frame)
<1>1. Part(r, s0) /\ Part(k, s0) /\ Answered(k)
  BY ReceivedPart DEF Story
<1>2. /\ frame.size \in Nat
      /\ frame.type \in {"PING", "ACCEPT", "REJECT", "REGACK", "HANGUP", "LAGRQ", "KEY",
                         "UNKEY", "NOTICE", "ACK", "REGAUTH", "AUTHREQ", "VOICE", "MINI"}
  BY ArrivalType
<1>3. Story(k, s0) /\ k \in Objects /\ s \in Objects
  BY <1>1 DEF Story, Part
<1>4. Story(HandlePing(s, frame), s0)
  <2>1. Part(WritePong(k), s0) /\ Answered(WritePong(k))
    BY <1>1, WritersPart
  <2> QED BY <2>1 DEF HandlePing, Story
<1>5. Story(HandleLagRq(s, frame), s0)
  <2>1. Part(WriteLagRq(r), s0)
    BY <1>1, WritersPart
  <2>2. Part(WriteLagRp(WriteLagRq(r)), s0) /\ Answered(WriteLagRp(WriteLagRq(r)))
    BY <2>1, WritersPart
  <2> QED BY <2>2 DEF HandleLagRq, Story
<1> HIDE DEF r, k
<1>6. Story(Connected(k), s0) /\ Story(Disconnected(k), s0)
  BY <1>3, StatusWire, WireStory
<1>7. /\ Story(HandleAccept(s, frame), s0) /\ Story(HandleRegAck(s, frame), s0)
      /\ Story(HandleReject(s, frame), s0) /\ Story(HandleHangup(s, frame), s0)
  BY <1>6 DEF HandleAccept, HandleRegAck, HandleReject, HandleHangup, k
<1>8. Story([k EXCEPT !.keyed = TRUE], s0) /\ Story([k EXCEPT !.keyed = FALSE], s0)
  <2>1. \A b \in BOOLEAN : [k EXCEPT !.keyed = b] \in Objects
                           /\ SameWire([k EXCEPT !.keyed = b], k)
    BY <1>3, SetWire
  <2>2. \A b \in BOOLEAN : Story([k EXCEPT !.keyed = b], s0)
    BY <1>3, <2>1, WireStory
  <2> QED BY <2>2
<1>9. Story(HandleKey(s, frame), s0) /\ Story(HandleUnkey(s, frame), s0)
  BY <1>8 DEF HandleKey, HandleUnkey, k
<1>10. Story(Buffer(k, frame.size), s0) /\ Story(Buffer(s, frame.size), s0)
  BY <1>2, <1>3, BufferWire, WireStory
<1>11. /\ Story(HandleVoice(s, frame), s0) /\ Story(HandleMini(s, frame), s0)
       /\ Story(HandleNotice(s, frame), s0)
  BY <1>3, <1>10 DEF HandleVoice, HandleMini, HandleNotice, k
<1>12. /\ Story(HandleRegAuth(s, frame), s0) /\ Story(HandleAuthReq(s, frame), s0)
       /\ Story(HandleAck(s, frame), s0)
  BY ChallengeStory, HandleAckStory
<1> QED BY <1>2, <1>4, <1>5, <1>7, <1>9, <1>11, <1>12 DEF Handled

-----------------------------------------------------------------------------
\* Before anything has been sent.
LEMMA BeginStory ==
  ASSUME NEW s \in Objects
  PROVE  Story(Begin(s), s) /\ Begin(s).status = s.status /\ Begin(s).out = << >>
         /\ Begin(s).retry = s.retry /\ Begin(s).ping = s.ping
<1> DEFINE b == [s EXCEPT !.out = << >>]
<1>1. << >> \in Seq(Frames) /\ DOMAIN << >> = {} /\ Len(<< >>) = 0
  BY EmptySeq
<1>2. /\ b \in Objects /\ b.out = << >> /\ b.oSeq = s.oSeq /\ b.iSeq = s.iSeq
      /\ b.dCall = s.dCall /\ b.status = s.status /\ b.retry = s.retry /\ b.ping = s.ping
  BY <1>1 DEF Objects
<1>3. Begin(s) = b
  BY DEF Begin
<1> HIDE DEF b
<1>4. Numbered(s.oSeq, b.out, b.oSeq)
  BY <1>1, <1>2 DEF Numbered
<1> QED BY <1>2, <1>3, <1>4 DEF Story, Part

LEMMA OpeningStory ==
  ASSUME NEW s \in Objects
  PROVE  Story(Calling(Begin(s)), s) /\ Story(Opened(Begin(s)), s)
         /\ HasNew(Calling(Begin(s)))
<1> DEFINE b == Begin(s)
           d == [b EXCEPT !.dCall = 0, !.keyed = FALSE]
           t == WriteNew(d, FALSE)
           n == Started(t.retry, RetryTimeout)
           o == [t EXCEPT !.status = "CONNECTING", !.retry = n]
<1>1. b \in Objects /\ Numbered(s.oSeq, b.out, b.oSeq)
  BY BeginStory DEF Story, Part
<1>2. Calling(b) = t /\ Opened(b) = o
  BY DEF Opened, Calling
<1> HIDE DEF b
<1>3. d \in Objects /\ d.out = b.out /\ d.oSeq = b.oSeq
  BY <1>1 DEF Objects
<1> HIDE DEF d
<1>4. Part(t, s) /\ Answered(t) /\ HasNew(t)
  BY <1>1, <1>3, NewPart
<1> HIDE DEF t
<1>5. t \in Objects /\ t.retry \in Nat
  BY <1>4 DEF Part, Objects
<1>6. n \in Nat
  BY <1>5, TimerNat, IAXAssumption
<1> HIDE DEF n
<1>7. o \in Objects /\ SameWire(o, t)
  BY <1>5, <1>6 DEF Objects, Statuses, SameWire
<1> HIDE DEF o
<1> QED BY <1>2, <1>4, <1>7, WireStory DEF Story, b

\* clock(): the timers, then the datagram.
LEMMA ClockStory ==
  ASSUME iax \in Objects, NEW ms \in Nat, Clock(ms)
  PROVE  Story(iax', iax)
<1> DEFINE b == Begin(iax)
           r == RetryTimer(b, ms)
           s == PingTimer(r, ms)
<1>1. Story(b, iax)
  BY BeginStory
<1> HIDE DEF b
<1>2. Story(r, iax)
  BY <1>1, TimersStory
<1> HIDE DEF r
<1>3. Story(s, iax)
  BY <1>2, TimersStory
<1>4. iax' = s \/ \E frame \in Arrivals : iax' = Handled(s, frame)
  BY DEF Clock, s, r, b
<1> HIDE DEF s
<1> QED BY <1>3, <1>4, HandledStory

\* Every call but the end of one object and the start of the next.
LEMMA NextStory ==
  ASSUME IInv, Next, ~UNCHANGED vars, phase # "closed"
  PROVE  Story(iax', iax)
<1> DEFINE b == Begin(iax)
<1>1. iax \in Objects
  BY DEF IInv, Fine, Core
<1>2. Story(b, iax) /\ b \in Objects /\ Part(b, iax)
  BY <1>1, BeginStory DEF Story, Part
<1>3. CASE OpenFails \/ Open
  BY <1>1, <1>2, <1>3, OpeningStory DEF OpenFails, Open
<1>4. CASE WriteStart \/ WriteEnd \/ \E n \in Blocks : WriteData(n)
  <2>1. \A key \in BOOLEAN : Part(WriteKey(b, key), iax) /\ Answered(WriteKey(b, key))
    BY <1>2, WritersPart, <1>1
  <2>2. /\ Part(WriteAudio(WriteKey(b, TRUE)), iax)
        /\ Answered(WriteAudio(WriteKey(b, TRUE)))
    <3>1. Part(WriteKey(b, TRUE), iax)
      BY <2>1
    <3> QED BY <1>1, <3>1, WritersPart
  <2>3. Part(WriteMini(b), iax) /\ Answered(WriteMini(b))
    BY <1>2, WritersPart, <1>1
  <2>4. CASE WriteStart
    BY <1>2, <2>1, <2>2, <2>4 DEF WriteStart, Story
  <2>5. CASE \E n \in Blocks : WriteData(n)
    BY <1>2, <2>3, <2>5 DEF WriteData, Story
  <2>6. CASE WriteEnd
    BY <1>2, <2>1, <2>6 DEF WriteEnd, Story
  <2> QED BY <1>4, <2>4, <2>5, <2>6
<1>5. CASE Close
  <2> DEFINE t == WriteHangup(b)
             c == [t EXCEPT !.status = "DISCONNECTED", !.retry = Stopped, !.ping = Stopped]
  <2>1. Part(t, iax) /\ Answered(t)
    BY <1>1, <1>2, WritersPart
  <2>2. iax' = c
    BY <1>5 DEF Close, Closed
  <2> HIDE DEF t
  <2>3. c \in Objects /\ SameWire(c, t)
    BY <2>1 DEF Part, Objects, Statuses, Stopped, SameWire
  <2> HIDE DEF c
  <2> QED BY <2>1, <2>2, <2>3, WireStory DEF Story
<1>6. ASSUME NEW ms \in Elapsed, Clock(ms) PROVE Story(iax', iax)
  <2>1. ms \in Nat
    BY IAXAssumption
  <2> QED BY <1>1, <1>6, <2>1, ClockStory
<1>7. ASSUME NEW nOut \in Sizes, ReadData(nOut) PROVE Story(iax', iax)
  <2> DEFINE m == IF b.buffered < nOut THEN 0 ELSE b.buffered - nOut
  <2>1. iax' = [b EXCEPT !.buffered = m]
    BY <1>7 DEF ReadData
  <2>2. b.buffered \in 0 .. RingLength - 1 /\ nOut \in Nat
    BY <1>2, IAXAssumption DEF Objects
  <2>3. m \in 0 .. RingLength - 1
    BY <2>2, IAXAssumption
  <2> HIDE DEF m, b
  <2> QED BY <1>1, <1>2, <2>1, <2>3, SetWire, WireStory
<1>8. CASE Restart
  BY <1>8 DEF Restart
<1> QED BY <1>3, <1>4, <1>5, <1>6, <1>7, <1>8 DEF Next, Ended

\* Once the number of the peer's call is known it is kept until a NEW is
\* sent, whatever ACKs come late or twice.
THEOREM IdentityHolds == Spec => CallIdentity
<1>1. IInv /\ [Next]_vars =>
        [ iax.dCall # 0 /\ iax'.dCall # iax.dCall => phase = "closed" \/ Sent("NEW")' ]_vars
  <2> SUFFICES ASSUME IInv, Next, ~UNCHANGED vars,
                      iax.dCall # 0, iax'.dCall # iax.dCall, phase # "closed"
               PROVE  Sent("NEW")'
    BY DEF vars
  <2>1. Story(iax', iax)
    BY NextStory
  <2> QED BY <2>1 DEF Story, Part, HasNew, Sent
<1> QED BY <1>1, Invariant, PTL DEF Spec, CallIdentity

\* The frames that the peer must acknowledge are numbered without a gap or a
\* repetition, in every call of the object and from each call to the next.
THEOREM NumbersHold == Spec => NumbersFollow
<1>1. IInv /\ [Next]_vars =>
        [ phase # "closed" => Numbered(iax.oSeq, iax'.out, iax'.oSeq) ]_vars
  <2> SUFFICES ASSUME IInv, Next, ~UNCHANGED vars, phase # "closed"
               PROVE  Numbered(iax.oSeq, iax'.out, iax'.oSeq)
    BY DEF vars
  <2>1. Story(iax', iax)
    BY NextStory
  <2> QED BY <2>1 DEF Story, Part
<1> QED BY <1>1, Invariant, PTL DEF Spec, NumbersFollow

\* Whenever m_iSeqNo moves, the last frame that the call sent says so.
THEOREM ReceiptsAcknowledged == Spec => EveryReceiptAcknowledged
<1>1. IInv /\ [Next]_vars =>
        [ iax'.iSeq # iax.iSeq /\ phase # "closed" =>
            /\ iax'.out # << >>
            /\ iax'.out[Len(iax'.out)].iSeq = iax'.iSeq ]_vars
  <2> SUFFICES ASSUME IInv, Next, ~UNCHANGED vars, iax'.iSeq # iax.iSeq, phase # "closed"
               PROVE  /\ iax'.out # << >>
                      /\ iax'.out[Len(iax'.out)].iSeq = iax'.iSeq
    BY DEF vars
  <2>1. Story(iax', iax)
    BY NextStory
  <2> QED BY <2>1 DEF Story, Answered
<1> QED BY <1>1, Invariant, PTL DEF Spec, EveryReceiptAcknowledged

-----------------------------------------------------------------------------
\* What an object without a call does not send.
Unasked == {"NEW", "PING", "KEY", "UNKEY", "VOICE", "MINI"}

Silent(s) ==
  \A i \in DOMAIN s.out : s.out[i].type \notin Unasked /\ ~s.out[i].retry

LEMMA SendQuiet ==
  ASSUME NEW s \in Objects, Silent(s), NEW type \in FrameTypes \ Unasked,
         NEW answer \in Asked
  PROVE  LET t == Send(s, type, FALSE, answer) IN t \in Objects /\ Silent(t)
<1> DEFINE first == FALSE
           t == Send(s, type, first, answer)
<1>1. PICK frame \in Frames :
        t \in Objects /\ t.out = Append(s.out, frame)
        /\ frame.type = type /\ frame.retry = first
  <2>1. first \in BOOLEAN /\ type \in FrameTypes
    OBVIOUS
  <2> HIDE DEF first
  <2> QED BY <2>1, SendAppends
<1> HIDE DEF t
<1>2. s.out \in Seq(Frames)
  BY DEF Objects
<1>3. /\ DOMAIN t.out = 1 .. Len(s.out) + 1 /\ DOMAIN s.out = 1 .. Len(s.out)
      /\ t.out[Len(s.out) + 1] = frame /\ Len(s.out) \in Nat
  BY <1>1, <1>2, AppendProperties
<1>4. \A i \in 1 .. Len(s.out) : t.out[i] = s.out[i]
  BY <1>1, <1>2, AppendProperties
<1>5. \A i \in DOMAIN t.out : i \in DOMAIN s.out \/ i = Len(s.out) + 1
  BY <1>3
<1>6. frame.type \notin Unasked /\ ~frame.retry
  BY <1>1
<1>7. Silent(t)
  <2> SUFFICES ASSUME NEW i \in DOMAIN t.out
               PROVE  t.out[i].type \notin Unasked /\ ~t.out[i].retry
    BY DEF Silent
  <2>1. CASE i \in DOMAIN s.out
    <3>1. t.out[i] = s.out[i]
      BY <1>3, <1>4, <2>1
    <3> QED BY <2>1, <3>1 DEF Silent
  <2>2. CASE i = Len(s.out) + 1
    <3>1. t.out[i] = frame
      BY <1>3, <2>2
    <3> QED BY <1>6, <3>1
  <2> QED BY <1>5, <2>1, <2>2
<1> QED BY <1>1, <1>7 DEF t, first

\* The answers to the peer.
LEMMA AnswersQuiet ==
  ASSUME NEW s \in Objects, Silent(s)
  PROVE  /\ WriteAck(s) \in Objects /\ Silent(WriteAck(s))
         /\ WritePong(s) \in Objects /\ Silent(WritePong(s))
         /\ WriteLagRq(s) \in Objects /\ Silent(WriteLagRq(s))
         /\ WriteLagRp(s) \in Objects /\ Silent(WriteLagRp(s))
         /\ WriteAuthRep(s) \in Objects /\ Silent(WriteAuthRep(s))
         /\ WriteRegReq(s, FALSE) \in Objects /\ Silent(WriteRegReq(s, FALSE))
<1> DEFINE answer == IF s.dCall > 0 THEN s.seed ELSE NoChallenge
<1>1. NoChallenge \in Asked /\ s.seed \in Asked /\ answer \in Asked
  BY DEF Objects, Asked
<1>2. Advance(s) \in Objects /\ Silent(Advance(s)) /\ Advance(s).seed = s.seed
  BY AdvanceType DEF Silent
<1>3. \A type \in {"ACK", "PONG", "LAGRQ", "LAGRP", "AUTHREP", "REGREQ"} :
        type \in FrameTypes \ Unasked
  BY DEF FrameTypes, Unasked
<1>4. WriteRegReq(s, FALSE) = Send(Advance(s), "REGREQ", FALSE, answer)
  BY DEF WriteRegReq
<1> HIDE DEF answer
<1>5. \A type \in {"ACK", "PONG", "LAGRQ", "LAGRP", "AUTHREP", "REGREQ"} :
        \A a \in Asked :
          /\ Send(s, type, FALSE, a) \in Objects /\ Silent(Send(s, type, FALSE, a))
          /\ Send(Advance(s), type, FALSE, a) \in Objects
          /\ Silent(Send(Advance(s), type, FALSE, a))
  BY <1>2, <1>3, SendQuiet
<1> QED BY <1>1, <1>2, <1>4, <1>5
        DEF WriteAck, WritePong, WriteLagRq, WriteLagRp, WriteAuthRep

LEMMA WireQuiet ==
  ASSUME NEW s, NEW t, SameWire(t, s), Silent(s)
  PROVE  Silent(t)
BY DEF SameWire, Silent

\* Whatever arrives, only answers are sent.
LEMMA HandledQuiet ==
  ASSUME NEW s \in Objects, Silent(s), NEW frame \in Arrivals
  PROVE  Silent(Handled(s, frame))
<1> DEFINE r == Received(s, frame)
           k == Acknowledged(s, frame)
           c == frame.challenge
<1>1. /\ frame.size \in Nat /\ c \in Asked /\ frame.sCall \in Nat
      /\ frame.type \in {"PING", "ACCEPT", "REJECT", "REGACK", "HANGUP", "LAGRQ", "KEY",
                         "UNKEY", "NOTICE", "ACK", "REGAUTH", "AUTHREQ", "VOICE", "MINI"}
      /\ (frame.oSeq + 1) % SeqNumbers \in 0 .. SeqNumbers - 1
  BY ArrivalType, IAXAssumption
<1>2. r \in Objects /\ r.out = s.out /\ r.retry \in Nat
  BY <1>1 DEF Received, Objects
<1>3. Silent(r)
  BY <1>2 DEF Silent
<1>4. k \in Objects /\ Silent(k)
  BY <1>2, <1>3, AnswersQuiet DEF Acknowledged
<1>5. Silent(HandlePing(s, frame))
  BY <1>4, AnswersQuiet DEF HandlePing
<1>6. Silent(HandleLagRq(s, frame))
  BY <1>2, <1>3, AnswersQuiet DEF HandleLagRq
<1>7. Silent(HandleRegAuth(s, frame)) /\ Silent(HandleAuthReq(s, frame))
  <2>1. CASE c = NoChallenge
    BY <2>1 DEF HandleRegAuth, HandleAuthReq
  <2>2. CASE c # NoChallenge
    <3> DEFINE n == Started(r.retry, RetryTimeout)
               asked == [r EXCEPT !.status = "REGISTERNG", !.seed = c, !.retry = n]
               replying == [r EXCEPT !.seed = c]
    <3>1. /\ HandleRegAuth(s, frame) = WriteRegReq(asked, FALSE)
          /\ HandleAuthReq(s, frame) = WriteAuthRep(replying)
      BY <2>2 DEF HandleRegAuth, HandleAuthReq
    <3>2. n \in Nat
      BY <1>2, TimerNat, IAXAssumption
    <3> HIDE DEF r, n, c
    <3>3. asked \in Objects /\ asked.out = r.out /\ replying \in Objects /\ replying.out = r.out
      BY <1>1, <1>2, <3>2 DEF Objects, Statuses
    <3> HIDE DEF asked, replying
    <3>4. Silent(asked) /\ Silent(replying)
      BY <1>3, <3>3 DEF Silent
    <3> QED BY <3>1, <3>3, <3>4, AnswersQuiet
  <2> QED BY <2>1, <2>2
<1> HIDE DEF r, k, c
<1>8. /\ Silent(HandleAccept(s, frame)) /\ Silent(HandleRegAck(s, frame))
      /\ Silent(HandleReject(s, frame)) /\ Silent(HandleHangup(s, frame))
  BY <1>4, StatusWire, WireQuiet
     DEF HandleAccept, HandleRegAck, HandleReject, HandleHangup, k
<1>9. Silent(HandleKey(s, frame)) /\ Silent(HandleUnkey(s, frame))
  <2>1. /\ SameWire([k EXCEPT !.keyed = TRUE], k)
        /\ SameWire([k EXCEPT !.keyed = FALSE], k)
    BY <1>4 DEF SameWire, Objects
  <2> QED BY <1>4, <2>1, WireQuiet DEF HandleKey, HandleUnkey, k
<1>10. /\ Silent(HandleVoice(s, frame)) /\ Silent(HandleMini(s, frame))
       /\ Silent(HandleNotice(s, frame))
  BY <1>1, <1>4, BufferWire, WireQuiet DEF HandleVoice, HandleMini, HandleNotice, k
<1>11. Silent(HandleAck(s, frame))
  <2>1. [s EXCEPT !.dCall = frame.sCall].out = s.out
    BY DEF Objects
  <2>2. Silent([s EXCEPT !.dCall = frame.sCall])
    BY <2>1 DEF Silent
  <2> QED BY <2>2 DEF HandleAck
<1> QED BY <1>1, <1>5, <1>6, <1>7, <1>8, <1>9, <1>10, <1>11 DEF Handled

\* A stopped timer stays stopped and repeats nothing.
LEMMA StoppedQuiet ==
  ASSUME NEW s \in Objects, NEW ms \in Nat, s.out = << >>
  PROVE  /\ s.retry = Stopped => /\ RetryTimer(s, ms) \in Objects
                                 /\ RetryTimer(s, ms).out = << >>
                                 /\ RetryTimer(s, ms).ping = s.ping
         /\ s.ping = Stopped => /\ PingTimer(s, ms) \in Objects
                                /\ PingTimer(s, ms).out = << >>
<1> DEFINE now == [s EXCEPT !.retry = Stopped]
           on == [s EXCEPT !.ping = Stopped]
<1>1. /\ now \in Objects /\ now.out = << >> /\ now.retry = Stopped /\ now.ping = s.ping
      /\ on \in Objects /\ on.out = << >> /\ on.ping = Stopped
  BY DEF Objects, Stopped
<1>2. /\ Ticked(Stopped, RetryTimeout, ms) = Stopped
      /\ Ticked(Stopped, PingTimeout, ms) = Stopped
      /\ ~IsRunning(Stopped)
  BY DEF Ticked, Stopped, IsRunning
<1>3. s.retry = Stopped => RetryTimer(s, ms) = now
  BY <1>1, <1>2 DEF RetryTimer
<1>4. s.ping = Stopped => PingTimer(s, ms) = on
  BY <1>1, <1>2 DEF PingTimer
<1> QED BY <1>1, <1>3, <1>4

\* When there is no call the object answers the server, but it repeats
\* nothing, sends no PING, and lets no key or audio of the main loop out.
THEOREM QuietHolds == Spec => QuietWhenDisconnected
<1>1. IInv /\ [Next]_vars =>
        [ phase = "open" /\ phase' = "open" /\ iax.status = "DISCONNECTED" =>
            \A i \in DOMAIN iax'.out :
              /\ iax'.out[i].type \notin {"NEW", "PING", "KEY", "UNKEY", "VOICE", "MINI"}
              /\ ~iax'.out[i].retry ]_vars
  <2> SUFFICES ASSUME IInv, Next, phase = "open", phase' = "open",
                      iax.status = "DISCONNECTED"
               PROVE  Silent(iax')
    BY DEF vars, Silent, Unasked
  <2> DEFINE b == Begin(iax)
  <2>1. iax \in Objects /\ iax.retry = Stopped /\ iax.ping = Stopped
    BY DEF IInv, Fine, Core, Timed
  <2>2. b \in Objects /\ b.out = << >> /\ b.retry = Stopped /\ b.ping = Stopped
    BY <2>1, BeginStory DEF Story, Part
  <2>3. ASSUME NEW t, t.out = << >> PROVE Silent(t)
    <3>1. DOMAIN t.out = {}
      BY <2>3
    <3> QED BY <3>1 DEF Silent
  <2> HIDE DEF b
  <2>4. CASE WriteStart \/ WriteEnd \/ \E n \in Blocks : WriteData(n)
    <3>1. iax' = b
      BY <2>1, <2>4 DEF WriteStart, WriteData, WriteEnd, b
    <3> QED BY <2>2, <2>3, <3>1
  <2>5. ASSUME NEW ms \in Elapsed, Clock(ms) PROVE Silent(iax')
    <3> DEFINE r == RetryTimer(b, ms)
               s == PingTimer(r, ms)
    <3>1. ms \in Nat
      BY IAXAssumption
    <3>2. r \in Objects /\ r.out = << >> /\ r.ping = Stopped
      BY <2>2, <3>1, StoppedQuiet
    <3> HIDE DEF r
    <3>3. s \in Objects /\ s.out = << >>
      BY <3>1, <3>2, StoppedQuiet
    <3>4. iax' = s \/ \E frame \in Arrivals : iax' = Handled(s, frame)
      BY <2>5 DEF Clock, s, r, b
    <3> HIDE DEF s
    <3> QED BY <2>3, <3>3, <3>4, HandledQuiet
  <2>6. ASSUME NEW nOut \in Sizes, ReadData(nOut) PROVE Silent(iax')
    <3>1. iax'.out = b.out
      BY <2>2, <2>6 DEF ReadData, b, Objects
    <3> QED BY <2>2, <2>3, <3>1
  <2>7. ~OpenFails /\ ~Open /\ ~Close /\ ~Restart /\ ~Ended
    BY DEF OpenFails, Open, Close, Restart, Ended, Final
  <2> QED BY <2>4, <2>5, <2>6, <2>7 DEF Next
<1> QED BY <1>1, Invariant, PTL DEF Spec, QuietWhenDisconnected

-----------------------------------------------------------------------------
(***************************************************************************)
(* Client and server                                                       *)
(***************************************************************************)
\* A client's frame as the server reads it, and the server's side.
Requests == [type : FrameTypes, dCall : Nat, answer : Asked, number : 0 .. SeqNumbers - 1]

ServerStates == {"idle", "asked", "up", "refused", "ended"}

Servers ==
  [state : ServerStates, session : Nat, call : Nat, challenge : Asked,
   pending : Arrivals \union {None}, repeats : Nat, expects : 0 .. SeqNumbers - 1,
   next : 0 .. SeqNumbers - 1, pinged : BOOLEAN, calls : 0 .. 2]

Typed ==
  /\ IInv /\ iax.out = << >>
  /\ world \in Worlds /\ session \in Nat /\ mended \in BOOLEAN
  /\ srv \in Servers
  /\ srv.call \in Calls \union {0} /\ (srv.state # "idle" => srv.call # 0 /\ srv.calls # 0)
  /\ toServer \in Seq(Requests) /\ toClient \in Seq(Arrivals)

-----------------------------------------------------------------------------
(***************************************************************************)
(* Until the server makes a second call: K is its challenge, and calls and *)
(* state are those of the server.                                          *)
(***************************************************************************)
\* A client's frame answers no other challenge.
Answers(K) == { f \in Requests : f.answer \in {NoChallenge, K} /\
                                 (f.type = "AUTHREP" \/ (f.type = "REGREQ" /\ f.dCall > 0)
                                    => f.answer # NoChallenge) }

\* A frame tells the client of nothing that has not happened.
Timely(type, calls, state) ==
  /\ type # "REJECT"
  /\ type \in {"ACCEPT", "REGACK"} => calls = 1 /\ state # "asked"
  /\ type = "HANGUP" => calls = 1 /\ state \in {"ended", "idle"}

Replies(K, calls, state) ==
  { f \in Arrivals : f.challenge \in {NoChallenge, K} /\ Timely(f.type, calls, state) }

Believed(open, status, calls, state) ==
  /\ status = "CONNECTED" => calls = 1 /\ state # "asked"
  /\ open /\ status = "DISCONNECTED" => calls = 1 /\ state \in {"ended", "idle"}

\* What the server can say, and its own part of the first call.
Said(s) == Replies(s.challenge, s.calls, s.state)

Sound(s) ==
  /\ s.calls = 0 => s.challenge = NoChallenge /\ s.call = 0
  /\ s.state # "refused"
  /\ s.state # "idle" => s.challenge # NoChallenge
  /\ s.pending # None => s.pending \in Said(s)

FirstCall ==
  /\ Sound(srv)
  /\ toServer \in Seq(Answers(srv.challenge)) /\ toClient \in Seq(Said(srv))
  /\ iax.seed \in {NoChallenge, srv.challenge}
  /\ Believed(phase = "open", iax.status, srv.calls, srv.state)

SInv == Typed /\ (srv.calls <= 1 => FirstCall)

-----------------------------------------------------------------------------
(***************************************************************************)
(* The network                                                             *)
(***************************************************************************)
\* Frames are lost at the end or in the middle; none is made up.
LEMMA PutKeeps ==
  ASSUME NEW S, NEW flight \in Seq(S), NEW frames \in Seq(S), NEW capacity \in Nat
  PROVE  Put(flight, capacity, frames) \in Seq(S)
<1>1. flight \o frames \in Seq(S)
  BY ConcatProperties
<1>2. ASSUME NEW s \in Seq(S), Len(s) > capacity PROVE SubSeq(s, 1, capacity) \in Seq(S)
  BY <1>2, SubSeqProperties
<1> QED BY <1>1, <1>2 DEF Put

LEMMA RemoveKeeps ==
  ASSUME NEW S, NEW flight \in Seq(S), NEW i \in DOMAIN flight
  PROVE  RemoveAt(flight, i) \in Seq(S) /\ flight[i] \in S
BY DEF RemoveAt

LEMMA SeqWider ==
  ASSUME NEW S, NEW T, S \subseteq T, NEW s \in Seq(S)
  PROVE  s \in Seq(T)
BY SeqMonotonic

LEMMA OneFrame ==
  ASSUME NEW S, NEW flight \in Seq(S), NEW f \in S, NEW capacity \in Nat
  PROVE  Put(flight, capacity, << f >>) \in Seq(S)
<1>1. << f >> \in Seq(S)
  OBVIOUS
<1> QED BY <1>1, PutKeeps

LEMMA Capacities ==
  ASSUME world \in Worlds
  PROVE  world.serverCapacity \in Nat /\ world.clientCapacity \in Nat
BY SessionAssumption

-----------------------------------------------------------------------------
(***************************************************************************)
(* The challenge in the object                                             *)
(***************************************************************************)
\* Nothing but K has been taken as a challenge, and no other is answered.
Truly(s, K) ==
  /\ s \in Objects
  /\ s.seed \in {NoChallenge, K}
  /\ \A i \in DOMAIN s.out : s.out[i].answer \in {NoChallenge, K}

LEMMA SendTruly ==
  ASSUME NEW K \in Asked, NEW s, Truly(s, K), NEW type \in FrameTypes,
         NEW retry \in BOOLEAN, NEW answer \in {NoChallenge, K}
  PROVE  LET t == Send(s, type, retry, answer)
         IN  Truly(t, K) /\ t.status = s.status /\ t.seed = s.seed
<1> DEFINE frame == [type |-> type, retry |-> retry, dCall |-> s.dCall,
                     oSeq |-> s.oSeq, iSeq |-> s.iSeq, answer |-> answer]
           t == Send(s, type, retry, answer)
<1>1. s \in Objects /\ answer \in Asked
  BY DEF Truly, Asked
<1>2. frame \in Frames /\ frame.answer \in {NoChallenge, K}
  BY <1>1 DEF Objects, Frames
<1>3. t = [s EXCEPT !.out = Append(@, frame)]
  BY DEF Send
<1> HIDE DEF frame
<1>4. s.out \in Seq(Frames)
  BY <1>1 DEF Objects
<1>5. /\ Append(s.out, frame) \in Seq(Frames)
      /\ DOMAIN Append(s.out, frame) = 1 .. Len(s.out) + 1
      /\ \A i \in 1 .. Len(s.out) : Append(s.out, frame)[i] = s.out[i]
      /\ Append(s.out, frame)[Len(s.out) + 1] = frame
  BY <1>2, <1>4, AppendProperties
<1>6. t \in Objects /\ t.out = Append(s.out, frame) /\ t.seed = s.seed /\ t.status = s.status
  BY <1>1, <1>3, <1>5 DEF Objects
<1>7. \A i \in 1 .. Len(s.out) + 1 : i \in 1 .. Len(s.out) \/ i = Len(s.out) + 1
  BY <1>4
<1>8. \A i \in 1 .. Len(s.out) : s.out[i].answer \in {NoChallenge, K}
  BY <1>4 DEF Truly
<1> HIDE DEF t
<1>9. \A i \in DOMAIN t.out : t.out[i].answer \in {NoChallenge, K}
  BY <1>2, <1>5, <1>6, <1>7, <1>8
<1> QED BY <1>6, <1>9 DEF Truly, t

\* The fields beside the challenge and what was sent.
LEMMA SetTruly ==
  ASSUME NEW K, NEW s, Truly(s, K), NEW t \in Objects, t.out = s.out, t.seed = s.seed
  PROVE  Truly(t, K)
BY DEF Truly

LEMMA AdvanceTruly ==
  ASSUME NEW K, NEW s, Truly(s, K)
  PROVE  /\ Truly(Advance(s), K)
         /\ Advance(s).status = s.status /\ Advance(s).seed = s.seed
<1>1. s \in Objects /\ s.oSeq \in 0 .. SeqNumbers - 1
  BY DEF Truly, Objects
<1>2. (s.oSeq + 1) % SeqNumbers \in 0 .. SeqNumbers - 1
  BY <1>1, IAXAssumption
<1>3. Advance(s) \in Objects /\ Advance(s).out = s.out /\ Advance(s).seed = s.seed
      /\ Advance(s).status = s.status
  BY <1>1, <1>2 DEF Advance, Objects
<1> QED BY <1>3, SetTruly

\* Frames of either kind, with a new number or with that of the frame before.
LEMMA WritesTruly ==
  ASSUME NEW K \in Asked, NEW s, Truly(s, K)
  PROVE  \A t \in { WritePing(s), WritePong(s), WriteAck(s), WriteLagRp(s), WriteLagRq(s),
                    WriteHangup(s), WriteAuthRep(s), WriteRegReq(s, TRUE),
                    WriteRegReq(s, FALSE) } :
           Truly(t, K) /\ t.status = s.status /\ t.seed = s.seed
<1> DEFINE a == Advance(s)
           Good(t) == Truly(t, K) /\ t.status = s.status /\ t.seed = s.seed
<1>1. Truly(a, K) /\ a.status = s.status /\ a.seed = s.seed
  BY AdvanceTruly
<1>2. s.seed \in {NoChallenge, K}
  BY DEF Truly
<1>3. ASSUME NEW type \in FrameTypes, NEW retry \in BOOLEAN, NEW answer \in {NoChallenge, K}
      PROVE  Good(Send(s, type, retry, answer)) /\ Good(Send(a, type, retry, answer))
  <2>1. /\ Truly(Send(s, type, retry, answer), K)
        /\ Send(s, type, retry, answer).status = s.status
        /\ Send(s, type, retry, answer).seed = s.seed
    BY SendTruly
  <2>2. /\ Truly(Send(a, type, retry, answer), K)
        /\ Send(a, type, retry, answer).status = a.status
        /\ Send(a, type, retry, answer).seed = a.seed
    BY <1>1, SendTruly
  <2> QED BY <1>1, <2>1, <2>2
<1> HIDE DEF Good
<1>4. {"PING", "PONG", "ACK", "LAGRP", "LAGRQ", "HANGUP", "AUTHREP", "REGREQ"} \subseteq FrameTypes
  BY DEF FrameTypes
<1>5. /\ Good(WritePing(s)) /\ Good(WritePong(s)) /\ Good(WriteAck(s)) /\ Good(WriteLagRp(s))
      /\ Good(WriteLagRq(s)) /\ Good(WriteHangup(s))
  BY <1>3, <1>4 DEF WritePing, WritePong, WriteAck, WriteLagRp, WriteLagRq, WriteHangup
<1>6. Good(WriteAuthRep(s))
  BY <1>1, <1>2, <1>3, <1>4 DEF WriteAuthRep
<1>7. ASSUME NEW retry \in BOOLEAN PROVE Good(WriteRegReq(s, retry))
  <2> DEFINE answer == IF s.dCall > 0 THEN s.seed ELSE NoChallenge
  <2>1. answer \in {NoChallenge, K}
    BY <1>2
  <2>2. WriteRegReq(s, retry) = Send(IF retry THEN s ELSE a, "REGREQ", retry, answer)
    BY DEF WriteRegReq
  <2> HIDE DEF answer, a
  <2> QED BY <1>3, <1>4, <2>1, <2>2
<1> QED BY <1>5, <1>6, <1>7 DEF Good

LEMMA NewTruly ==
  ASSUME NEW K \in Asked, NEW s, Truly(s, K), NEW retry \in BOOLEAN
  PROVE  LET t == WriteNew(s, retry)
         IN  Truly(t, K) /\ t.status = s.status /\ t.seed = s.seed
<1> DEFINE n == IF retry THEN s.sCall ELSE s.sCall + 1
           t == [s EXCEPT !.sCall = n, !.oSeq = 0, !.iSeq = 0, !.dCall = 0]
<1>1. s \in Objects /\ 0 \in 0 .. SeqNumbers - 1 /\ n \in Nat
  BY IAXAssumption DEF Truly, Objects
<1>2. WriteNew(s, retry) = Send(t, "NEW", retry, NoChallenge)
  BY DEF WriteNew
<1> HIDE DEF n
<1>3. t \in Objects /\ t.out = s.out /\ t.seed = s.seed /\ t.status = s.status
  BY <1>1 DEF Objects
<1> HIDE DEF t
<1>4. Truly(t, K)
  BY <1>3, SetTruly
<1>5. "NEW" \in FrameTypes
  BY DEF FrameTypes
<1> QED BY <1>2, <1>3, <1>4, <1>5, SendTruly

\* clock() before the datagram.
LEMMA NowTruly ==
  ASSUME NEW K \in Asked, NEW s, Truly(s, K), NEW ms \in Nat
  PROVE  LET t == PingTimer(RetryTimer(s, ms), ms)
         IN  Truly(t, K) /\ t.status = s.status /\ t.seed = s.seed
<1> DEFINE Good(t) == Truly(t, K) /\ t.status = s.status /\ t.seed = s.seed
<1>1. ASSUME NEW r, Good(r), NEW n \in Nat
      PROVE  Good([r EXCEPT !.retry = n]) /\ Good([r EXCEPT !.ping = n])
  <2>1. r \in Objects
    BY <1>1 DEF Truly
  <2>2. /\ [r EXCEPT !.retry = n] \in Objects /\ [r EXCEPT !.retry = n].out = r.out
        /\ [r EXCEPT !.retry = n].seed = r.seed /\ [r EXCEPT !.retry = n].status = r.status
        /\ [r EXCEPT !.ping = n] \in Objects /\ [r EXCEPT !.ping = n].out = r.out
        /\ [r EXCEPT !.ping = n].seed = r.seed /\ [r EXCEPT !.ping = n].status = r.status
    BY <2>1 DEF Objects
  <2> QED BY <1>1, <2>2, SetTruly
<1>2. ASSUME NEW r, Good(r) PROVE Good(RetryDue(r)) /\ Good(WritePing(r))
  BY <1>2, NewTruly, WritesTruly DEF RetryDue
<1>3. \A r : Good(r) => r.retry \in Nat /\ r.ping \in Nat
  BY DEF Truly, Objects
<1> HIDE DEF Good
<1>4. ASSUME NEW r, Good(r) PROVE Good(RetryTimer(r, ms))
  <2> DEFINE n == Ticked(r.retry, RetryTimeout, ms)
             now == [r EXCEPT !.retry = n]
             m == Started(RetryDue(now).retry, RetryTimeout)
  <2>1. n \in Nat
    BY <1>3, <1>4, TimerStep, IAXAssumption
  <2>2. RetryTimer(r, ms) = IF IsRunning(now.retry) /\ HasExpired(now.retry, RetryTimeout)
                            THEN [RetryDue(now) EXCEPT !.retry = m] ELSE now
    BY DEF RetryTimer
  <2> HIDE DEF n
  <2>3. Good(now)
    BY <1>1, <1>4, <2>1
  <2> HIDE DEF now
  <2>4. Good(RetryDue(now)) /\ m \in Nat
    BY <1>2, <1>3, <2>3, TimerStep, IAXAssumption
  <2> HIDE DEF m
  <2> QED BY <1>1, <2>2, <2>3, <2>4
<1>5. ASSUME NEW r, Good(r) PROVE Good(PingTimer(r, ms))
  <2> DEFINE n == Ticked(r.ping, PingTimeout, ms)
             now == [r EXCEPT !.ping = n]
             m == Started(WritePing(now).ping, PingTimeout)
  <2>1. n \in Nat
    BY <1>3, <1>5, TimerStep, IAXAssumption
  <2>2. PingTimer(r, ms) = IF IsRunning(now.ping) /\ HasExpired(now.ping, PingTimeout)
                           THEN [WritePing(now) EXCEPT !.ping = m] ELSE now
    BY DEF PingTimer
  <2> HIDE DEF n
  <2>3. Good(now)
    BY <1>1, <1>5, <2>1
  <2> HIDE DEF now
  <2>4. Good(WritePing(now)) /\ m \in Nat
    BY <1>2, <1>3, <2>3, TimerStep, IAXAssumption
  <2> HIDE DEF m
  <2> QED BY <1>1, <2>2, <2>3, <2>4
<1>6. Good(s)
  BY DEF Good
<1>7. Good(PingTimer(RetryTimer(s, ms), ms))
  BY <1>4, <1>5, <1>6
<1> QED BY <1>7 DEF Good

\* What the frames of the server do to the status of the object.
StatusAfter(status, frame) ==
  CASE frame.type \in {"ACCEPT", "REGACK"} -> "CONNECTED"
    [] frame.type \in {"REJECT", "HANGUP"} -> "DISCONNECTED"
    [] frame.type = "REGAUTH" /\ frame.challenge # NoChallenge -> "REGISTERNG"
    [] OTHER -> status

\* Whatever arrives, in whatever state, when it has no other challenge.
LEMMA HandledTruly ==
  ASSUME NEW K \in Asked, NEW s, Truly(s, K), NEW frame \in Arrivals,
         frame.challenge \in {NoChallenge, K}
  PROVE  /\ Truly(Handled(s, frame), K)
         /\ Handled(s, frame).status = StatusAfter(s.status, frame)
<1> DEFINE r == Received(s, frame)
           k == Acknowledged(s, frame)
           Good(t) == Truly(t, K) /\ t.status = s.status
           To(t, status) == Truly(t, K) /\ t.status = status
<1>1. /\ frame.sCall \in Nat /\ frame.size \in Nat /\ frame.challenge \in Asked
      /\ frame.oSeq \in 0 .. SeqNumbers - 1
      /\ frame.type \in {"PING", "ACCEPT", "REJECT", "REGACK", "HANGUP", "LAGRQ", "KEY",
                         "UNKEY", "NOTICE", "ACK", "REGAUTH", "AUTHREQ", "VOICE", "MINI"}
  BY ArrivalType
<1>2. s \in Objects
  BY DEF Truly
<1>3. Good(r) /\ r.seed = s.seed
  <2> DEFINE n == (frame.oSeq + 1) % SeqNumbers
  <2>1. n \in 0 .. SeqNumbers - 1
    BY <1>1, IAXAssumption
  <2>2. r = [s EXCEPT !.iSeq = n]
    BY DEF Received
  <2> HIDE DEF n, r
  <2>3. r \in Objects /\ r.out = s.out /\ r.seed = s.seed /\ r.status = s.status
    BY <1>2, <2>1, <2>2 DEF Objects
  <2> QED BY <2>3, SetTruly
<1>4. Good(k)
  BY <1>3, WritesTruly DEF Acknowledged
<1>5. r \in Objects /\ k \in Objects
  BY <1>3, <1>4 DEF Truly
<1> HIDE DEF r, k
<1>6. Good(HandleAck(s, frame))
  <2> DEFINE t == [s EXCEPT !.dCall = frame.sCall]
  <2>1. t \in Objects /\ t.out = s.out /\ t.seed = s.seed /\ t.status = s.status
    BY <1>1, <1>2 DEF Objects
  <2>2. HandleAck(s, frame) = t \/ HandleAck(s, frame) = s
    BY DEF HandleAck
  <2> HIDE DEF t
  <2> QED BY <2>1, <2>2, SetTruly
<1>7. Good(HandlePing(s, frame)) /\ Good(HandleNotice(s, frame))
  BY <1>4, WritesTruly DEF HandlePing, HandleNotice, k
<1>8. Good(HandleLagRq(s, frame))
  <2>1. Good(WriteLagRq(r))
    BY <1>3, WritesTruly
  <2> QED BY <2>1, WritesTruly DEF HandleLagRq, r
<1>9. To(Connected(k), "CONNECTED") /\ To(Disconnected(k), "DISCONNECTED")
  <2>1. /\ Connected(k) \in Objects /\ SameWire(Connected(k), k)
        /\ Disconnected(k) \in Objects /\ SameWire(Disconnected(k), k)
    BY <1>5, StatusWire
  <2>2. /\ Connected(k).status = "CONNECTED" /\ Connected(k).seed = k.seed
        /\ Disconnected(k).status = "DISCONNECTED" /\ Disconnected(k).seed = k.seed
    BY <1>5 DEF Connected, Disconnected, Objects
  <2> QED BY <1>4, <2>1, <2>2, SetTruly DEF SameWire
<1>10. /\ To(HandleAccept(s, frame), "CONNECTED") /\ To(HandleRegAck(s, frame), "CONNECTED")
       /\ To(HandleReject(s, frame), "DISCONNECTED") /\ To(HandleHangup(s, frame), "DISCONNECTED")
  BY <1>9 DEF HandleAccept, HandleRegAck, HandleReject, HandleHangup, k
<1>11. /\ Good(HandleAuthReq(s, frame))
       /\ To(HandleRegAuth(s, frame),
             IF frame.challenge = NoChallenge THEN s.status ELSE "REGISTERNG")
  <2>1. CASE frame.challenge = NoChallenge
    BY <2>1, <1>1 DEF HandleRegAuth, HandleAuthReq
  <2>2. CASE frame.challenge # NoChallenge
    <3> DEFINE c == frame.challenge
               n == Started(r.retry, RetryTimeout)
               asked == [r EXCEPT !.status = "REGISTERNG", !.seed = c, !.retry = n]
               replying == [r EXCEPT !.seed = c]
    <3>1. /\ HandleRegAuth(s, frame) = WriteRegReq(asked, FALSE)
          /\ HandleAuthReq(s, frame) = WriteAuthRep(replying)
      BY <2>2 DEF HandleRegAuth, HandleAuthReq, r
    <3>2. n \in Nat /\ c \in Asked /\ c \in {NoChallenge, K}
      BY <1>1, <1>5, TimerNat, IAXAssumption DEF Objects
    <3> HIDE DEF n, c
    <3>3. /\ asked \in Objects /\ asked.out = r.out /\ asked.seed = c
          /\ asked.status = "REGISTERNG"
          /\ replying \in Objects /\ replying.out = r.out /\ replying.seed = c
          /\ replying.status = r.status
      BY <1>5, <3>2 DEF Objects, Statuses
    <3> HIDE DEF asked, replying
    <3>4. Truly(asked, K) /\ Truly(replying, K)
      BY <1>3, <3>2, <3>3 DEF Truly
    <3>5. /\ To(WriteRegReq(asked, FALSE), "REGISTERNG")
          /\ Good(WriteAuthRep(replying))
      BY <1>3, <3>3, <3>4, WritesTruly
    <3> QED BY <2>2, <3>1, <3>5
  <2> QED BY <2>1, <2>2
<1>12. ASSUME NEW t, Good(t)
       PROVE  /\ \A b \in BOOLEAN : Good([t EXCEPT !.keyed = b])
              /\ Good(Buffer(t, frame.size))
  <2>1. t \in Objects
    BY <1>12 DEF Truly
  <2>2. ASSUME NEW b \in BOOLEAN PROVE Good([t EXCEPT !.keyed = b])
    <3>1. /\ [t EXCEPT !.keyed = b] \in Objects /\ [t EXCEPT !.keyed = b].out = t.out
          /\ [t EXCEPT !.keyed = b].seed = t.seed /\ [t EXCEPT !.keyed = b].status = t.status
      BY <2>1 DEF Objects
    <3> QED BY <1>12, <3>1, SetTruly
  <2>3. Buffer(t, frame.size) \in Objects /\ SameWire(Buffer(t, frame.size), t)
    BY <1>1, <2>1, BufferWire
  <2>4. Buffer(t, frame.size).seed = t.seed /\ Buffer(t, frame.size).status = t.status
    BY <2>1 DEF Buffer, Objects
  <2> QED BY <1>12, <2>2, <2>3, <2>4, SetTruly DEF SameWire
<1>13. /\ Good(HandleKey(s, frame)) /\ Good(HandleUnkey(s, frame))
       /\ Good(HandleVoice(s, frame)) /\ Good(HandleMini(s, frame))
  <2>1. Good(s)
    OBVIOUS
  <2> HIDE DEF Good
  <2> QED BY <1>4, <1>12, <2>1 DEF HandleKey, HandleUnkey, HandleVoice, HandleMini, k
<1> HIDE DEF Good, To
<1>14. ASSUME NEW t, Good(t) PROVE To(t, s.status)
  BY <1>14 DEF Good, To
<1>15. To(Handled(s, frame), StatusAfter(s.status, frame))
  BY <1>1, <1>6, <1>7, <1>8, <1>10, <1>11, <1>13, <1>14 DEF Handled, StatusAfter
<1> QED BY <1>15 DEF To

-----------------------------------------------------------------------------
(***************************************************************************)
(* The steps of the server                                                 *)
(***************************************************************************)
\* A call is made and accepted or given up, and it ends, but what the server
\* was waiting for it does not wait for again.
Later(s, t) ==
  \/ s.calls = 0 /\ s.challenge = NoChallenge
  \/ /\ t.calls = s.calls /\ t.challenge = s.challenge
     /\ t.state # "asked" \/ s.state = "asked"
     /\ s.state \in {"ended", "idle"} => t.state \in {"ended", "idle"}

\* What was true stays true.
LEMMA LaterKeeps ==
  ASSUME NEW s \in Servers, NEW t \in Servers, Later(s, t)
  PROVE  /\ Said(s) \subseteq Said(t)
         /\ Answers(s.challenge) \subseteq Answers(t.challenge)
         /\ \A open \in BOOLEAN, status \in Statuses :
              Believed(open, status, s.calls, s.state) => Believed(open, status, t.calls, t.state)
         /\ \A c : c \in {NoChallenge, s.challenge} => c \in {NoChallenge, t.challenge}
<1>1. CASE s.calls = 0 /\ s.challenge = NoChallenge
  BY <1>1 DEF Said, Replies, Timely, Answers, Believed
<1>2. CASE ~(s.calls = 0 /\ s.challenge = NoChallenge)
  BY <1>2 DEF Later, Said, Replies, Timely, Answers, Believed
<1> QED BY <1>1, <1>2

\* What every step of the server comes to, whether or not it took a frame.
ServerGoes(t, frames) ==
  /\ t \in Servers /\ t.calls >= srv.calls
  /\ t.call \in Calls \union {0} /\ (t.state # "idle" => t.call # 0 /\ t.calls # 0)
  /\ frames \in Seq(Arrivals)
  /\ FirstCall /\ t.calls <= 1 =>
       Sound(t) /\ Later(srv, t) /\ frames \in Seq(Said(t))

Goes ==
  \E t \in Servers, frames \in Seq(Arrivals) :
    /\ ServerGoes(t, frames) /\ srv' = t
    /\ toClient' = toClient \/ toClient' = Put(toClient, world.clientCapacity, frames)

LEMMA ToClientType ==
  ASSUME NEW s \in Servers
  PROVE  /\ \A type \in {"PING", "ACCEPT", "REJECT", "REGACK", "HANGUP", "NOTICE"} :
              ToClient(s, type, NoChallenge) \in Arrivals
         /\ \A type \in {"AUTHREQ", "REGAUTH"}, c \in Asked : ToClient(s, type, c) \in Arrivals
         /\ s.call \in Calls => Ack(s) \in Arrivals
         /\ \A type, c : ToClient(s, type, c).type = type /\ ToClient(s, type, c).challenge = c
         /\ Ack(s).type = "ACK" /\ Ack(s).challenge = NoChallenge
<1>1. s.next \in 0 .. SeqNumbers - 1
  BY DEF Servers
<1>2. ASSUME NEW type \in {"PING", "ACCEPT", "REJECT", "REGACK", "HANGUP", "NOTICE"}
      PROVE  ToClient(s, type, NoChallenge) \in Arrivals
  BY <1>1, <1>2 DEF ToClient, Arrivals, Incoming
<1>3. ASSUME NEW type \in {"AUTHREQ", "REGAUTH"}, NEW c \in Asked
      PROVE  ToClient(s, type, c) \in Arrivals
  BY <1>1, <1>3 DEF ToClient, Arrivals, Incoming
<1>4. s.call \in Calls => Ack(s) \in Arrivals
  BY <1>1 DEF Ack, ToClient, Arrivals, Incoming
<1>5. /\ \A type, c : ToClient(s, type, c).type = type /\ ToClient(s, type, c).challenge = c
      /\ Ack(s).type = "ACK" /\ Ack(s).challenge = NoChallenge
  BY DEF ToClient, Ack
<1> QED BY <1>2, <1>3, <1>4, <1>5

\* Frames that say nothing of the state of the call can be sent in any.
LEMMA SaidPlainly ==
  ASSUME NEW s, NEW f \in Arrivals, f.challenge \in {NoChallenge, s.challenge},
         f.type \notin {"REJECT", "ACCEPT", "REGACK", "HANGUP"}
  PROVE  f \in Said(s)
BY DEF Said, Replies, Timely

LEMMA SayingType ==
  ASSUME NEW s \in Servers, NEW state \in ServerStates, NEW type, NEW c,
         ToClient(s, type, c) \in Arrivals
  PROVE  LET t == Saying(s, state, type, c)
         IN  /\ t \in Servers /\ t.state = state /\ t.pending = ToClient(s, type, c)
             /\ t.call = s.call /\ t.calls = s.calls /\ t.challenge = s.challenge
<1> DEFINE f == ToClient(s, type, c)
           n == (s.next + 1) % SeqNumbers
<1>1. n \in 0 .. SeqNumbers - 1
  BY IAXAssumption DEF Servers
<1>2. Saying(s, state, type, c) =
        [s EXCEPT !.state = state, !.pending = f, !.repeats = 0, !.next = n]
  BY DEF Saying
<1>3. f \in Arrivals
  OBVIOUS
<1> HIDE DEF f, n
<1>4. LET t == [s EXCEPT !.state = state, !.pending = f, !.repeats = 0, !.next = n]
      IN  /\ t \in Servers /\ t.state = state /\ t.pending = f
          /\ t.call = s.call /\ t.calls = s.calls /\ t.challenge = s.challenge
  BY <1>1, <1>3 DEF Servers
<1> QED BY <1>2, <1>4 DEF f

LEMMA IdleType ==
  ASSUME srv \in Servers
  PROVE  /\ Idle \in Servers /\ Idle.state = "idle" /\ Idle.pending = None
         /\ Idle.call = srv.call /\ Idle.calls = srv.calls /\ Idle.challenge = srv.challenge
<1>1. NewServer \in Servers /\ NewServer.state = "idle" /\ NewServer.pending = None
  BY IAXAssumption DEF NewServer, Servers, ServerStates, Asked
<1>2. srv.call \in Nat /\ srv.challenge \in Asked /\ srv.calls \in 0 .. 2
  BY DEF Servers
<1>3. ASSUME NEW s \in Servers
      PROVE  LET t == [s EXCEPT !.call = srv.call, !.challenge = srv.challenge, !.calls = srv.calls]
             IN  /\ t \in Servers /\ t.state = s.state /\ t.pending = s.pending
                 /\ t.call = srv.call /\ t.calls = srv.calls /\ t.challenge = srv.challenge
  BY <1>2 DEF Servers
<1> QED BY <1>1, <1>3 DEF Idle

LEMMA AnotherIs ==
  /\ srv \in Servers => AnotherThan(Challenges, srv.challenge) \in Challenges
  /\ srv \in Servers /\ (srv.call = 0 \/ srv.call \in Calls) =>
       AnotherThan(Calls, srv.call) \in Calls
BY ChoiceAssumption DEF AnotherThan, Servers

\* A server that goes on with the same call.
SameCall(t) ==
  /\ t \in Servers /\ t.calls = srv.calls /\ t.challenge = srv.challenge /\ t.call = srv.call
  /\ t.state \in {"idle", srv.state} \/ (srv.state = "up" /\ t.state = "ended")
       \/ (srv.state = "asked" /\ t.state \in {"up", "refused"})

LEMMA SameCallGoes ==
  ASSUME Typed, NEW t, SameCall(t), NEW frames \in Seq(Arrivals),
         srv' = t, toClient' = toClient \/ toClient' = Put(toClient, world.clientCapacity, frames),
         FirstCall /\ srv.calls <= 1 =>
           /\ t.state # "refused"
           /\ t.pending = None \/ t.pending \in Said(t)
           /\ frames \in Seq(Said(t))
  PROVE  Goes
<1>1. /\ srv \in Servers /\ srv.call \in Calls \union {0}
      /\ srv.state # "idle" => srv.call # 0 /\ srv.calls # 0
  BY DEF Typed
<1>2. srv.calls \in 0 .. 2
  BY <1>1 DEF Servers
<1>3. t \in Servers /\ t.calls = srv.calls /\ t.call = srv.call /\ t.challenge = srv.challenge
  BY DEF SameCall
<1>4. t.state # "idle" => t.call # 0 /\ t.calls # 0
  BY <1>1 DEF SameCall
<1>5. ASSUME FirstCall, t.calls <= 1
      PROVE  Sound(t) /\ Later(srv, t) /\ frames \in Seq(Said(t))
  <2>1. t.state # "idle" => srv.state # "idle"
    BY DEF SameCall
  <2>2. Sound(t)
    BY <1>3, <1>5, <2>1 DEF FirstCall, Sound
  <2>3. Later(srv, t)
    BY <1>5 DEF Later, SameCall
  <2> QED BY <1>3, <1>5, <2>2, <2>3
<1>6. ServerGoes(t, frames)
  BY <1>1, <1>2, <1>3, <1>4, <1>5 DEF ServerGoes
<1> QED BY <1>3, <1>6 DEF Goes

LEMMA NewGoes == Typed /\ HearNew => Goes
<1> SUFFICES ASSUME Typed, HearNew PROVE Goes
  OBVIOUS
<1>1. srv \in Servers /\ (srv.state # "idle" => srv.call \in Calls)
      /\ srv.call \in Calls \union {0} /\ session \in Nat /\ world \in Worlds
  BY DEF Typed
<1>2. CASE srv.state # "idle"
  <2>1. Ack(srv) \in Arrivals /\ Ack(srv) \in Said(srv)
    BY <1>1, <1>2, ToClientType, SaidPlainly
  <2>2. << Ack(srv) >> \in Seq(Arrivals) /\ << Ack(srv) >> \in Seq(Said(srv))
    BY <2>1
  <2>3. SameCall(srv) /\ (FirstCall => srv.state # "refused"
                                      /\ (srv.pending = None \/ srv.pending \in Said(srv)))
    BY <1>1 DEF SameCall, FirstCall, Sound
  <2> HIDE DEF Goes
  <2> QED BY <1>2, <2>2, <2>3, SameCallGoes DEF HearNew
<1>3. CASE srv.state = "idle"
  <2> DEFINE c == AnotherThan(Challenges, srv.challenge)
             m == AnotherThan(Calls, srv.call)
             n == IF srv.calls = 2 THEN 2 ELSE srv.calls + 1
             made == [Idle EXCEPT !.session = session, !.challenge = c, !.expects = 1,
                                  !.call = m, !.calls = n]
             t == Saying(made, "asked", world.method, c)
             frames == << Ack(made), t.pending >>
  <2> HIDE DEF c, m, n
  <2>1. c \in Asked /\ c # NoChallenge
    BY <1>1, AnotherIs, ChoiceAssumption DEF Asked, c
  <2>2. n \in 1 .. 2 /\ n >= srv.calls /\ (n <= 1 => srv.calls = 0)
    BY <1>1 DEF n, Servers
  <2>3. m \in Calls /\ m \in Nat
    BY <1>1, AnotherIs, IAXAssumption DEF m, Typed
  <2>4. Idle \in Servers /\ Idle.calls = srv.calls /\ 1 \in 0 .. SeqNumbers - 1
    BY <1>1, IdleType, SessionAssumption, IAXAssumption
  <2>5. made \in Servers /\ made.call = m /\ made.calls = n /\ made.challenge = c
    <3>1. n \in 0 .. 2 /\ session \in Nat /\ 1 \in 0 .. SeqNumbers - 1
      BY <1>1, <2>2, <2>4
    <3>2. ASSUME NEW i \in Servers
          PROVE  LET w == [i EXCEPT !.session = session, !.challenge = c, !.expects = 1,
                                    !.call = m, !.calls = n]
                 IN  w \in Servers /\ w.call = m /\ w.calls = n /\ w.challenge = c
      BY <2>1, <2>3, <3>1 DEF Servers
    <3> QED BY <2>4, <3>2
  <2>6. /\ srv' = t
        /\ toClient' = Put(toClient, world.clientCapacity, frames)
    <3>1. HearNew <=> /\ srv' = Saying([Idle EXCEPT !.session = session, !.challenge = c, !.expects = 1,
                                !.call = m, !.calls = IF @ = 2 THEN 2 ELSE @ + 1], "asked", world.method, c)
                      /\ toClient' = Put(toClient, world.clientCapacity,
                            << Ack([Idle EXCEPT !.session = session, !.challenge = c, !.expects = 1,
                                !.call = m, !.calls = IF @ = 2 THEN 2 ELSE @ + 1]), srv'.pending >>)
      BY <1>3 DEF HearNew, c, m
    <3> QED BY <2>4, <3>1 DEF n
  <2> HIDE DEF made
  <2>7. world.method \in {"AUTHREQ", "REGAUTH"}
    BY <1>1, SessionAssumption
  <2> DEFINE asking == ToClient(made, world.method, c)
  <2>8. /\ Ack(made) \in Arrivals /\ Ack(made).type = "ACK" /\ Ack(made).challenge = NoChallenge
        /\ asking \in Arrivals /\ asking.type = world.method /\ asking.challenge = c
    BY <2>1, <2>3, <2>5, <2>7, ToClientType
  <2>9. /\ t \in Servers /\ t.state = "asked" /\ t.pending = asking
        /\ t.call = m /\ t.calls = n /\ t.challenge = c
    BY <2>5, <2>8, SayingType DEF ServerStates
  <2> HIDE DEF t, asking
  <2>10. Ack(made) \in Said(t) /\ asking \in Said(t)
    BY <2>7, <2>8, <2>9, SaidPlainly
  <2>11. frames \in Seq(Arrivals) /\ frames \in Seq(Said(t))
    BY <2>8, <2>9, <2>10
  <2> HIDE DEF frames
  <2>12. ASSUME FirstCall, t.calls <= 1
         PROVE  Sound(t) /\ Later(srv, t)
    <3>1. srv.calls = 0 /\ srv.challenge = NoChallenge
      BY <2>2, <2>9, <2>12 DEF FirstCall, Sound
    <3> QED BY <2>1, <2>2, <2>9, <2>10, <3>1 DEF Sound, Later
  <2>13. ServerGoes(t, frames)
    BY <2>2, <2>3, <2>9, <2>11, <2>12, ChoiceAssumption DEF ServerGoes
  <2> QED BY <2>6, <2>9, <2>11, <2>13 DEF Goes
<1> QED BY <1>2, <1>3

\* What the server hears changes its numbers or nothing, and is not answered.
LEMMA NumbersGo ==
  ASSUME Typed, NEW t,
         \/ t = srv
         \/ \E n, m \in 0 .. SeqNumbers - 1, b \in BOOLEAN, k \in Nat :
              \/ t = [srv EXCEPT !.expects = n] \/ t = [srv EXCEPT !.repeats = k]
              \/ t = [srv EXCEPT !.expects = n, !.next = m]
              \/ t = [srv EXCEPT !.pinged = b, !.next = n]
  PROVE  /\ SameCall(t) /\ t.state = srv.state /\ t.pending = srv.pending
         /\ FirstCall => t.state # "refused" /\ (t.pending = None \/ t.pending \in Said(t))
<1>1. srv \in Servers
  BY DEF Typed
<1>2. /\ t \in Servers /\ t.state = srv.state /\ t.pending = srv.pending
      /\ t.call = srv.call /\ t.calls = srv.calls /\ t.challenge = srv.challenge
  BY <1>1 DEF Servers
<1>3. Said(t) = Said(srv)
  BY <1>2 DEF Said
<1> QED BY <1>2, <1>3 DEF SameCall, FirstCall, Sound

LEMMA NextNumber ==
  ASSUME NEW n \in 0 .. SeqNumbers - 1
  PROVE  (n + 1) % SeqNumbers \in 0 .. SeqNumbers - 1
BY IAXAssumption

LEMMA NothingSaid ==
  ASSUME NEW S
  PROVE  << >> \in Seq(S)
BY EmptySeq

LEMMA PassOverGoes == Typed /\ PassOver => Goes
<1> SUFFICES ASSUME Typed, PassOver PROVE Goes
  OBVIOUS
<1>1. SameCall(srv) /\ (FirstCall => srv.state # "refused"
                                      /\ (srv.pending = None \/ srv.pending \in Said(srv)))
  BY NumbersGo
<1>2. srv' = srv /\ toClient' = toClient
  BY DEF PassOver
<1> QED BY <1>1, <1>2, NothingSaid, SameCallGoes

\* The reply to a frame in sequence.
LEMMA SayingGoes ==
  ASSUME Typed, NEW s, s = srv \/ (\E n \in 0 .. SeqNumbers - 1 : s = [srv EXCEPT !.expects = n]),
         NEW state \in ServerStates, NEW type \in {"ACCEPT", "REGACK", "REJECT", "HANGUP"},
         Heed(Saying(s, state, type, NoChallenge)),
         (srv.state = "up" /\ state = "ended") \/ (srv.state = "asked" /\ state \in {"up", "refused"}),
         FirstCall /\ srv.calls <= 1 => state # "refused" /\ Timely(type, 1, state)
  PROVE  Goes
<1> DEFINE t == Saying(s, state, type, NoChallenge)
           f == ToClient(s, type, NoChallenge)
<1>1. SameCall(s) /\ s \in Servers
  BY NumbersGo DEF SameCall
<1>2. f \in Arrivals /\ f.type = type /\ f.challenge = NoChallenge
  BY <1>1, ToClientType
<1>3. /\ t \in Servers /\ t.state = state /\ t.pending = f
      /\ t.call = s.call /\ t.calls = s.calls /\ t.challenge = s.challenge
  BY <1>1, <1>2, SayingType
<1>4. srv' = t /\ toClient' = Put(toClient, world.clientCapacity, << f >>)
  BY <1>3 DEF Heed
<1> HIDE DEF t, f
<1>5. SameCall(t)
  BY <1>1, <1>3 DEF SameCall
<1>6. ASSUME FirstCall, srv.calls <= 1
      PROVE  t.state # "refused" /\ f \in Said(t)
  <2>1. srv.calls = 1
    <3>1. srv.calls # 0 /\ srv.calls \in 0 .. 2
      BY DEF Typed, Servers
    <3> QED BY <1>6, <3>1
  <2>2. Timely(f.type, t.calls, t.state)
    BY <1>2, <1>3, <1>6, <2>1, <1>5 DEF SameCall
  <2> QED BY <1>2, <1>3, <1>6, <2>2 DEF Said, Replies
<1>7. << f >> \in Seq(Arrivals)
  BY <1>2
<1>8. FirstCall /\ srv.calls <= 1 =>
        /\ t.state # "refused" /\ t.pending \in Said(t) /\ << f >> \in Seq(Said(t))
  BY <1>3, <1>6
<1> QED BY <1>4, <1>5, <1>7, <1>8, SameCallGoes

\* An answer to the first challenge is the right one.
LEMMA AnswerGoes ==
  ASSUME Typed, NEW frame \in Requests, frame.type \in {"AUTHREP", "REGREQ"},
         FirstCall => frame \in Answers(srv.challenge), HearAnswer(frame)
  PROVE  Goes
<1> DEFINE n == (srv.expects + 1) % SeqNumbers
           s == [srv EXCEPT !.expects = n]
           kind == IF world.method = "AUTHREQ" THEN "ACCEPT" ELSE "REGACK"
<1>1. srv \in Servers /\ srv.call \in Calls \union {0} /\ (srv.state # "idle" => srv.call \in Calls)
  BY DEF Typed
<1>2. n \in 0 .. SeqNumbers - 1
  BY <1>1, NextNumber DEF Servers
<1>3. kind \in {"ACCEPT", "REGACK"}
  OBVIOUS
<1>4. HearAnswer(frame) <=>
        IF ~InSequence(frame) THEN PassOver
        ELSE IF srv.state # "asked"
        THEN srv' = s /\ toClient' = Put(toClient, world.clientCapacity, << Ack(srv) >>)
        ELSE IF frame.answer = srv.challenge
        THEN Heed(Saying(s, "up", kind, NoChallenge))
        ELSE Heed(Saying(s, "refused", "REJECT", NoChallenge))
  BY DEF HearAnswer
<1> HIDE DEF n, s, kind, Goes
<1>5. CASE ~InSequence(frame)
  BY <1>4, <1>5, PassOverGoes
<1>6. CASE InSequence(frame) /\ srv.state # "asked"
  <2>1. /\ SameCall(s) /\ s.state = srv.state /\ s.pending = srv.pending
        /\ FirstCall => s.state # "refused" /\ (s.pending = None \/ s.pending \in Said(s))
    BY <1>2, NumbersGo DEF s
  <2>2. srv.call \in Calls
    BY <1>1, <1>6 DEF InSequence, OfThisCall
  <2>3. Ack(srv) \in Arrivals /\ Ack(srv) \in Said(s)
    BY <1>1, <2>2, ToClientType, SaidPlainly
  <2>4. << Ack(srv) >> \in Seq(Arrivals) /\ << Ack(srv) >> \in Seq(Said(s))
    BY <2>3
  <2> QED BY <1>4, <1>6, <2>1, <2>4, SameCallGoes
<1>7. CASE InSequence(frame) /\ srv.state = "asked" /\ frame.answer = srv.challenge
  <2>1. Heed(Saying(s, "up", kind, NoChallenge))
    BY <1>4, <1>7
  <2>2. Timely(kind, 1, "up") /\ "up" \in ServerStates
    BY <1>3 DEF Timely, ServerStates
  <2>3. \E m \in 0 .. SeqNumbers - 1 : s = [srv EXCEPT !.expects = m]
    BY <1>2 DEF s
  <2> QED BY <1>3, <1>7, <2>1, <2>2, <2>3, SayingGoes
<1>8. CASE InSequence(frame) /\ srv.state = "asked" /\ frame.answer # srv.challenge
  <2>1. Heed(Saying(s, "refused", "REJECT", NoChallenge)) /\ "refused" \in ServerStates
    BY <1>4, <1>8 DEF ServerStates
  <2>2. ~FirstCall
    <3>1. frame.dCall > 0
      <4>1. frame.dCall \in Calls
        BY <1>1, <1>8 DEF InSequence, OfThisCall
      <4>2. frame.dCall \in Nat /\ frame.dCall # 0
        BY <4>1, ChoiceAssumption, IAXAssumption
      <4> QED BY <4>2
    <3> QED BY <1>8, <3>1 DEF Answers
  <2>3. \E m \in 0 .. SeqNumbers - 1 : s = [srv EXCEPT !.expects = m]
    BY <1>2 DEF s
  <2> QED BY <1>8, <2>1, <2>2, <2>3, SayingGoes
<1> QED BY <1>5, <1>6, <1>7, <1>8

\* A server whose numbers change, with a frame or without.
LEMMA NumbersGoes ==
  ASSUME Typed, NEW t, NEW f \in Arrivals,
         f.challenge = NoChallenge /\ f.type \in {"PING", "NOTICE"},
         \E n, m \in 0 .. SeqNumbers - 1, b \in BOOLEAN :
           \/ t = [srv EXCEPT !.expects = n] \/ t = [srv EXCEPT !.expects = n, !.next = m]
           \/ t = [srv EXCEPT !.pinged = b, !.next = n],
         srv' = t,
         toClient' = toClient \/ toClient' = Put(toClient, world.clientCapacity, << f >>)
  PROVE  Goes
<1>1. /\ SameCall(t)
      /\ FirstCall => t.state # "refused" /\ (t.pending = None \/ t.pending \in Said(t))
  BY NumbersGo
<1>2. f \in Said(t)
  BY SaidPlainly
<1>3. << f >> \in Seq(Arrivals) /\ << f >> \in Seq(Said(t))
  BY <1>2
<1> HIDE DEF Goes
<1> QED BY <1>1, <1>3, SameCallGoes

LEMMA KeepaliveGoes ==
  ASSUME Typed, NEW frame, HearPing(frame) \/ HearPong(frame) \/ ServerPings
  PROVE  Goes
<1> DEFINE n == (srv.expects + 1) % SeqNumbers
           m == (srv.next + 1) % SeqNumbers
           notice == ToClient(srv, "NOTICE", NoChallenge)
           ping == ToClient(srv, "PING", NoChallenge)
<1>1. srv \in Servers
  BY DEF Typed
<1>2. n \in 0 .. SeqNumbers - 1 /\ m \in 0 .. SeqNumbers - 1
  BY <1>1, NextNumber DEF Servers
<1>3. /\ notice \in Arrivals /\ notice.challenge = NoChallenge /\ notice.type = "NOTICE"
      /\ ping \in Arrivals /\ ping.challenge = NoChallenge /\ ping.type = "PING"
  BY <1>1, ToClientType
<1> HIDE DEF Goes
<1>4. CASE HearPing(frame)
  <2>1. CASE PassOver
    BY <2>1, PassOverGoes
  <2>2. CASE ~PassOver
    <3>1. /\ srv' = [srv EXCEPT !.expects = n, !.next = m]
          /\ toClient' = Put(toClient, world.clientCapacity, << notice >>)
      BY <1>4, <2>2 DEF HearPing
    <3> HIDE DEF n, m, notice
    <3> QED BY <1>2, <1>3, <3>1, NumbersGoes
  <2> QED BY <2>1, <2>2
<1>5. CASE HearPong(frame)
  <2>1. CASE PassOver
    BY <2>1, PassOverGoes
  <2>2. CASE ~PassOver
    <3>1. srv' = [srv EXCEPT !.expects = n] /\ toClient' = toClient
      BY <1>5, <2>2 DEF HearPong
    <3> HIDE DEF n, m, notice
    <3> QED BY <1>2, <1>3, <3>1, NumbersGoes
  <2> QED BY <2>1, <2>2
<1>6. CASE ServerPings
  <2>1. /\ srv' = [srv EXCEPT !.pinged = TRUE, !.next = m]
        /\ toClient' = Put(toClient, world.clientCapacity, << ping >>)
    BY <1>6 DEF ServerPings
  <2> HIDE DEF n, m, ping
  <2> QED BY <1>2, <1>3, <2>1, NumbersGoes
<1> QED BY <1>4, <1>5, <1>6

LEMMA IdleGoes ==
  ASSUME Typed, srv' = Idle, toClient' = toClient
  PROVE  Goes
<1>1. srv \in Servers
  BY DEF Typed
<1>2. SameCall(Idle) /\ Idle.state = "idle" /\ Idle.pending = None
  BY <1>1, IdleType DEF SameCall
<1> HIDE DEF Goes
<1> QED BY <1>2, NothingSaid, SameCallGoes

LEMMA ForgettingGoes ==
  ASSUME Typed, NEW frame, HearHangup(frame) \/ HearAck(frame) \/ ServerGivesUp
  PROVE  Goes
<1> HIDE DEF Goes
<1>1. CASE srv' = Idle /\ toClient' = toClient
  BY <1>1, IdleGoes
<1>2. CASE PassOver
  BY <1>2, PassOverGoes
<1>3. CASE srv' = [srv EXCEPT !.pending = None] /\ toClient' = toClient
  <2> DEFINE t == [srv EXCEPT !.pending = None]
  <2>1. srv \in Servers
    BY DEF Typed
  <2>2. t \in Servers /\ t.pending = None /\ t.state = srv.state
        /\ t.call = srv.call /\ t.calls = srv.calls /\ t.challenge = srv.challenge
    BY <2>1 DEF Servers
  <2> HIDE DEF t
  <2>3. SameCall(t) /\ (FirstCall => t.state # "refused")
    BY <2>2 DEF SameCall, FirstCall, Sound
  <2>4. srv' = t
    BY <1>3 DEF t
  <2> QED BY <1>3, <2>2, <2>3, <2>4, NothingSaid, SameCallGoes
<1> QED BY <1>1, <1>2, <1>3 DEF HearHangup, HearAck, ServerGivesUp, PassOver

LEMMA RepeatGoes == Typed /\ ServerRepeats => Goes
<1> SUFFICES ASSUME Typed, ServerRepeats PROVE Goes
  OBVIOUS
<1> HIDE DEF Goes
<1> DEFINE k == srv.repeats + 1
           t == [srv EXCEPT !.repeats = k]
<1>1. srv \in Servers /\ k \in Nat /\ srv.pending \in Arrivals \union {None}
  BY DEF Typed, Servers
<1>2. srv' = t /\ srv.pending # None
      /\ toClient' = Put(toClient, world.clientCapacity, << srv.pending >>)
  BY DEF ServerRepeats
<1>3. /\ SameCall(t) /\ t.pending = srv.pending
      /\ FirstCall => t.state # "refused" /\ (t.pending = None \/ t.pending \in Said(t))
  <2>1. 0 \in 0 .. SeqNumbers - 1
    BY IAXAssumption
  <2> QED BY <1>1, <2>1, NumbersGo
<1> HIDE DEF k, t
<1>4. << srv.pending >> \in Seq(Arrivals) /\ (FirstCall => << srv.pending >> \in Seq(Said(t)))
  BY <1>1, <1>2, <1>3
<1> QED BY <1>2, <1>3, <1>4, SameCallGoes

LEMMA HangupGoes == Typed /\ ServerHangsUp => Goes
<1> SUFFICES ASSUME Typed, ServerHangsUp PROVE Goes
  OBVIOUS
<1> HIDE DEF Goes
<1>1. srv.state = "up" /\ Heed(Saying(srv, "ended", "HANGUP", NoChallenge))
  BY DEF ServerHangsUp
<1>2. Timely("HANGUP", 1, "ended") /\ "ended" \in ServerStates
  BY DEF Timely, ServerStates
<1> QED BY <1>1, <1>2, SayingGoes

LEMMA HearsGoes ==
  ASSUME SInv, NEW i \in DOMAIN toServer, ServerHears(i)
  PROVE  Goes
<1> DEFINE frame == toServer[i]
<1>1. Typed /\ (srv.calls <= 1 => FirstCall) /\ toServer \in Seq(Requests)
  BY DEF SInv, Typed
<1>2. frame \in Requests /\ (FirstCall => frame \in Answers(srv.challenge))
  BY <1>1, RemoveKeeps DEF FirstCall
<1> HIDE DEF Goes
<1>3. CASE frame.type = "NEW"
  BY <1>1, <1>3, NewGoes DEF ServerHears
<1>4. CASE frame.type \in {"AUTHREP", "REGREQ"}
  <2>1. HearAnswer(frame)
    BY <1>4 DEF ServerHears
  <2> HIDE DEF frame
  <2> QED BY <1>1, <1>2, <1>4, <2>1, AnswerGoes
<1>5. CASE frame.type \notin {"NEW", "AUTHREP", "REGREQ"}
  <2>1. HearPing(frame) \/ HearHangup(frame) \/ HearAck(frame) \/ HearPong(frame)
    BY <1>5 DEF ServerHears
  <2> HIDE DEF frame
  <2> QED BY <1>1, <2>1, KeepaliveGoes, ForgettingGoes
<1> QED BY <1>3, <1>4, <1>5

\* What the client does not see of the server cannot disagree with it.
LEMMA GoesKeeps ==
  ASSUME SInv, Goes, UNCHANGED << phase, iax, world, mended, session >>,
         toServer' = toServer \/ (\E i \in DOMAIN toServer : toServer' = RemoveAt(toServer, i))
  PROVE  SInv'
<1>1. PICK t \in Servers, frames \in Seq(Arrivals) :
        /\ ServerGoes(t, frames) /\ srv' = t
        /\ toClient' = toClient \/ toClient' = Put(toClient, world.clientCapacity, frames)
  BY DEF Goes
<1>2. Typed /\ (srv.calls <= 1 => FirstCall) /\ srv \in Servers
      /\ srv.calls \in 0 .. 2 /\ t.calls \in 0 .. 2
  BY DEF SInv, Typed, Servers
<1>3. \A S : toServer \in Seq(S) => toServer' \in Seq(S)
  BY RemoveKeeps
<1>4. world.clientCapacity \in Nat
  BY <1>2, Capacities DEF Typed
<1>5. ASSUME NEW S, toClient \in Seq(S), frames \in Seq(S) PROVE toClient' \in Seq(S)
  BY <1>1, <1>4, <1>5, PutKeeps
<1>6. Typed'
  <2>1. toServer' \in Seq(Requests) /\ toClient' \in Seq(Arrivals)
    BY <1>1, <1>2, <1>3, <1>5 DEF Typed
  <2>2. IInv'
    BY <1>2 DEF Typed, IInv
  <2>3. /\ t \in Servers /\ t.call \in Calls \union {0}
        /\ t.state # "idle" => t.call # 0 /\ t.calls # 0
    BY <1>1 DEF ServerGoes
  <2> QED BY <1>1, <1>2, <2>1, <2>2, <2>3 DEF Typed
<1>7. ASSUME t.calls <= 1 PROVE FirstCall'
  <2>1. srv.calls <= 1 /\ FirstCall
    BY <1>1, <1>2, <1>7 DEF ServerGoes
  <2>2. Sound(t) /\ Later(srv, t) /\ frames \in Seq(Said(t))
    BY <1>1, <1>7, <2>1 DEF ServerGoes
  <2>3. /\ Said(srv) \subseteq Said(t)
        /\ Answers(srv.challenge) \subseteq Answers(t.challenge)
        /\ \A open \in BOOLEAN, status \in Statuses :
             Believed(open, status, srv.calls, srv.state) => Believed(open, status, t.calls, t.state)
        /\ iax.seed \in {NoChallenge, srv.challenge} => iax.seed \in {NoChallenge, t.challenge}
    BY <1>1, <1>2, <2>2, LaterKeeps
  <2>4. toServer' \in Seq(Answers(t.challenge))
    BY <1>3, <2>1, <2>3, SeqWider DEF FirstCall
  <2>5. toClient' \in Seq(Said(t))
    BY <1>5, <2>1, <2>2, <2>3, SeqWider DEF FirstCall
  <2>6. iax.status \in Statuses
    BY <1>2 DEF Typed, IInv, Fine, Core, Objects
  <2>7. Believed(phase = "open", iax.status, t.calls, t.state)
    BY <2>1, <2>3, <2>6 DEF FirstCall
  <2> HIDE DEF Believed
  <2>8. Sound(srv)' /\ Said(srv)' = Said(t)
    BY <1>1, <2>2
  <2> QED BY <1>1, <2>1, <2>3, <2>4, <2>5, <2>7, <2>8 DEF FirstCall
<1> QED BY <1>1, <1>6, <1>7 DEF SInv

-----------------------------------------------------------------------------
(***************************************************************************)
(* The steps of the client                                                 *)
(***************************************************************************)
\* A frame on its way is what the object gave to the socket.
LEMMA AsReadType ==
  ASSUME NEW f \in Frames
  PROVE  /\ AsRead(f) \in Requests
         /\ \A K : f.answer \in {NoChallenge, K} /\ AnswerGiven(f) => AsRead(f) \in Answers(K)
<1>1. AsRead(f) \in Requests
  BY DEF AsRead, Frames, Requests
<1>2. AsRead(f).type = f.type /\ AsRead(f).dCall = f.dCall /\ AsRead(f).answer = f.answer
  BY DEF AsRead
<1> QED BY <1>1, <1>2 DEF Answers, AnswerGiven

LEMMA LeavesKeeps ==
  ASSUME Typed, NEW object, Fine(object), Leaves(object)
  PROVE  /\ Fine(iax') /\ iax'.out = << >>
         /\ iax'.status = object.status /\ iax'.seed = object.seed
         /\ toServer' \in Seq(Requests)
         /\ \A K : Truly(object, K) /\ toServer \in Seq(Answers(K)) => toServer' \in Seq(Answers(K))
<1> DEFINE frames == [i \in DOMAIN object.out |-> AsRead(object.out[i])]
<1>1. object \in Objects /\ object.out \in Seq(Frames)
      /\ \A i \in DOMAIN object.out : AnswerGiven(object.out[i])
  BY DEF Fine, Core, Objects
<1>2. world.serverCapacity \in Nat /\ toServer \in Seq(Requests)
  BY Capacities DEF Typed
<1>3. iax' = [object EXCEPT !.out = << >>] /\ toServer' = Put(toServer, world.serverCapacity, frames)
  BY DEF Leaves, Begin
<1>4. Fine(iax')
  BY <1>3, SetOthers
<1>5. iax'.out = << >> /\ iax'.status = object.status /\ iax'.seed = object.seed
  BY <1>1, <1>3 DEF Objects
<1>6. DOMAIN object.out = 1 .. Len(object.out) /\ Len(object.out) \in Nat
      /\ \A i \in DOMAIN object.out : object.out[i] \in Frames
  BY <1>1
<1>7. ASSUME NEW S, \A i \in DOMAIN object.out : AsRead(object.out[i]) \in S
      PROVE  frames \in Seq(S)
  <2>1. frames \in [1 .. Len(object.out) -> S]
    BY <1>6, <1>7
  <2> QED BY <1>6, <2>1, SeqDef
<1>8. frames \in Seq(Requests)
  BY <1>6, <1>7, AsReadType
<1>9. ASSUME NEW K, Truly(object, K), toServer \in Seq(Answers(K))
      PROVE  toServer' \in Seq(Answers(K))
  <2>1. \A i \in DOMAIN object.out : AsRead(object.out[i]) \in Answers(K)
    BY <1>1, <1>6, <1>9, AsReadType DEF Truly
  <2>2. frames \in Seq(Answers(K))
    BY <1>7, <2>1
  <2> HIDE DEF frames
  <2> QED BY <1>2, <1>3, <1>9, <2>2, PutKeeps
<1> HIDE DEF frames
<1>10. toServer' \in Seq(Requests)
  BY <1>2, <1>3, <1>8, PutKeeps
<1> QED BY <1>4, <1>5, <1>9, <1>10

\* What every call of the object comes to.
LEMMA ClientKeeps ==
  ASSUME SInv, NEW object, Fine(object), Leaves(object),
         UNCHANGED << world, mended, srv, session >>, phase' \in {"new", "open", "closed"},
         phase' # "open" => object.status = "DISCONNECTED",
         toClient' = toClient \/ (\E i \in DOMAIN toClient : toClient' = RemoveAt(toClient, i)),
         FirstCall => /\ Truly(object, srv.challenge)
                      /\ Believed(phase' = "open", object.status, srv.calls, srv.state)
  PROVE  SInv'
<1>1. Typed /\ (srv.calls <= 1 => FirstCall)
  BY DEF SInv
<1>2. /\ Fine(iax') /\ iax'.out = << >>
      /\ iax'.status = object.status /\ iax'.seed = object.seed
      /\ toServer' \in Seq(Requests)
      /\ \A K : Truly(object, K) /\ toServer \in Seq(Answers(K)) => toServer' \in Seq(Answers(K))
  BY <1>1, LeavesKeeps
<1>3. \A S : toClient \in Seq(S) => toClient' \in Seq(S)
  BY RemoveKeeps
<1>4. IInv'
  BY <1>2 DEF IInv
<1>5. Typed'
  BY <1>1, <1>2, <1>3, <1>4 DEF Typed
<1>6. ASSUME FirstCall PROVE FirstCall'
  <2>1. /\ toServer' \in Seq(Answers(srv.challenge)) /\ toClient' \in Seq(Said(srv))
        /\ iax'.seed \in {NoChallenge, srv.challenge}
    BY <1>2, <1>3, <1>6 DEF FirstCall, Truly
  <2>2. Believed(phase' = "open", iax'.status, srv.calls, srv.state)
    BY <1>2, <1>6
  <2>3. Sound(srv)' /\ Said(srv)' = Said(srv)
    BY <1>6 DEF FirstCall
  <2> HIDE DEF Believed, Sound, Said
  <2> QED BY <2>1, <2>2, <2>3 DEF FirstCall
<1> QED BY <1>1, <1>5, <1>6 DEF SInv

\* The object between two calls.
LEMMA Between ==
  ASSUME Typed
  PROVE  /\ Fine(iax) /\ Begin(iax) = iax
         /\ srv.challenge \in Asked
         /\ FirstCall => Truly(iax, srv.challenge)
<1>1. Fine(iax) /\ iax \in Objects /\ iax.out = << >>
  BY DEF Typed, IInv, Fine, Core
<1>2. Begin(iax) = iax
  BY <1>1 DEF Begin, Objects
<1>3. srv.challenge \in Asked
  BY DEF Typed, Servers
<1>4. DOMAIN << >> = {}
  OBVIOUS
<1> QED BY <1>1, <1>2, <1>3, <1>4 DEF FirstCall, Truly

LEMMA OpenKeeps == SInv /\ ClientOpens => SInv'
<1> SUFFICES ASSUME SInv, ClientOpens PROVE SInv'
  OBVIOUS
<1> DEFINE o == Opened(iax)
           b == [iax EXCEPT !.dCall = 0, !.keyed = FALSE]
<1>1. Typed /\ phase = "new" /\ iax.status = "DISCONNECTED"
  BY DEF SInv, Typed, IInv, ClientOpens
<1>2. /\ Fine(o) /\ o.status = "CONNECTING" /\ o.seed = iax.seed
      /\ o.out = WriteNew(b, FALSE).out
  <2>1. Fine(iax) /\ Begin(iax) = iax
    BY <1>1, Between
  <2> QED BY <1>1, <2>1, OpenedFine DEF Calling
<1>3. ASSUME FirstCall PROVE Truly(o, srv.challenge)
  <2>1. Truly(iax, srv.challenge) /\ srv.challenge \in Asked
    BY <1>1, <1>3, Between
  <2>2. b \in Objects /\ b.out = iax.out /\ b.seed = iax.seed
    BY <2>1 DEF Truly, Objects
  <2> HIDE DEF b, o
  <2>3. Truly(b, srv.challenge)
    BY <2>1, <2>2, SetTruly
  <2>4. Truly(WriteNew(b, FALSE), srv.challenge) /\ WriteNew(b, FALSE).seed = b.seed
    BY <2>1, <2>3, NewTruly
  <2>5. o \in Objects
    BY <1>2 DEF Fine, Core
  <2> QED BY <1>2, <2>2, <2>4, <2>5, SetTruly
<1>4. Leaves(o) /\ phase' = "open" /\ UNCHANGED << world, toClient, mended, srv, session >>
  BY DEF ClientOpens
<1>5. Believed(phase' = "open", o.status, srv.calls, srv.state)
  BY <1>2 DEF Believed
<1> HIDE DEF o
<1> QED BY <1>2, <1>3, <1>4, <1>5, ClientKeeps

LEMMA NowKeeps ==
  ASSUME Typed, NEW ms \in Elapsed
  PROVE  /\ Fine(Now(ms)) /\ Now(ms).status = iax.status
         /\ FirstCall => Truly(Now(ms), srv.challenge)
<1>1. /\ Fine(iax) /\ srv.challenge \in Asked /\ (FirstCall => Truly(iax, srv.challenge))
      /\ ms \in Nat
  BY Between, IAXAssumption
<1>2. Fine(RetryTimer(iax, ms))
  BY <1>1, RetryTimerFine
<1>3. Fine(PingTimer(RetryTimer(iax, ms), ms))
  BY <1>1, <1>2, PingTimerFine
<1>4. Truly(iax, iax.seed) /\ iax.seed \in Asked
  <2>1. DOMAIN << >> = {} /\ iax.out = << >> /\ iax \in Objects
    BY DEF Typed, IInv, Fine, Core
  <2> QED BY <2>1 DEF Truly, Objects
<1>5. Now(ms).status = iax.status
  BY <1>1, <1>4, NowTruly DEF Now
<1> QED BY <1>1, <1>3, <1>5, NowTruly DEF Now

LEMMA TurnKeeps ==
  ASSUME SInv, NEW ms \in Elapsed, ClientTurns(ms)
  PROVE  SInv'
<1>1. Typed /\ phase = "open" /\ phase' = "open"
  BY DEF SInv, ClientTurns
<1>2. Leaves(Now(ms)) /\ UNCHANGED << world, toClient, mended, srv, session >>
  BY DEF ClientTurns
<1>3. FirstCall => Believed(phase' = "open", Now(ms).status, srv.calls, srv.state)
  BY <1>1, NowKeeps DEF FirstCall
<1> QED BY <1>1, <1>2, <1>3, NowKeeps, ClientKeeps

\* A frame tells the client only what has happened.
LEMMA HearsKeeps ==
  ASSUME SInv, NEW ms \in Elapsed, NEW i \in DOMAIN toClient, ClientHears(ms, i)
  PROVE  SInv'
<1> DEFINE frame == toClient[i]
           n == Now(ms)
           o == Handled(n, frame)
<1>1. Typed /\ phase = "open" /\ phase' = "open"
  BY DEF SInv, ClientHears
<1>2. frame \in Arrivals /\ (FirstCall => frame \in Said(srv))
  BY <1>1, RemoveKeeps DEF Typed, FirstCall
<1>3. Leaves(o) /\ toClient' = RemoveAt(toClient, i) /\ UNCHANGED << world, mended, srv, session >>
  BY DEF ClientHears
<1>4. /\ Fine(n) /\ n.status = iax.status /\ srv.challenge \in Asked
      /\ FirstCall => Truly(n, srv.challenge)
  BY <1>1, NowKeeps, Between
<1> HIDE DEF frame, n
<1>5. Fine(o)
  BY <1>2, <1>4, HandledFine
<1>6. ASSUME FirstCall
      PROVE  /\ Truly(o, srv.challenge)
             /\ Believed(phase' = "open", o.status, srv.calls, srv.state)
  <2>1. /\ frame.challenge \in {NoChallenge, srv.challenge}
        /\ Timely(frame.type, srv.calls, srv.state)
    BY <1>2, <1>6 DEF Said, Replies
  <2>2. Truly(o, srv.challenge) /\ o.status = StatusAfter(iax.status, frame)
    BY <1>2, <1>4, <1>6, <2>1, HandledTruly
  <2> HIDE DEF o
  <2>3. Believed(TRUE, iax.status, srv.calls, srv.state)
    BY <1>1, <1>6 DEF FirstCall, Believed
  <2>4. Believed(TRUE, StatusAfter(iax.status, frame), srv.calls, srv.state)
    BY <2>1, <2>3 DEF StatusAfter, Timely, Believed
  <2> QED BY <1>1, <2>2, <2>4 DEF Believed
<1> HIDE DEF o
<1> QED BY <1>1, <1>3, <1>5, <1>6, ClientKeeps

LEMMA CloseKeeps == SInv /\ ClientCloses => SInv'
<1> SUFFICES ASSUME SInv, ClientCloses PROVE SInv'
  OBVIOUS
<1> DEFINE o == Closed(iax)
<1>1. Typed /\ phase' = "closed"
  BY DEF SInv, ClientCloses
<1>2. Leaves(o) /\ UNCHANGED << world, toClient, mended, srv, session >>
  BY DEF ClientCloses
<1>3. /\ Fine(o) /\ o.status = "DISCONNECTED" /\ o.seed = iax.seed
      /\ o.out = WriteHangup(iax).out
  BY <1>1, Between, ClosedFine
<1>4. ASSUME FirstCall PROVE Truly(o, srv.challenge)
  <2>1. Truly(iax, srv.challenge) /\ srv.challenge \in Asked
    BY <1>1, <1>4, Between
  <2>2. Truly(WriteHangup(iax), srv.challenge) /\ WriteHangup(iax).seed = iax.seed
    BY <2>1, WritesTruly
  <2>3. o \in Objects
    BY <1>3 DEF Fine, Core
  <2> HIDE DEF o
  <2> QED BY <1>3, <2>2, <2>3, SetTruly
<1>5. Believed(phase' = "open", o.status, srv.calls, srv.state)
  BY <1>1, <1>3 DEF Believed
<1> HIDE DEF o
<1> QED BY <1>1, <1>2, <1>3, <1>4, <1>5, ClientKeeps

\* A new object believes nothing; what is under way is for the one before.
LEMMA RestartKeeps == SInv /\ ClientRestarts => SInv'
<1> SUFFICES ASSUME SInv, ClientRestarts PROVE SInv'
  OBVIOUS
<1>1. Typed /\ (srv.calls <= 1 => FirstCall)
  BY DEF SInv
<1>2. /\ phase' = "new" /\ iax' = NewObject /\ session' = session + 1
      /\ UNCHANGED << world, toServer, toClient, mended, srv >>
  BY DEF ClientRestarts, Restart
<1>3. Fine(NewObject) /\ NewObject.status = "DISCONNECTED" /\ NewObject.out = << >>
      /\ NewObject.seed = NoChallenge
  BY NewObjectFine DEF NewObject
<1>4. Typed'
  <2>1. IInv'
    BY <1>2, <1>3 DEF IInv
  <2>2. session' \in Nat
    BY <1>1, <1>2 DEF Typed
  <2> QED BY <1>1, <1>2, <1>3, <2>1, <2>2 DEF Typed
<1>5. ASSUME FirstCall PROVE FirstCall'
  <2>1. Believed(phase' = "open", iax'.status, srv.calls, srv.state)
    BY <1>2, <1>3 DEF Believed
  <2>2. Sound(srv)' /\ Said(srv)' = Said(srv)
    BY <1>2, <1>5 DEF FirstCall
  <2> HIDE DEF Believed, Sound, Said
  <2> QED BY <1>2, <1>3, <1>5, <2>1, <2>2 DEF FirstCall
<1> QED BY <1>1, <1>2, <1>4, <1>5 DEF SInv

\* The network loses frames, and makes none.
LEMMA NetworkKeeps == SInv /\ (Lose \/ Mend) => SInv'
<1> SUFFICES ASSUME SInv, Lose \/ Mend PROVE SInv'
  OBVIOUS
<1>1. Typed /\ (srv.calls <= 1 => FirstCall)
  BY DEF SInv
<1>2. UNCHANGED << world, phase, iax, srv, session >> /\ mended' \in BOOLEAN
  BY <1>1 DEF Lose, Mend, Typed
<1>3. /\ \A S : toServer \in Seq(S) => toServer' \in Seq(S)
      /\ \A S : toClient \in Seq(S) => toClient' \in Seq(S)
  BY RemoveKeeps DEF Lose, Mend
<1>4. Typed'
  BY <1>1, <1>2, <1>3 DEF Typed, IInv
<1>5. FirstCall => FirstCall'
  <2>1. Sound(srv)' = Sound(srv) /\ Said(srv)' = Said(srv)
    BY <1>2
  <2> HIDE DEF Believed, Sound, Said
  <2> QED BY <1>2, <1>3, <2>1 DEF FirstCall
<1> QED BY <1>1, <1>2, <1>4, <1>5 DEF SInv

-----------------------------------------------------------------------------
LEMMA SessionInitInv == SessionInit => SInv
<1> SUFFICES ASSUME SessionInit PROVE SInv
  OBVIOUS
<1>1. IInv
  BY InitInv DEF SessionInit
<1>2. /\ NewServer \in Servers /\ NewServer.state = "idle" /\ NewServer.call = 0
      /\ NewServer.calls = 0 /\ NewServer.challenge = NoChallenge /\ NewServer.pending = None
  BY IAXAssumption DEF NewServer, Servers, ServerStates, Asked
<1>3. /\ srv = NewServer /\ toServer = << >> /\ toClient = << >> /\ mended = FALSE
      /\ session = 1 /\ world \in Worlds /\ iax = NewObject /\ phase = "new"
  BY DEF SessionInit, Init
<1>4. NewObject.out = << >> /\ NewObject.seed = NoChallenge /\ NewObject.status = "DISCONNECTED"
  BY DEF NewObject
<1>5. Typed
  BY <1>1, <1>2, <1>3, <1>4, NothingSaid DEF Typed
<1>6. FirstCall
  BY <1>2, <1>3, <1>4, NothingSaid DEF FirstCall, Sound, Believed
<1> QED BY <1>5, <1>6 DEF SInv

LEMMA SessionNextInv == SInv /\ [SessionNext]_sessionVars => SInv'
<1> SUFFICES ASSUME SInv, [SessionNext]_sessionVars PROVE SInv'
  OBVIOUS
<1>1. Typed
  BY DEF SInv
<1>2. CASE ClientOpens \/ ClientCloses \/ ClientRestarts \/ Lose \/ Mend
  BY <1>2, OpenKeeps, CloseKeeps, RestartKeeps, NetworkKeeps
<1>3. CASE \E ms \in Elapsed : ClientTurns(ms)
  BY <1>3, TurnKeeps
<1>4. CASE Delivery
  <2>1. CASE \E ms \in Elapsed, i \in Deliverable(toClient) : ClientHears(ms, i)
    BY <2>1, HearsKeeps DEF Deliverable
  <2>2. CASE \E i \in Deliverable(toServer) : ServerHears(i)
    <3>1. PICK i \in DOMAIN toServer : ServerHears(i)
      BY <2>2 DEF Deliverable
    <3>2. Goes
      BY <3>1, HearsGoes
    <3>3. UNCHANGED << phase, iax, world, mended, session >> /\ toServer' = RemoveAt(toServer, i)
      BY <3>1 DEF ServerHears
    <3> HIDE DEF Goes
    <3> QED BY <3>2, <3>3, GoesKeeps
  <2> QED BY <1>4, <2>1, <2>2 DEF Delivery
<1>5. CASE ServerRepeats \/ ServerGivesUp \/ ServerPings \/ ServerHangsUp
  <2> HIDE DEF Goes
  <2>1. Goes
    BY <1>1, <1>5, RepeatGoes, ForgettingGoes, KeepaliveGoes, HangupGoes
  <2>2. UNCHANGED << phase, iax, world, mended, session, toServer >>
    BY <1>5 DEF ServerRepeats, ServerGivesUp, ServerPings, ServerHangsUp
  <2> QED BY <2>1, <2>2, GoesKeeps
<1>6. CASE UNCHANGED sessionVars
  BY <1>6 DEF sessionVars, SInv, Typed, IInv, FirstCall, Sound, Said
<1> QED BY <1>2, <1>3, <1>4, <1>5, <1>6 DEF SessionNext

LEMMA SessionInvariant == SessionSpec => []SInv
BY SessionInitInv, SessionNextInv, PTL DEF SessionSpec

\* Whatever is lost, overtaken or repeated, and also for an object after a
\* restart: until the server makes a second call the client is not refused,
\* takes the call for up only after it was accepted, and for over only after
\* the server has ended it, although no handler of clock() looks at the
\* status or at the number of the call.
THEOREM FirstCallHolds == SessionSpec => []FirstCallAgreed
<1>1. SInv => FirstCallAgreed
  BY DEF SInv, FirstCall, Sound, Believed, FirstCallAgreed
<1> QED BY <1>1, SessionInvariant, PTL
=============================================================================
