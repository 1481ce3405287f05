------------------------------- MODULE Timer --------------------------------
(***************************************************************************)
(* CTimer (Timer.h, Timer.cpp): a counter that is 0 while stopped, 1 when  *)
(* just started, and grows by the time passed while it runs.  The timers   *)
(* of the gateway are created with 1000 ticks per second and are clocked   *)
(* with the milliseconds of one turn of the main loop.                     *)
(***************************************************************************)
EXTENDS Integers

\* CTimer(1000U, secs, msecs) and setTimeout(): a time of zero disables it.
Timeout(secs, msecs) ==
  IF secs > 0 \/ msecs > 0 THEN ((secs * 1000 + msecs) * 1000) \div 1000 + 1 ELSE 0

Stopped == 0

\* start() does nothing to a timer that was created with no timeout.
Started(timer, timeout) == IF timeout > 0 THEN 1 ELSE timer

IsRunning(timer) == timer > 0

HasExpired(timer, timeout) == timeout > 0 /\ timer > 0 /\ timer >= timeout

\* clock()
Ticked(timer, timeout, ms) ==
  IF timer > 0 /\ timeout > 0 THEN timer + ms ELSE timer
=============================================================================
