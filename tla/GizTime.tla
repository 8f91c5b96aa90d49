------------------------------- MODULE GizTime -----------------------------
(***************************************************************************)
(* gizTimeMs and gizGetIntervalsMs of gizwits_protocol.c: how long ago a   *)
(* time was taken, from a counter of microseconds that wraps.  The counter *)
(* goes on between the reads of one call.                                  *)
(***************************************************************************)
EXTENDS Integers

CONSTANTS
  Wrap,      \* 2^32: of the counter, and of arithmetic
  Milli,     \* microseconds in a millisecond
  MaxSince   \* bound: microseconds the model follows

ASSUME CounterAssumption ==
  /\ Wrap \in Nat /\ Milli \in Nat \ {0} /\ Wrap > Milli /\ MaxSince \in Nat

VARIABLES
  time,       \* system_get_time
  lastRpMs,   \* what the caller has kept of gizTimeMs
  looked,     \* the first read of a call under way, or -1
  interval,   \* what the last call returned, or -1
  since,      \* history: microseconds since lastRpMs was taken,
  wrapped,    \* whether the counter has wrapped since
  elapsed     \* and the milliseconds it should have returned

TimeVars == <<time, lastRpMs, looked, interval, since, wrapped, elapsed>>

gizTimeMs == time \div Milli

\* The milliseconds that have begun since the one lastRpMs was taken in.
Begun == (lastRpMs * Milli + since) \div Milli - lastRpMs

-----------------------------------------------------------------------------

TimeInit ==
  /\ time \in {0, Wrap - Milli} /\ lastRpMs = time \div Milli
  /\ looked = -1 /\ interval = -1 /\ since = time % Milli /\ wrapped = FALSE /\ elapsed = 0

\* since counts from the start of the millisecond lastRpMs.
Passes ==
  /\ since < MaxSince
  /\ time' = (time + 1) % Wrap /\ since' = since + 1
  /\ wrapped' = (wrapped \/ time' = 0)
  /\ UNCHANGED <<lastRpMs, looked, interval, elapsed>>

Keep ==
  /\ looked = -1 /\ lastRpMs' = gizTimeMs
  /\ since' = time % Milli /\ wrapped' = FALSE /\ interval' = -1 /\ elapsed' = 0
  /\ UNCHANGED <<time, looked>>

\* gizGetIntervalsMs reads the time to compare it
Look ==
  /\ looked = -1 /\ looked' = gizTimeMs
  /\ UNCHANGED <<time, lastRpMs, interval, since, wrapped, elapsed>>

\* Mutant of gizGetIntervalsMs: the operands of the difference the wrong way round.
gizGetIntervalsMs_Swapped ==
  /\ looked # -1 /\ looked' = -1
  /\ interval' = IF (looked - lastRpMs) % Wrap > 0 THEN (lastRpMs - gizTimeMs) % Wrap
                 ELSE (Wrap - 1 - lastRpMs + gizTimeMs) % Wrap
  /\ elapsed' = Begun
  /\ UNCHANGED <<time, lastRpMs, since, wrapped>>

\* and again to subtract.  An unsigned difference is above 0 unless it is 0.
gizGetIntervalsMs ==
  /\ looked # -1 /\ looked' = -1
  /\ interval' = IF (looked - lastRpMs) % Wrap > 0 THEN (gizTimeMs - lastRpMs) % Wrap
                 ELSE (Wrap - 1 - lastRpMs + gizTimeMs) % Wrap
  /\ elapsed' = Begun
  /\ UNCHANGED <<time, lastRpMs, since, wrapped>>

TimeNext == Passes \/ Keep \/ Look \/ gizGetIntervalsMs

TimeSpec == TimeInit /\ [][TimeNext]_TimeVars

-----------------------------------------------------------------------------

\* What the comment on gizGetIntervalsMs says: it returns the interval between
\* now and the last query, in milliseconds.  It does not in the millisecond of
\* that query, where the two are equal and the branch for a wrap is taken, nor
\* after system_get_time has wrapped.
IntervalAsDocumented == [][gizGetIntervalsMs => interval' = elapsed']_TimeVars

\* What is left of it: a call that begins in a later millisecond returns the
\* interval up to its second look, until the counter wraps.
IntervalRight ==
  [][gizGetIntervalsMs /\ looked # lastRpMs /\ ~wrapped => interval' = elapsed']_TimeVars
=============================================================================
