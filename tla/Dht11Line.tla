------------------------------ MODULE Dht11Line ----------------------------
(***************************************************************************)
(* One call of dht11ReadData of hal_temp_hum.c against the sensor, on the  *)
(* one wire between them.  Time passes in ticks.  A loop of the driver     *)
(* looks at the wire once a tick; now and then something else has the      *)
(* processor for Stall ticks.  The sensor may be missing, may die at any   *)
(* time with the wire high or low, and keeps to its own timing otherwise.  *)
(*                                                                         *)
(* TempHum takes the call as one step with one of three outcomes: no       *)
(* answer, a sample, or zeros for a frame whose checksum fails.            *)
(***************************************************************************)
EXTENDS Naturals, Sequences

CONSTANTS
  ByteBits,   \* bits in a byte
  Retries,    \* times a loop looks, 100 in the code
  Wait,       \* ticks from the rise of a bit to its sample, 40 us in the code
  Stall,      \* ticks the processor is away
  Delay,      \* ticks before the sensor answers
  Response,   \* ticks of each half of its answer
  Low,        \* ticks low before a bit
  High,       \* ticks high that are a bit, a function of 0 and 1
  Answers     \* frames the sensor sends, five bytes each

ASSUME DhtAssumption ==
  /\ ByteBits \in Nat \ {0} /\ Retries \in Nat \ {0} /\ Wait \in Nat \ {0} /\ Stall \in Nat
  /\ \A n \in Delay \cup Response \cup Low \cup High[0] \cup High[1] : n \in Nat \ {0}
  /\ Answers \subseteq [1 .. 5 -> 0 .. 2 ^ ByteBits - 1]

VARIABLES
  answer,   \* the frame the sensor sends
  level,    \* the wire
  phase,    \* where the sensor is: 0 and 1 its answer, then a low and a high a bit
  ticks,    \* left of the phase
  alive,    \* the sensor, still
  place,    \* where the driver is
  retry,    \* times the loop has looked, or ticks of the delay left
  bits,     \* bits read
  given,    \* the caller's sample: *humidity, *temperature
  away,     \* ticks the processor is away for
  stalled   \* it has been away since the last bit

sensor == <<answer, level, phase, ticks, alive>>
driver == <<place, retry, bits, given>>
DhtVars == <<sensor, driver, away, stalled>>

FrameBits == 5 * ByteBits
BitOf(f, n) == (f[((n - 1) \div ByteBits) + 1] \div 2 ^ (ByteBits - 1 - ((n - 1) % ByteBits))) % 2
NoSample == [hum |-> 0, tem |-> 0]

-----------------------------------------------------------------------------
(* The sensor.                                                             *)

\* Phase 1 low and 2 high are its answer; then, for bit n, 2n + 1 low and 2n + 2
\* high; the last phase is low and ends the frame, and the reading ends in it.
Last == 2 * FrameBits + 3

PhaseTicks(p) ==
  IF p <= 2 THEN Response ELSE IF p % 2 = 1 THEN Low ELSE High[BitOf(answer, (p - 2) \div 2)]

\* A tick of its time.
SensorTick ==
  \/ alive /\ ticks > 1 /\ ticks' = ticks - 1 /\ UNCHANGED <<answer, level, phase, alive>>
  \/ /\ alive /\ ticks = 1 /\ phase < Last
     /\ phase' = phase + 1 /\ level' = ((phase + 1) % 2 = 0) /\ ticks' \in PhaseTicks(phase + 1)
     /\ UNCHANGED <<answer, alive>>
  \/ ~alive /\ UNCHANGED sensor

\* It stops, and the wire stays as it is or goes up.
Dies ==
  /\ alive /\ alive' = FALSE /\ level' \in {level, TRUE} /\ ticks' = 0
  /\ phase' = 0 /\ UNCHANGED <<answer, driver, away, stalled>>

-----------------------------------------------------------------------------
(* The driver.                                                             *)

Go(p, n) == place' = p /\ retry' = n

\* dht11Check: the wire goes low, then high, or 1 is returned.
AwaitAnswer ==
  /\ place \in {"low", "high"} /\ UNCHANGED <<bits, given>>
  /\ LET over == (level = (place = "high")) IN
     \/ ~over /\ retry < Retries /\ Go(place, retry + 1)
     \/ retry = Retries /\ Go("none", 0)
     \/ over /\ retry < Retries /\ Go(IF place = "low" THEN "high" ELSE "bitlow", 0)

\* Mutant of AwaitBit: a low wire ends the loop that waits for low, and the bit
\* is timed from there.
AwaitBit_OneLoop ==
  /\ place \in {"bitlow", "bithigh"} /\ UNCHANGED <<bits, given>>
  /\ IF level /\ retry < Retries THEN Go(place, retry + 1) ELSE Go("sample", Wait)

\* dht11ReadBit: the wire goes low, then high; a loop that looks in vain ends
\* too.
AwaitBit ==
  /\ place \in {"bitlow", "bithigh"} /\ UNCHANGED <<bits, given>>
  /\ LET over == (level = (place = "bithigh")) \/ retry = Retries IN
     IF ~over THEN Go(place, retry + 1)
     ELSE IF place = "bitlow" THEN Go("bithigh", 0)
     ELSE Go("sample", Wait)

Value(n) ==
  LET v[i \in 0 .. ByteBits] ==
        IF i = 0 THEN 0 ELSE 2 * v[i - 1] + bits'[(n - 1) * ByteBits + i]
  IN v[ByteBits]

\* The sum is an int.
Checksum == Value(1) + Value(2) + Value(3) + Value(4) = Value(5)

\* Then the level decides; five bytes with a right checksum are a sample.
ReadBit ==
  /\ place = "sample"
  /\ \/ retry > 1 /\ Go(place, retry - 1) /\ UNCHANGED <<bits, given>>
     \/ /\ retry = 1 /\ bits' = Append(bits, IF level THEN 1 ELSE 0)
        /\ IF Len(bits') < FrameBits THEN Go("bitlow", 0) /\ UNCHANGED given
           ELSE /\ Go("done", 0)
                /\ given' = IF Checksum THEN [hum |-> Value(1), tem |-> Value(3)] ELSE given

Ended == place \in {"done", "none"}

Driver == AwaitAnswer \/ AwaitBit \/ ReadBit

\* A tick: both go on, or the sensor alone.
Tick ==
  /\ ~Ended /\ SensorTick
  /\ \/ /\ away = 0 /\ Driver /\ UNCHANGED away
        /\ stalled' = IF Len(bits') > Len(bits) THEN FALSE ELSE stalled
     \/ away > 0 /\ away' = away - 1 /\ UNCHANGED <<driver, stalled>>

\* Something else has the processor, at most once a bit.
Interrupted ==
  /\ ~Ended /\ away = 0 /\ ~stalled /\ away' = Stall /\ stalled' = TRUE
  /\ UNCHANGED <<sensor, driver>>

\* dht11Rst has let the wire go up; the sensor answers soon, or there is none.
DhtInit ==
  /\ answer \in Answers /\ level = TRUE /\ phase = 0
  /\ alive \in BOOLEAN /\ ticks \in IF alive THEN Delay ELSE {0}
  /\ place = "low" /\ retry = 0 /\ bits = <<>> /\ given = NoSample
  /\ away = 0 /\ stalled = FALSE

DhtNext == Tick \/ Interrupted \/ Dies

DhtSpec == DhtInit /\ [][DhtNext]_DhtVars

\* The processor comes back, and time passes.
DhtFairness == WF_DhtVars(Tick)

-----------------------------------------------------------------------------

Sum(f) == f[1] + f[2] + f[3] + f[4]

\* A sensor that keeps to its timing is read right, bit by bit, though the
\* processor is away now and then, and always heard.
ReadRight ==
  alive /\ phase > 0 =>
    /\ place # "none"
    /\ \A n \in 1 .. Len(bits) : bits[n] = BitOf(answer, n)

\* What the caller gets is what the sensor sent, if its checksum is right as a
\* plain sum, and its own zeros otherwise.
SampleOrZeros ==
  place = "done" /\ alive =>
    given = IF Sum(answer) = answer[5] THEN [hum |-> answer[1], tem |-> answer[3]] ELSE NoSample

\* The call ends, with a sensor or without.
AlwaysReturns == <>Ended

\* A reading ends, and what it gives is right.
ReadingRight == [](ReadRight /\ SampleOrZeros) /\ AlwaysReturns
=============================================================================
