------------------------------- MODULE HwTimer -----------------------------
(***************************************************************************)
(* hw_timer.c: the FRC1 hardware timer.  A delay in microseconds becomes   *)
(* ticks of a counter that is divided by 16 from the bus clock, in words   *)
(* of 32 bits, of which the load register keeps those it has; the counter  *)
(* (external) counts down and interrupts.                                  *)
(***************************************************************************)
EXTENDS Naturals

CONSTANTS
  WORD,       \* 2^32
  LOAD,       \* 2^23: the words FRC1_LOAD can hold
  MICROS,     \* microseconds in a second
  CLOCK,      \* APB_CLK_FREQ >> 4
  THRESHOLD,  \* 0x35A
  DelaysUs    \* arguments of hw_timer_arm

\* The clock is a whole number of ticks a microsecond, THRESHOLD is small enough
\* for the product below not to wrap, and a delay (hw_timer_arm: at most
\* 0x7fffff) for its ticks to fit a word.  Whether they fit FRC1_LOAD is another
\* matter.
ASSUME TimerAssumption ==
  /\ WORD \in Nat /\ LOAD \in Nat \ {0} /\ MICROS \in Nat \ {0} /\ CLOCK \in Nat /\ THRESHOLD \in Nat
  /\ \E q \in 1 .. MICROS : MICROS = 4 * q
  /\ \E k \in 1 .. CLOCK : CLOCK = k * MICROS
  /\ THRESHOLD * CLOCK < WORD
  /\ DelaysUs \subseteq Nat /\ \A t \in DelaysUs : t * (CLOCK \div MICROS) < WORD

VARIABLES
  counting,  \* FRC1_ENABLE_TIMER, with its interrupt
  autoload,  \* FRC1_AUTO_LOAD
  load,      \* FRC1_LOAD
  count,     \* ticks the counter has left, 0 when it stands
  callback,  \* user_hw_timer_cb is set
  wanted, due \* history: the delay asked for, and the microseconds left of it

TimerVars == <<counting, autoload, load, count, callback, wanted, due>>

PerMicro == CLOCK \div MICROS

\* Mutant of US_TO_RTC_TIMER_TICKS: the product is used above THRESHOLD too.
US_TO_RTC_TIMER_TICKS_Wraps(t) == ((t * CLOCK) % WORD) \div MICROS

US_TO_RTC_TIMER_TICKS(t) ==
  IF t > THRESHOLD
  THEN ((t \div 4) * (CLOCK \div (MICROS \div 4)) + (t % 4) * PerMicro) % WORD
  ELSE ((t * CLOCK) % WORD) \div MICROS

-----------------------------------------------------------------------------

TimerInit ==
  /\ counting = FALSE /\ autoload = FALSE /\ load = 0 /\ count = 0
  /\ callback = FALSE /\ wanted = 0 /\ due = 0

hw_timer_init(req) ==
  /\ counting' = TRUE /\ autoload' = (req = 1)
  /\ UNCHANGED <<load, count, callback, wanted, due>>

hw_timer_set_func ==
  callback' = TRUE /\ UNCHANGED <<counting, autoload, load, count, wanted, due>>

\* A load starts the counter over.
hw_timer_arm(val) ==
  /\ load' = US_TO_RTC_TIMER_TICKS(val) % LOAD /\ count' = load'
  /\ wanted' = val /\ due' = val
  /\ UNCHANGED <<counting, autoload, callback>>

\* A microsecond passes, short of the last.
CountDown ==
  /\ counting /\ count > PerMicro
  /\ count' = count - PerMicro /\ due' = IF due = 0 THEN 0 ELSE due - 1
  /\ UNCHANGED <<counting, autoload, load, callback, wanted>>

\* The interrupt, hw_timer_isr_cb; the counter starts over in autoload mode.
Expire ==
  /\ counting /\ count \in 1 .. PerMicro
  /\ count' = IF autoload THEN load ELSE 0
  /\ due' = IF autoload THEN wanted ELSE 0
  /\ UNCHANGED <<counting, autoload, load, callback, wanted>>

TimerNext ==
  \/ \E req \in {0, 1} : hw_timer_init(req)
  \/ hw_timer_set_func
  \/ \E val \in DelaysUs : hw_timer_arm(val)
  \/ CountDown \/ Expire

TimerSpec == TimerInit /\ [][TimerNext]_TimerVars

-----------------------------------------------------------------------------

\* Whatever the delay whose ticks FRC1_LOAD can hold, on either side of THRESHOLD,
\* the counter has as long to run as the caller has to wait: the interrupt comes
\* neither early nor late, the first time or, in autoload mode, any later time.
OnTime == wanted * PerMicro < LOAD => count = due * PerMicro
=============================================================================
