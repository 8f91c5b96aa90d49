------------------------------- MODULE HalKey ------------------------------
(***************************************************************************)
(* The key driver hal_key.c: a timer samples the keys, keyStateRead        *)
(* debounces them and tells short presses from long ones, gokitKeyHandle   *)
(* calls the callbacks of every key in the pattern it returns.             *)
(*                                                                         *)
(* The machine compares whole patterns of keys, so two keys pressed        *)
(* together influence each other.  The environment presses and releases    *)
(* any key at any time between two timer ticks.                            *)
(***************************************************************************)
EXTENDS Integers, FiniteSets

CONSTANTS
  Keys,     \* the keys, at most KEY_MAX_NUMBER
  Divider,  \* timer ticks per sample: DEBOUNCE_TIME / KEY_TIMER_MS
  LongCount \* samples of a long press: PRESS_LONG_TIME / DEBOUNCE_TIME

ASSUME KeyAssumption ==
  /\ IsFiniteSet(Keys) /\ Cardinality(Keys) <= 12
  /\ Divider \in Nat \ {0} /\ LongCount \in Nat \ {0}

VARIABLES
  (* the program *)
  keyCountTime, Key_State, Key_Prev, Key_LongCheck,
  (* the environment *)
  down,         \* keys held
  (* history, read by no action *)
  short, long,  \* keys whose callback the last gokitKeyHandle has called
  seen,         \* successive samples, up to the last, that saw a key down
  calls,        \* callbacks of a key since a sample first saw it down, up to 2
  mixed         \* a sample saw two keys at once since one saw none

history == <<short, long, seen, calls, mixed>>
vars == <<keyCountTime, Key_State, Key_Prev, Key_LongCheck, down, history>>

-----------------------------------------------------------------------------

Init ==
  /\ keyCountTime = 0 /\ Key_State = "idle" /\ Key_Prev = {} /\ Key_LongCheck = 0
  /\ down = {}
  /\ short = {} /\ long = {} /\ mixed = FALSE
  /\ seen = [k \in Keys |-> 0] /\ calls = [k \in Keys |-> 0]

Press(k) ==
  /\ k \notin down
  /\ down' = down \cup {k}
  /\ UNCHANGED <<keyCountTime, Key_State, Key_Prev, Key_LongCheck, history>>

Release(k) ==
  /\ k \in down
  /\ down' = down \ {k}
  /\ UNCHANGED <<keyCountTime, Key_State, Key_Prev, Key_LongCheck, history>>

\* A tick of the key timer between two samples.
BetweenSamples ==
  /\ keyCountTime + 1 < Divider
  /\ keyCountTime' = keyCountTime + 1
  /\ short' = {} /\ long' = {}
  /\ UNCHANGED <<Key_State, Key_Prev, Key_LongCheck, down, seen, calls, mixed>>

\* A tick that samples the keys.
Sample ==
  /\ keyCountTime + 1 >= Divider
  /\ keyCountTime' = 0
  /\ UNCHANGED down
  /\ seen' = [k \in Keys |-> IF k \notin down THEN 0
                             ELSE IF seen[k] < LongCount + 2 THEN seen[k] + 1 ELSE seen[k]]
  /\ mixed' = (down # {} /\ (mixed \/ Cardinality(down) > 1))

\* gokitKeyHandle calls the short callbacks of s and the long ones of l.
Call(s, l) ==
  /\ short' = s /\ long' = l
  /\ calls' = [k \in Keys |-> IF k \in down /\ seen[k] = 0 THEN 0
                              ELSE IF k \in s \cup l /\ calls[k] < 2 THEN calls[k] + 1
                              ELSE calls[k]]

\* The four states of keyStateRead.  First capture:
Capture ==
  /\ Sample /\ Key_State = "idle"
  /\ IF down # {} THEN Key_Prev' = down /\ Key_State' = "captured"
                  ELSE UNCHANGED <<Key_Prev, Key_State>>
  /\ Call({}, {})
  /\ UNCHANGED Key_LongCheck

\* the second sample confirms the pattern, or it was a bounce;
Confirm ==
  /\ Sample /\ Key_State = "captured"
  /\ Key_State' = IF down = Key_Prev THEN "held" ELSE "idle"
  /\ Call({}, {})
  /\ UNCHANGED <<Key_Prev, Key_LongCheck>>

\* Mutant of ShortPress: Key_LongCheck is not reset.
ShortPress_KeepsCount ==
  /\ Sample /\ Key_State = "held" /\ down # Key_Prev
  /\ Key_State' = "idle"
  /\ Call(Key_Prev, {})
  /\ UNCHANGED <<Key_Prev, Key_LongCheck>>

\* the pattern changes before its time is up: a short press of its keys;
ShortPress ==
  /\ Sample /\ Key_State = "held" /\ down # Key_Prev
  /\ Key_State' = "idle" /\ Key_LongCheck' = 0
  /\ Call(Key_Prev, {})
  /\ UNCHANGED Key_Prev

\* it stays, and counts;
Hold ==
  /\ Sample /\ Key_State = "held" /\ down = Key_Prev
  /\ Key_LongCheck + 1 < LongCount
  /\ Key_LongCheck' = Key_LongCheck + 1
  /\ Call({}, {})
  /\ UNCHANGED <<Key_State, Key_Prev>>

\* Mutant of LongPress: the state that waits for the release is skipped.
LongPress_Restarts ==
  /\ Sample /\ Key_State = "held" /\ down = Key_Prev
  /\ Key_LongCheck + 1 >= LongCount
  /\ Key_LongCheck' = 0 /\ Key_State' = "idle"
  /\ Call({}, down)
  /\ UNCHANGED Key_Prev

\* it has stayed long enough: a long press of its keys;
LongPress ==
  /\ Sample /\ Key_State = "held" /\ down = Key_Prev
  /\ Key_LongCheck + 1 >= LongCount
  /\ Key_LongCheck' = 0 /\ Key_State' = "spent"
  /\ Call({}, down)
  /\ UNCHANGED Key_Prev

\* after a long press, wait for the pattern to change.
Restore ==
  /\ Sample /\ Key_State = "spent"
  /\ Key_State' = IF down # Key_Prev THEN "idle" ELSE "spent"
  /\ Call({}, {})
  /\ UNCHANGED <<Key_Prev, Key_LongCheck>>

gokitKeyHandle == BetweenSamples \/ Capture \/ Confirm \/ ShortPress \/ Hold \/ LongPress \/ Restore

Next == gokitKeyHandle \/ \E k \in Keys : Press(k) \/ Release(k)

Spec == Init /\ [][Next]_vars

\* The timer keeps firing; nobody has to press anything.
FairSpec == Spec /\ WF_vars(gokitKeyHandle)

-----------------------------------------------------------------------------

TypeOK ==
  /\ keyCountTime \in 0 .. Divider - 1
  /\ Key_State \in {"idle", "captured", "held", "spent"}
  /\ Key_Prev \subseteq Keys /\ Key_LongCheck \in 0 .. LongCount - 1
  /\ down \subseteq Keys /\ short \subseteq Keys /\ long \subseteq Keys
  /\ seen \in [Keys -> 0 .. LongCount + 2] /\ calls \in [Keys -> 0 .. 2] /\ mixed \in BOOLEAN

\* No callback is early, whatever presses came before.  A short one needs two
\* successive samples that saw the key down, also when it is pressed together
\* with others; a long one needs all samples of the last LongCount + 1 periods.
CallbacksEarned ==
  [][/\ \A k \in short' \ short : seen[k] >= 2
     /\ \A k \in long' \ long : seen'[k] >= LongCount + 2]_vars

\* One press of a key gets one callback, short or long, unless another key was
\* down with it at some sample: keys that are not pressed together do not
\* disturb each other.
OncePerPress == [][\A k \in (short' \ short) \cup (long' \ long) : mixed \/ calls[k] = 0]_vars

\* A pattern that is held gets its long press in the end, with no further one,
\* and when all keys are left alone the machine is ready for the next press.
PatternSettles ==
  \A K \in SUBSET Keys :
    <>[](down = K)
      => IF K = {} THEN <>[](Key_State = "idle") ELSE <>[](Key_State = "spent" /\ Key_Prev = K)

=============================================================================
