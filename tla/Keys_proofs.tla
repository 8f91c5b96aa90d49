---------------------------- MODULE Keys_proofs -----------------------------
(***************************************************************************)
(* The two key drivers, for any set of keys.  The sampled one: any debouncing *)
(* divider and any length of a long press.  The interrupt-driven one: no key *)
(* goes dead, none falls out of step but by the race its driver leaves open, *)
(* and no bouncing multiplies callbacks.                                   *)
(***************************************************************************)
EXTENDS HalKey, KeyIntr, FiniteSetTheorems, TLAPS

-----------------------------------------------------------------------------
(* hal_key.c                                                               *)

\* The pattern of the last sample.
LastPattern == {k \in Keys : seen[k] > 0}

\* While a pattern is followed it is the last one sampled.
Follows == Key_State # "idle" => Key_Prev = LastPattern

\* A followed pattern has been seen often enough for what it counts as, and
\* the count is cleared outside the state that counts.
LongEnough ==
  /\ Key_State = "captured" => \A k \in Key_Prev : seen[k] >= 1
  /\ Key_State = "held" => \A k \in Key_Prev : seen[k] >= Key_LongCheck + 2
  /\ Key_State # "held" => Key_LongCheck = 0

\* Without two keys pressed together at most one key is in the last pattern,
\* and until a long press is recognised that one has had no callback.
Alone ==
  ~mixed =>
    /\ \A a, b \in LastPattern : a = b
    /\ Key_State # "spent" => \A k \in LastPattern : calls[k] = 0

KeyInv == TypeOK /\ Follows /\ LongEnough /\ Alone

-----------------------------------------------------------------------------

\* A set with no more than one element has no two.
LEMMA AtMostOne ==
  ASSUME NEW S, IsFiniteSet(S), ~(Cardinality(S) > 1), NEW a \in S, NEW b \in S
  PROVE  a = b
<1> SUFFICES ASSUME a # b PROVE FALSE
  OBVIOUS
<1>1. Cardinality(S) \in Nat /\ IsFiniteSet(S \ {a}) /\ Cardinality(S \ {a}) = Cardinality(S) - 1
  BY FS_CardinalityType, FS_RemoveElement
<1>2. Cardinality(S \ {a}) \in Nat /\ Cardinality(S \ {a}) # 0
  BY <1>1, FS_CardinalityType, FS_EmptySet
<1> QED
  BY <1>1, <1>2

\* keyParaInit starts with no key down and no callback made.
LEMMA InitInv == Init => KeyInv
<1> SUFFICES ASSUME Init PROVE KeyInv
  OBVIOUS
<1>1. TypeOK
  <2>1. 0 \in 0 .. Divider - 1 /\ 0 \in 0 .. LongCount - 1 /\ 0 \in 0 .. LongCount + 2
    BY KeyAssumption
  <2>2. seen \in [Keys -> 0 .. LongCount + 2] /\ calls \in [Keys -> 0 .. 2]
    BY <2>1 DEF Init
  <2> QED
    BY <2>1, <2>2 DEF Init, TypeOK
<1>2. LastPattern = {}
  BY DEF Init, LastPattern
<1> QED
  BY <1>1, <1>2 DEF Init, KeyInv, Follows, LongEnough, Alone

\* What a sample does to the environment's history, whatever the machine does.
LEMMA SampleFacts ==
  ASSUME KeyInv, Sample
  PROVE  /\ down' = down /\ down' \subseteq Keys
         /\ keyCountTime' \in 0 .. Divider - 1
         /\ seen' \in [Keys -> 0 .. LongCount + 2] /\ mixed' \in BOOLEAN
         /\ LastPattern' = down
         /\ \A k \in down : seen'[k] >= seen[k] /\ seen'[k] >= 1
         /\ \A k \in down : seen[k] < LongCount + 2 => seen'[k] = seen[k] + 1
         /\ ~mixed' => \A a, b \in down : a = b
         /\ ~mixed' /\ down # {} => ~mixed
<1>1. /\ down' = down /\ down \subseteq Keys /\ seen \in [Keys -> 0 .. LongCount + 2]
      /\ keyCountTime' = 0 /\ mixed' \in BOOLEAN
  BY DEF KeyInv, TypeOK, Sample
<1>2. \A k \in Keys : seen'[k] = IF k \notin down THEN 0
                        ELSE IF seen[k] < LongCount + 2 THEN seen[k] + 1 ELSE seen[k]
  BY DEF Sample
<1>3. seen' \in [Keys -> 0 .. LongCount + 2]
  BY <1>1, KeyAssumption DEF Sample
<1>4. \A k \in down : seen'[k] >= seen[k] /\ seen'[k] >= 1
  BY <1>1, <1>2, KeyAssumption
<1>5. LastPattern' = down
  BY <1>1, <1>2, <1>4 DEF LastPattern
<1>6. ~mixed' => \A a, b \in down : a = b
  <2>1. IsFiniteSet(down)
    BY <1>1, KeyAssumption, FS_Subset
  <2>2. ~mixed' => down = {} \/ ~(Cardinality(down) > 1)
    BY DEF Sample
  <2> QED
    BY <2>1, <2>2, AtMostOne
<1>7. ~mixed' /\ down # {} => ~mixed
  BY DEF Sample
<1> QED
  BY <1>1, <1>2, <1>3, <1>4, <1>5, <1>6, <1>7, KeyAssumption

\* What the callbacks do to their history.
LEMMA CallFacts ==
  ASSUME KeyInv, NEW s \in SUBSET Keys, NEW l \in SUBSET Keys, Call(s, l)
  PROVE  /\ short' \subseteq Keys /\ long' \subseteq Keys
         /\ calls' \in [Keys -> 0 .. 2]
         /\ \A k \in down : seen[k] = 0 => calls'[k] = 0
         /\ \A k \in Keys \ (s \cup l) : calls[k] = 0 => calls'[k] = 0
BY DEF KeyInv, TypeOK, Call

\* A sample after which the machine is idle or has captured a pattern: the
\* keys that are down have had no callback, if they were not pressed together.
LEMMA Quiet ==
  ASSUME KeyInv, Sample, NEW s \in SUBSET Keys, Call(s, {}),
         ~mixed', Key_State = "idle" => s = {}, Key_State # "idle" => down # Key_Prev,
         Key_State # "idle" => s \subseteq Key_Prev, NEW k \in down
  PROVE  calls'[k] = 0
<1>1. ~mixed /\ k \in Keys /\ {} \in SUBSET Keys /\ down # {}
  BY SampleFacts DEF KeyInv, TypeOK
<1>2. CASE seen[k] = 0
  BY <1>2, <1>1, CallFacts
<1>3. CASE seen[k] # 0
  <2>1. k \in LastPattern
    BY <1>1, <1>3 DEF LastPattern, KeyInv, TypeOK
  <2>2. Key_State = "idle"
    <3> SUFFICES ASSUME Key_State # "idle" PROVE FALSE
      OBVIOUS
    <3>1. Key_Prev = LastPattern /\ down # Key_Prev
      BY DEF KeyInv, Follows
    <3>2. Key_Prev = {k}
      BY <3>1, <2>1, <1>1 DEF KeyInv, Alone
    <3>3. down = {k}
      BY SampleFacts
    <3> QED
      BY <3>1, <3>2, <3>3
  <2>3. calls[k] = 0
    BY <2>1, <2>2, <1>1 DEF KeyInv, Alone
  <2> QED
    BY <2>2, <2>3, <1>1, CallFacts
<1> QED
  BY <1>2, <1>3

-----------------------------------------------------------------------------

\* Every 10 ms tick and every press or release keeps the invariant.
LEMMA StepInv == KeyInv /\ [Next]_vars => KeyInv'
<1> SUFFICES ASSUME KeyInv, [Next]_vars PROVE KeyInv'
  OBVIOUS
<1> USE KeyAssumption
<1>e. {} \in SUBSET Keys /\ Key_Prev \in SUBSET Keys /\ down \in SUBSET Keys
  BY DEF KeyInv, TypeOK
<1>f. Call({}, {}) => \A k \in down : calls[k] = 0 => calls'[k] = 0
  BY <1>e, CallFacts
<1>1. ASSUME NEW k \in Keys, Press(k) \/ Release(k) PROVE KeyInv'
  BY <1>1 DEF Press, Release, history, KeyInv, TypeOK, Follows, LongEnough, Alone, LastPattern
<1>2. CASE BetweenSamples
  BY <1>2 DEF BetweenSamples, KeyInv, TypeOK, Follows, LongEnough, Alone, LastPattern
<1>3. CASE Capture
  <2>1. Sample /\ Key_State = "idle" /\ Call({}, {}) /\ Key_LongCheck' = Key_LongCheck
        /\ IF down # {} THEN Key_Prev' = down /\ Key_State' = "captured"
                        ELSE UNCHANGED <<Key_Prev, Key_State>>
    BY <1>3 DEF Capture
  <2>2. ~mixed' => \A k \in down : calls'[k] = 0
    BY <2>1, <1>e, Quiet
  <2>3. TypeOK'
    BY <2>1, <1>e, SampleFacts, CallFacts DEF KeyInv, TypeOK
  <2>4. Follows' /\ LongEnough' /\ Alone'
    BY <2>1, <2>2, SampleFacts DEF KeyInv, LongEnough, Follows, Alone
  <2> QED
    BY <2>3, <2>4 DEF KeyInv
<1>4. CASE Confirm
  <2>1. Sample /\ Key_State = "captured" /\ Call({}, {}) /\ Key_LongCheck' = Key_LongCheck
        /\ Key_State' = (IF down = Key_Prev THEN "held" ELSE "idle") /\ Key_Prev' = Key_Prev
    BY <1>4 DEF Confirm
  <2>2. ~mixed' => \A k \in down : calls'[k] = 0
    <3>1. CASE down = Key_Prev
      <4>1. down = LastPattern
        BY <2>1, <3>1 DEF KeyInv, Follows
      <4>2. ~mixed' => \A k \in down : calls[k] = 0
        BY <4>1, <2>1, SampleFacts DEF KeyInv, Alone
      <4> QED
        BY <4>2, <2>1, <1>f
    <3>2. CASE down # Key_Prev
      BY <3>2, <2>1, <1>e, Quiet
    <3> QED
      BY <3>1, <3>2
  <2>3. TypeOK'
    BY <2>1, <1>e, SampleFacts, CallFacts DEF KeyInv, TypeOK
  <2>4. Follows' /\ Alone'
    BY <2>1, <2>2, SampleFacts DEF Follows, Alone
  <2>5. LongEnough'
    <3>1. Key_LongCheck' = 0
      BY <2>1 DEF KeyInv, LongEnough
    <3>2. down = Key_Prev => \A k \in Key_Prev : seen'[k] >= 2
      BY <2>1, <1>e, SampleFacts DEF KeyInv, LongEnough, TypeOK
    <3> QED
      BY <2>1, <3>1, <3>2 DEF LongEnough
  <2> QED
    BY <2>3, <2>4, <2>5 DEF KeyInv
<1>5. CASE ShortPress
  <2>1. Sample /\ Key_State = "held" /\ down # Key_Prev /\ Call(Key_Prev, {})
        /\ Key_LongCheck' = 0 /\ Key_State' = "idle" /\ Key_Prev' = Key_Prev
    BY <1>5 DEF ShortPress
  <2>2. ~mixed' => \A k \in down : calls'[k] = 0
    BY <2>1, <1>e, Quiet
  <2>3. TypeOK'
    BY <2>1, <1>e, SampleFacts, CallFacts DEF KeyInv, TypeOK
  <2>4. Follows' /\ LongEnough' /\ Alone'
    BY <2>1, <2>2, SampleFacts DEF LongEnough, Follows, Alone
  <2> QED
    BY <2>3, <2>4 DEF KeyInv
<1>6. CASE Hold
  <2>1. Sample /\ Key_State = "held" /\ down = Key_Prev /\ Call({}, {})
        /\ Key_LongCheck + 1 < LongCount /\ Key_LongCheck' = Key_LongCheck + 1
        /\ Key_State' = Key_State /\ Key_Prev' = Key_Prev
    BY <1>6 DEF Hold
  <2>2. ~mixed' => \A k \in down : calls'[k] = 0
    <3>1. down = LastPattern
      BY <2>1 DEF KeyInv, Follows
    <3>2. ~mixed' => \A k \in down : calls[k] = 0
      BY <3>1, <2>1, SampleFacts DEF KeyInv, Alone
    <3> QED
      BY <3>2, <2>1, <1>f
  <2>3. TypeOK'
    BY <2>1, <1>e, SampleFacts, CallFacts DEF KeyInv, TypeOK
  <2>4. Follows' /\ Alone'
    BY <2>1, <2>2, SampleFacts DEF Follows, Alone
  <2>5. LongEnough'
    <3>1. \A k \in Key_Prev : seen'[k] >= Key_LongCheck + 3
      BY <2>1, <1>e, SampleFacts DEF KeyInv, LongEnough, TypeOK
    <3> QED
      BY <2>1, <3>1 DEF LongEnough, KeyInv, TypeOK
  <2> QED
    BY <2>3, <2>4, <2>5 DEF KeyInv
<1>7. CASE LongPress
  <2>1. Sample /\ Key_State = "held" /\ down = Key_Prev /\ Call({}, down)
        /\ Key_LongCheck' = 0 /\ Key_State' = "spent" /\ Key_Prev' = Key_Prev
    BY <1>7 DEF LongPress
  <2>2. TypeOK'
    BY <2>1, <1>e, SampleFacts, CallFacts DEF KeyInv, TypeOK
  <2>3. Follows' /\ LongEnough' /\ Alone'
    BY <2>1, SampleFacts DEF LongEnough, Follows, Alone
  <2> QED
    BY <2>2, <2>3 DEF KeyInv
<1>8. CASE Restore
  <2>1. Sample /\ Key_State = "spent" /\ Call({}, {}) /\ Key_LongCheck' = Key_LongCheck
        /\ Key_State' = (IF down # Key_Prev THEN "idle" ELSE "spent") /\ Key_Prev' = Key_Prev
    BY <1>8 DEF Restore
  <2>2. ~mixed' /\ down # Key_Prev => \A k \in down : calls'[k] = 0
    BY <2>1, <1>e, Quiet
  <2>3. TypeOK'
    BY <2>1, <1>e, SampleFacts, CallFacts DEF KeyInv, TypeOK
  <2>4. Follows' /\ LongEnough' /\ Alone'
    BY <2>1, <2>2, SampleFacts DEF KeyInv, LongEnough, Follows, Alone
  <2> QED
    BY <2>3, <2>4 DEF KeyInv
<1>9. CASE UNCHANGED vars
  BY <1>9 DEF vars, history, KeyInv, TypeOK, Follows, LongEnough, Alone, LastPattern
<1> QED
  BY <1>1, <1>2, <1>3, <1>4, <1>5, <1>6, <1>7, <1>8, <1>9 DEF Next, gokitKeyHandle

\* The invariant holds for ever.
LEMMA Invariant == Spec => []KeyInv
BY InitInv, StepInv, PTL DEF Spec

-----------------------------------------------------------------------------

\* The key machine keeps its types: the divider and the long press count of
\* keyStateRead stay below their limits.
THEOREM KeysTypeCorrect == Spec => []TypeOK
BY Invariant, PTL DEF KeyInv

\* A short callback comes only for a key sampled down twice.
LEMMA StepDebounced ==
  ASSUME KeyInv, [Next]_vars, NEW k \in short' \ short
  PROVE  seen[k] >= 2
<1>1. Key_State = "held" /\ k \in Key_Prev
  BY DEF Next, gokitKeyHandle, Press, Release, BetweenSamples, Capture, Confirm, ShortPress, Hold, LongPress,
         Restore, Call, vars, history
<1> QED
  BY <1>1 DEF KeyInv, LongEnough, TypeOK

\* A long callback comes only for a key down for the long press count.
LEMMA StepLong ==
  ASSUME KeyInv, [Next]_vars, NEW k \in long' \ long
  PROVE  seen'[k] >= LongCount + 2
<1>1. /\ Sample /\ Key_State = "held" /\ k \in Key_Prev /\ down = Key_Prev
      /\ Key_LongCheck + 1 >= LongCount
  BY DEF Next, gokitKeyHandle, Press, Release, BetweenSamples, Capture, Confirm, ShortPress, Hold, LongPress,
         Restore, Call, vars, history
<1>2. seen[k] >= LongCount + 1 /\ seen[k] \in 0 .. LongCount + 2 /\ Key_LongCheck \in Nat
  BY <1>1, KeyAssumption DEF KeyInv, LongEnough, TypeOK
<1>3. seen[k] < LongCount + 2 => seen'[k] = seen[k] + 1
  BY <1>1, SampleFacts
<1>4. seen'[k] >= seen[k] /\ seen'[k] \in 0 .. LongCount + 2
  BY <1>1, SampleFacts DEF KeyInv, TypeOK
<1> QED
  BY <1>2, <1>3, <1>4, KeyAssumption

\* keyStateRead never reports a short press of a key that two successive
\* samples have not seen down, nor a long press before a key has been down for
\* the whole time of one.
THEOREM NoEarlyCallback == Spec => CallbacksEarned
<1>1. KeyInv /\ [Next]_vars
        => [/\ \A k \in short' \ short : seen[k] >= 2
            /\ \A k \in long' \ long : seen'[k] >= LongCount + 2]_vars
  BY StepDebounced, StepLong
<1> QED
  BY <1>1, Invariant, PTL DEF Spec, CallbacksEarned

\* A key has no second callback in one press, unless it was mixed with others.
LEMMA StepOnce ==
  ASSUME KeyInv, [Next]_vars, NEW k \in (short' \ short) \cup (long' \ long)
  PROVE  mixed \/ calls[k] = 0
<1>1. Key_State = "held" /\ k \in Key_Prev
  BY DEF Next, gokitKeyHandle, Press, Release, BetweenSamples, Capture, Confirm, ShortPress, Hold, LongPress,
         Restore, Call, vars, history
<1> QED
  BY <1>1 DEF KeyInv, Follows, Alone

\* A key that is not pressed together with another gets one callback a press.
THEOREM OneCallbackPerPress == Spec => OncePerPress
<1>1. KeyInv /\ [Next]_vars
        => [\A k \in (short' \ short) \cup (long' \ long) : mixed \/ calls[k] = 0]_vars
  BY StepOnce
<1> QED
  BY <1>1, Invariant, PTL DEF Spec, OncePerPress

-----------------------------------------------------------------------------
(* The interrupt-driven driver.                                            *)

\* A key's interrupt is off exactly while one of the handler, its timer or
\* the timer's callback has the key, and then it is not latched.
OffIsBusy ==
  \A k \in Buttons :
    /\ edge[k] = "off" <=> k \in serving \cup checking \cup key_50ms
    /\ ~(k \in serving /\ k \in checking)
    /\ ~(k \in serving /\ k \in key_50ms)
    /\ ~(k \in checking /\ k \in key_50ms)
    /\ k \in status => edge[k] # "off"

\* The edge waited for and the timer running go with the level.
EdgeOfLevel ==
  \A k \in Buttons :
    /\ edge[k] = "neg" => key_level[k] = 1
    /\ edge[k] = "pos" => key_level[k] = 0
    /\ k \in checking \cup key_50ms => key_level[k] = 0

\* What the driver is about to believe of the pin is so, unless it has raced.
Believed ==
  \A k \in Buttons :
    k \notin raced =>
      /\ k \in status \cup serving /\ key_level[k] = 1 => k \notin up
      /\ k \in checking => (seenUp <=> k \in up)

\* A key that is followed, or about to be, has fallen.
Fallen ==
  \A k \in Buttons :
    key_level[k] = 0 \/ k \in status \cup serving => k \in fell

\* The long press timer of a key runs only before its long callback.
LongAhead == \A k \in Buttons : ~(k \in key_5s /\ k \in longs)

KeyIntrInv ==
  /\ KeyIntrTypeOK /\ OffIsBusy /\ EdgeOfLevel /\ Believed /\ InStep /\ Fallen /\ LongAhead

-----------------------------------------------------------------------------

\* key_init arms every key for its falling edge, with no timer running.
LEMMA KeyIntrInitInv == KeyIntrInit => KeyIntrInv
<1> SUFFICES ASSUME KeyIntrInit PROVE KeyIntrInv
  OBVIOUS
<1>1. KeyIntrTypeOK
  BY DEF KeyIntrInit, KeyIntrTypeOK
<1>2. OffIsBusy /\ EdgeOfLevel
  BY DEF KeyIntrInit, OffIsBusy, EdgeOfLevel
<1>3. Believed /\ InStep /\ Fallen /\ LongAhead
  BY DEF KeyIntrInit, Believed, InStep, Fallen, LongAhead
<1> QED
  BY <1>1, <1>2, <1>3 DEF KeyIntrInv

\* The pin moves: it is latched, or the driver has raced, or nobody is looking.
LEMMA PinChangeInv ==
  ASSUME KeyIntrInv, NEW b \in Buttons, PinChange(b)
  PROVE  KeyIntrInv'
<1>1. KeyIntrTypeOK'
  BY DEF KeyIntrInv, KeyIntrTypeOK, OffIsBusy, EdgeOfLevel, PinChange, handler, check, Latched, Choosing
<1>2. OffIsBusy'
  BY DEF KeyIntrInv, KeyIntrTypeOK, OffIsBusy, EdgeOfLevel, PinChange, handler, check, Latched, Choosing
<1>3. EdgeOfLevel'
  BY DEF KeyIntrInv, KeyIntrTypeOK, OffIsBusy, EdgeOfLevel, PinChange, handler, check, Latched, Choosing
<1>4. Believed'
  BY DEF KeyIntrInv, KeyIntrTypeOK, OffIsBusy, EdgeOfLevel, Believed, InStep, PinChange, handler, check, Latched, Choosing
<1>5. InStep'
  BY DEF KeyIntrInv, KeyIntrTypeOK, OffIsBusy, EdgeOfLevel, InStep, Believed, PinChange, handler, check, Latched, Choosing
<1>6. Fallen'
  BY DEF KeyIntrInv, KeyIntrTypeOK, OffIsBusy, EdgeOfLevel, Fallen, PinChange, handler, check, Latched, Choosing
<1>7. LongAhead'
  BY DEF KeyIntrInv, KeyIntrTypeOK, LongAhead, PinChange, handler, check, Latched, Choosing
<1> QED
  BY <1>1, <1>2, <1>3, <1>4, <1>5, <1>6, <1>7 DEF KeyIntrInv

\* The handler reads which keys have an interrupt.
LEMMA ReadStatusInv ==
  ASSUME KeyIntrInv, ReadStatus
  PROVE  KeyIntrInv'
<1>1. KeyIntrTypeOK'
  BY DEF KeyIntrInv, KeyIntrTypeOK, OffIsBusy, EdgeOfLevel, ReadStatus, handler, check, InHandler
<1>2. OffIsBusy'
  BY DEF KeyIntrInv, KeyIntrTypeOK, OffIsBusy, EdgeOfLevel, ReadStatus, handler, check, InHandler
<1>3. EdgeOfLevel'
  BY DEF KeyIntrInv, KeyIntrTypeOK, OffIsBusy, EdgeOfLevel, ReadStatus, handler, check, InHandler
<1>4. Believed'
  BY DEF KeyIntrInv, KeyIntrTypeOK, OffIsBusy, EdgeOfLevel, Believed, InStep, ReadStatus, handler, check, InHandler
<1>5. InStep'
  BY DEF KeyIntrInv, KeyIntrTypeOK, OffIsBusy, EdgeOfLevel, InStep, Believed, ReadStatus, handler, check, InHandler
<1>6. Fallen'
  BY DEF KeyIntrInv, KeyIntrTypeOK, OffIsBusy, EdgeOfLevel, Fallen, ReadStatus, handler, check, InHandler
<1>7. LongAhead'
  BY DEF KeyIntrInv, KeyIntrTypeOK, LongAhead, ReadStatus, handler, check, InHandler
<1> QED
  BY <1>1, <1>2, <1>3, <1>4, <1>5, <1>6, <1>7 DEF KeyIntrInv

\* It turns one off.
LEMMA ServeBeginInv ==
  ASSUME KeyIntrInv, NEW b \in Buttons, ServeBegin(b)
  PROVE  KeyIntrInv'
<1>1. KeyIntrTypeOK'
  BY DEF KeyIntrInv, KeyIntrTypeOK, OffIsBusy, EdgeOfLevel, ServeBegin, handler, check
<1>2. OffIsBusy'
  BY DEF KeyIntrInv, KeyIntrTypeOK, OffIsBusy, EdgeOfLevel, ServeBegin, handler, check
<1>3. EdgeOfLevel'
  BY DEF KeyIntrInv, KeyIntrTypeOK, OffIsBusy, EdgeOfLevel, ServeBegin, handler, check
<1>4. Believed'
  BY DEF KeyIntrInv, KeyIntrTypeOK, OffIsBusy, EdgeOfLevel, Believed, InStep, ServeBegin, handler, check
<1>5. InStep'
  BY DEF KeyIntrInv, KeyIntrTypeOK, OffIsBusy, EdgeOfLevel, InStep, Believed, ServeBegin, handler, check
<1>6. Fallen'
  BY DEF KeyIntrInv, KeyIntrTypeOK, OffIsBusy, EdgeOfLevel, Fallen, ServeBegin, handler, check
<1>7. LongAhead'
  BY DEF KeyIntrInv, KeyIntrTypeOK, LongAhead, ServeBegin, handler, check
<1> QED
  BY <1>1, <1>2, <1>3, <1>4, <1>5, <1>6, <1>7 DEF KeyIntrInv

\* It turns it on for the other edge, or leaves it to the timer.
LEMMA ServeEndInv ==
  ASSUME KeyIntrInv, NEW b \in Buttons, ServeEnd(b)
  PROVE  KeyIntrInv'
<1>1. KeyIntrTypeOK'
  BY DEF KeyIntrInv, KeyIntrTypeOK, OffIsBusy, EdgeOfLevel, ServeEnd, handler, check, Pressed
<1>2. OffIsBusy'
  BY DEF KeyIntrInv, KeyIntrTypeOK, OffIsBusy, EdgeOfLevel, ServeEnd, handler, check, Pressed
<1>3. EdgeOfLevel'
  BY DEF KeyIntrInv, KeyIntrTypeOK, OffIsBusy, EdgeOfLevel, ServeEnd, handler, check, Pressed
<1>4. Believed'
  BY DEF KeyIntrInv, KeyIntrTypeOK, OffIsBusy, EdgeOfLevel, Believed, InStep, ServeEnd, handler, check, Pressed
<1>5. InStep'
  BY DEF KeyIntrInv, KeyIntrTypeOK, OffIsBusy, EdgeOfLevel, InStep, Believed, ServeEnd, handler, check, Pressed
<1>6. Fallen'
  BY DEF KeyIntrInv, KeyIntrTypeOK, OffIsBusy, EdgeOfLevel, Fallen, ServeEnd, handler, check, Pressed
<1>7. LongAhead'
  BY DEF KeyIntrInv, KeyIntrTypeOK, LongAhead, ServeEnd, handler, check, Pressed
<1> QED
  BY <1>1, <1>2, <1>3, <1>4, <1>5, <1>6, <1>7 DEF KeyIntrInv

\* The long press timer goes off.
LEMMA Key_5s_cbInv ==
  ASSUME KeyIntrInv, NEW b \in Buttons, key_5s_cb(b)
  PROVE  KeyIntrInv'
<1>1. KeyIntrTypeOK'
  BY DEF KeyIntrInv, KeyIntrTypeOK, OffIsBusy, EdgeOfLevel, key_5s_cb, handler, check, InHandler
<1>2. OffIsBusy'
  BY DEF KeyIntrInv, KeyIntrTypeOK, OffIsBusy, EdgeOfLevel, key_5s_cb, handler, check, InHandler
<1>3. EdgeOfLevel'
  BY DEF KeyIntrInv, KeyIntrTypeOK, OffIsBusy, EdgeOfLevel, key_5s_cb, handler, check, InHandler
<1>4. Believed'
  BY DEF KeyIntrInv, KeyIntrTypeOK, OffIsBusy, EdgeOfLevel, Believed, InStep, key_5s_cb, handler, check, InHandler
<1>5. InStep'
  BY DEF KeyIntrInv, KeyIntrTypeOK, OffIsBusy, EdgeOfLevel, InStep, Believed, key_5s_cb, handler, check, InHandler
<1>6. Fallen'
  BY DEF KeyIntrInv, KeyIntrTypeOK, OffIsBusy, EdgeOfLevel, Fallen, key_5s_cb, handler, check, InHandler
<1>7. LongAhead'
  BY DEF KeyIntrInv, KeyIntrTypeOK, LongAhead, key_5s_cb, handler, check, InHandler
<1> QED
  BY <1>1, <1>2, <1>3, <1>4, <1>5, <1>6, <1>7 DEF KeyIntrInv

\* The release timer goes off, and its callback looks at the pin.
LEMMA CheckBeginInv ==
  ASSUME KeyIntrInv, NEW b \in Buttons, CheckBegin(b)
  PROVE  KeyIntrInv'
<1>1. KeyIntrTypeOK'
  BY DEF KeyIntrInv, KeyIntrTypeOK, OffIsBusy, EdgeOfLevel, CheckBegin, handler, check, InHandler
<1>2. OffIsBusy'
  BY DEF KeyIntrInv, KeyIntrTypeOK, OffIsBusy, EdgeOfLevel, CheckBegin, handler, check, InHandler
<1>3. EdgeOfLevel'
  BY DEF KeyIntrInv, KeyIntrTypeOK, OffIsBusy, EdgeOfLevel, CheckBegin, handler, check, InHandler
<1>4. Believed'
  BY DEF KeyIntrInv, KeyIntrTypeOK, OffIsBusy, EdgeOfLevel, Believed, InStep, CheckBegin, handler, check, InHandler
<1>5. InStep'
  BY DEF KeyIntrInv, KeyIntrTypeOK, OffIsBusy, EdgeOfLevel, InStep, Believed, CheckBegin, handler, check, InHandler
<1>6. Fallen'
  BY DEF KeyIntrInv, KeyIntrTypeOK, OffIsBusy, EdgeOfLevel, Fallen, CheckBegin, handler, check, InHandler
<1>7. LongAhead'
  BY DEF KeyIntrInv, KeyIntrTypeOK, LongAhead, CheckBegin, handler, check, InHandler
<1> QED
  BY <1>1, <1>2, <1>3, <1>4, <1>5, <1>6, <1>7 DEF KeyIntrInv

\* It turns the interrupt on for the edge that comes next.
LEMMA CheckEndInv ==
  ASSUME KeyIntrInv, NEW b \in Buttons, CheckEnd(b)
  PROVE  KeyIntrInv'
<1>1. KeyIntrTypeOK'
  BY DEF KeyIntrInv, KeyIntrTypeOK, OffIsBusy, EdgeOfLevel, CheckEnd, handler, check, InHandler
<1>2. OffIsBusy'
  BY DEF KeyIntrInv, KeyIntrTypeOK, OffIsBusy, EdgeOfLevel, CheckEnd, handler, check, InHandler
<1>3. EdgeOfLevel'
  BY DEF KeyIntrInv, KeyIntrTypeOK, OffIsBusy, EdgeOfLevel, CheckEnd, handler, check, InHandler
<1>4. Believed'
  BY DEF KeyIntrInv, KeyIntrTypeOK, OffIsBusy, EdgeOfLevel, Believed, InStep, CheckEnd, handler, check, InHandler
<1>5. InStep'
  BY DEF KeyIntrInv, KeyIntrTypeOK, OffIsBusy, EdgeOfLevel, InStep, Believed, CheckEnd, handler, check, InHandler
<1>6. Fallen'
  BY DEF KeyIntrInv, KeyIntrTypeOK, OffIsBusy, EdgeOfLevel, Fallen, CheckEnd, handler, check, InHandler
<1>7. LongAhead'
  BY DEF KeyIntrInv, KeyIntrTypeOK, LongAhead, CheckEnd, handler, check, InHandler
<1> QED
  BY <1>1, <1>2, <1>3, <1>4, <1>5, <1>6, <1>7 DEF KeyIntrInv

\* Every move of a pin, interrupt and timer keeps the invariant.
LEMMA KeyIntrStepInv == KeyIntrInv /\ [KeyIntrNext]_KeyIntrVars => KeyIntrInv'
<1> SUFFICES ASSUME KeyIntrInv, [KeyIntrNext]_KeyIntrVars PROVE KeyIntrInv'
  OBVIOUS
<1>1. CASE ReadStatus
  BY <1>1, ReadStatusInv
<1>2. ASSUME NEW b \in Buttons, ServeBegin(b) \/ ServeEnd(b) PROVE KeyIntrInv'
  BY <1>2, ServeBeginInv, ServeEndInv
<1>3. ASSUME NEW b \in Buttons, PinChange(b) \/ key_5s_cb(b) PROVE KeyIntrInv'
  BY <1>3, PinChangeInv, Key_5s_cbInv
<1>4. ASSUME NEW b \in Buttons, key_50ms_cb(b) PROVE KeyIntrInv'
  BY <1>4, CheckBeginInv, CheckEndInv DEF key_50ms_cb
<1>5. CASE UNCHANGED KeyIntrVars
  BY <1>5 DEF KeyIntrVars, handler, check, KeyIntrInv, KeyIntrTypeOK, OffIsBusy, EdgeOfLevel,
     Believed, InStep, Fallen, LongAhead
<1> QED
  BY <1>1, <1>2, <1>3, <1>4, <1>5 DEF KeyIntrNext, key_intr_handler

\* The invariant holds for ever.
LEMMA KeyIntrInvariant == KeyIntrSpec => []KeyIntrInv
<1> QED
  BY KeyIntrInitInv, KeyIntrStepInv, PTL DEF KeyIntrSpec

\* The variables stay in their types; in particular the handler only serves
\* keys whose interrupt is still latched, and one at a time (key.c:132-161).
THEOREM KeyIntrTypeCorrect == KeyIntrSpec => []KeyIntrTypeOK
<1>1. KeyIntrInv => KeyIntrTypeOK
  BY DEF KeyIntrInv
<1> QED
  BY <1>1, KeyIntrInvariant, PTL

\* Every key whose interrupt is off is about to have it turned on, whatever
\* the handler interrupts (key.c:107-161).
THEOREM NoKeyDies == KeyIntrSpec => []KeyAlive
<1>1. KeyIntrInv => KeyAlive
  BY DEF KeyIntrInv, OffIsBusy, KeyAlive
<1> QED
  BY <1>1, KeyIntrInvariant, PTL

\* A key waits for the wrong edge only after its pin changed between the
\* driver's look at it and its choice of the edge (key.c:112-124, 146-159).
THEOREM StaysInStep == KeyIntrSpec => []InStep
<1>1. KeyIntrInv => InStep
  BY DEF KeyIntrInv
<1> QED
  BY <1>1, KeyIntrInvariant, PTL

\* Between two short callbacks of a key its pin has fallen (key.c:107-124), and
\* a press has one long callback at the most (key.c:88-99, 146-153).
THEOREM NoExtraCallbacks == KeyIntrSpec => CallbacksOnce
<1>1. KeyIntrInv =>
        [\A k \in Buttons : k \in checking /\ k \notin checking' /\ seenUp => k \in fell]_KeyIntrVars
  BY DEF KeyIntrInv, KeyIntrTypeOK, EdgeOfLevel, Fallen
<1>2. KeyIntrInv =>
        [\A k \in Buttons : key_5s_cb(k) /\ k \notin up => k \notin longs]_KeyIntrVars
  BY DEF KeyIntrInv, LongAhead, key_5s_cb
<1>3. KeyIntrInv =>
        [\A k \in Buttons :
           /\ k \in checking /\ k \notin checking' /\ seenUp => k \in fell
           /\ key_5s_cb(k) /\ k \notin up => k \notin longs]_KeyIntrVars
  BY <1>1, <1>2
<1> QED
  BY <1>3, KeyIntrInvariant, PTL DEF CallbacksOnce
=============================================================================
