-------------------------- MODULE EventLoop_proofs -------------------------
(***************************************************************************)
(* The closed form GizEvents gives for gizwitsEventProcess is what its     *)
(* loop computes, on every list of events and all data.                    *)
(*                                                                         *)
(* The invariant is the closed form applied to the events handled so far.  *)
(* One thing has to be added to make it inductive: if any of those events  *)
(* drives the light there is a last one that does, so that the CHOOSE in   *)
(* ColourAfter picks it.                                                   *)
(***************************************************************************)
EXTENDS EventLoop, SequenceTheorems, TLAPS

\* k is the last position of events whose event drives the light.
LastLed(k, events, dp) ==
  /\ k \in DOMAIN events /\ DrivesLed(events[k], dp)
  /\ \A j \in DOMAIN events : j > k => ~DrivesLed(events[j], dp)

LoopTypeOK ==
  /\ info \in Seq(Events) /\ data \in [Writable -> Int]
  /\ i \in 0 .. Len(info)
  /\ entry.points \in [DataPoints -> Int]

SomeLast ==
  (\E j \in DOMAIN Handled : DrivesLed(Handled[j], points)) => \E k : LastLed(k, Handled, points)

LoopInv == LoopTypeOK /\ LoopMeetsClosedForm /\ SomeLast

-----------------------------------------------------------------------------

\* ColourAfter is the colour of the last event that drives the light.
LEMMA ColourOfLast ==
  ASSUME NEW S, NEW events \in Seq(S), NEW d, NEW dp, NEW colour,
         NEW k, LastLed(k, events, PointsAfter(events, d, dp))
  PROVE  ColourAfter(events, d, dp, colour)
           = LedColour(events[k], PointsAfter(events, d, dp))
<1> DEFINE after   == PointsAfter(events, d, dp)
           last(n) == /\ DrivesLed(events[n], after)
                      /\ \A j \in DOMAIN events : j > n => ~DrivesLed(events[j], after)
<1>1. k \in DOMAIN events /\ last(k)
  BY DEF LastLed
<1>2. DOMAIN events \subseteq Int
  OBVIOUS
<1> HIDE DEF after
<1>3. \A n \in DOMAIN events : last(n) => n = k
  BY <1>1, <1>2
<1>4. (CHOOSE n \in DOMAIN events : last(n)) = k
  BY <1>1, <1>3
<1> QED
  BY <1>1, <1>4 DEF ColourAfter, after

\* Without such an event the light is left alone.
LEMMA ColourOfNone ==
  ASSUME NEW events, NEW d, NEW dp, NEW colour,
         ~ \E j \in DOMAIN events : DrivesLed(events[j], PointsAfter(events, d, dp))
  PROVE  ColourAfter(events, d, dp, colour) = colour
  BY DEF ColourAfter

\* One more event: the prefix grows by it.
LEMMA PrefixGrows ==
  ASSUME NEW s \in Seq(Events), NEW n \in 0 .. Len(s) - 1
  PROVE  /\ SubSeq(s, 1, n) \in Seq(Events) /\ SubSeq(s, 1, n + 1) \in Seq(Events)
         /\ DOMAIN SubSeq(s, 1, n) = 1 .. n
         /\ DOMAIN SubSeq(s, 1, n + 1) = 1 .. n + 1
         /\ \A j \in 1 .. n : SubSeq(s, 1, n)[j] = s[j]
         /\ \A j \in 1 .. n + 1 : SubSeq(s, 1, n + 1)[j] = s[j]
         /\ ToSet(SubSeq(s, 1, n + 1)) = ToSet(SubSeq(s, 1, n)) \cup {s[n + 1]}
<1>1. /\ SubSeq(s, 1, n) \in Seq(Events) /\ Len(SubSeq(s, 1, n)) = n
      /\ SubSeq(s, 1, n + 1) \in Seq(Events) /\ Len(SubSeq(s, 1, n + 1)) = n + 1
      /\ \A j \in 1 .. n : SubSeq(s, 1, n)[j] = s[j]
      /\ \A j \in 1 .. n + 1 : SubSeq(s, 1, n + 1)[j] = s[j]
  OBVIOUS
<1> QED
  BY <1>1, SMTT(60) DEF ToSet

-----------------------------------------------------------------------------

\* The loop starts with no event handled.
LEMMA LoopStarts == LoopInit => LoopInv
<1> SUFFICES ASSUME LoopInit PROVE LoopInv
  OBVIOUS
<1>1. /\ info \in Seq(Events) /\ data \in [Writable -> Int] /\ i = 0
      /\ points \in [DataPoints -> Int]
      /\ entry = [points |-> points, led |-> led, speed |-> speed]
  BY ListAssumption DEF LoopInit
<1>2. Handled = <<>> /\ DOMAIN Handled = {} /\ ToSet(Handled) = {}
  BY <1>1 DEF Handled, ToSet
<1>3. PointsAfter(Handled, data, points) = points
  BY <1>1, <1>2 DEF PointsAfter
<1>4. ColourAfter(Handled, data, points, led) = led
  BY <1>2 DEF ColourAfter
<1>5. MotorAfter(Handled, data, speed) = speed
  BY <1>2 DEF MotorAfter
<1> QED
  BY <1>1, <1>2, <1>3, <1>4, <1>5
     DEF LoopInv, LoopTypeOK, LoopMeetsClosedForm, SomeLast

\* The step: e is appended to the events handled.  If e drives the light it is
\* the last that does; otherwise the last one so far remains the last, and e
\* has not changed any point its colour depends on.
LEMMA LoopStep == LoopInv /\ Iterate => LoopInv'
<1> SUFFICES ASSUME LoopInv, Iterate PROVE LoopInv'
  OBVIOUS
<1> DEFINE e == info[i + 1]
<1>1. /\ info \in Seq(Events) /\ data \in [Writable -> Int]
      /\ i \in 0 .. Len(info) - 1 /\ i' = i + 1
      /\ UNCHANGED <<info, data, entry>> /\ Handle(e)
      /\ e \in Events
      /\ entry.points \in [DataPoints -> Int]
  BY DEF LoopInv, LoopTypeOK, Iterate
<1>2. /\ Handled \in Seq(Events) /\ Handled' \in Seq(Events)
      /\ DOMAIN Handled = 1 .. i /\ DOMAIN Handled' = 1 .. i + 1
      /\ \A j \in 1 .. i : Handled'[j] = Handled[j]
      /\ Handled'[i + 1] = e
      /\ ToSet(Handled') = ToSet(Handled) \cup {e}
  <2>1. Handled = SubSeq(info, 1, i) /\ Handled' = SubSeq(info, 1, i + 1)
    BY <1>1 DEF Handled
  <2>2. e = info[i + 1] /\ i + 1 \in 1 .. i + 1
    BY <1>1
  <2> HIDE DEF e
  <2> DEFINE short == SubSeq(info, 1, i)
             long  == SubSeq(info, 1, i + 1)
  <2>3. /\ short \in Seq(Events) /\ long \in Seq(Events)
        /\ DOMAIN short = 1 .. i /\ DOMAIN long = 1 .. i + 1
        /\ \A j \in 1 .. i : short[j] = info[j]
        /\ \A j \in 1 .. i + 1 : long[j] = info[j]
        /\ ToSet(long) = ToSet(short) \cup {info[i + 1]}
    BY <1>1, PrefixGrows
  <2>4. Handled = short /\ Handled' = long
    BY <2>1
  <2> HIDE DEF short, long
  <2>5. i \in Int /\ \A j \in 1 .. i : j \in 1 .. i + 1
    BY <1>1
  <2>6. (\A j \in 1 .. i : long[j] = short[j]) /\ long[i + 1] = e
    BY <2>2, <2>3, <2>5
  <2> QED
    BY <2>2, <2>3, <2>4, <2>6
<1>3. LoopTypeOK'
  BY <1>1 DEF LoopTypeOK
<1>4. points = PointsAfter(Handled, data, entry.points)
  BY DEF LoopInv, LoopMeetsClosedForm
<1>5. points' = PointsAfter(Handled', data, entry.points)
  BY <1>1, <1>2, <1>4 DEF Handle, PointsAfter, DataPoints, Immediate
<1>6. speed' = MotorAfter(Handled', data, entry.speed)
  <2>1. speed = MotorAfter(Handled, data, entry.speed)
    BY DEF LoopInv, LoopMeetsClosedForm
  <2>2. CASE e = "Motor_Speed"
    <3>1. points'[e] = data[e]
      BY <1>2, <1>5, <2>2 DEF PointsAfter, Writable, DataPoints, Immediate
    <3> QED
      BY <1>1, <1>2, <2>2, <3>1 DEF Handle, MotorAfter
  <2>3. CASE e # "Motor_Speed"
    BY <1>1, <1>2, <2>1, <2>3 DEF Handle, MotorAfter
  <2> QED
    BY <2>2, <2>3
<1>7. led' = ColourAfter(Handled', data, entry.points, entry.led) /\ SomeLast'
  <2>1. CASE DrivesLed(e, points')
    <3>1. LastLed(i + 1, Handled', points')
      BY <1>1, <1>2, <2>1 DEF LastLed
    <3>2. led' = LedColour(e, points')
      BY <1>1, <2>1 DEF Handle
    <3> QED
      BY <1>2, <1>5, <3>1, <3>2, ColourOfLast DEF SomeLast
  <2>2. CASE ~DrivesLed(e, points')
    <3>1. led' = led /\ led = ColourAfter(Handled, data, entry.points, entry.led)
      BY <1>1, <2>2 DEF Handle, LoopInv, LoopMeetsClosedForm
    <3>2. \A p \in {"LED_OnOff", "LED_R", "LED_G", "LED_B"} : points'[p] = points[p]
      BY <1>1, <1>2, <1>4, <2>2 DEF DrivesLed, Handle, Writable, DataPoints, Immediate,
         PointsAfter
    <3>3. \A j \in 1 .. i : Handled[j] = "LED_Color" => points'["LED_Color"] = points["LED_Color"]
      <4> SUFFICES ASSUME NEW j \in 1 .. i, Handled[j] = "LED_Color"
                   PROVE  points'["LED_Color"] = points["LED_Color"]
        OBVIOUS
      <4>1. "LED_Color" \in ToSet(Handled) /\ "LED_Color" \in ToSet(Handled')
        BY <1>2 DEF ToSet
      <4> QED
        BY <4>1, <1>4, <1>5 DEF PointsAfter, Writable, DataPoints, Immediate
    <3>4. \A j \in 1 .. i : /\ DrivesLed(Handled'[j], points') <=> DrivesLed(Handled[j], points)
                            /\ DrivesLed(Handled[j], points) =>
                                 LedColour(Handled[j], points') = LedColour(Handled[j], points)
      <4> SUFFICES ASSUME NEW j \in 1 .. i
                   PROVE  /\ DrivesLed(Handled[j], points') <=> DrivesLed(Handled[j], points)
                          /\ DrivesLed(Handled[j], points) =>
                               LedColour(Handled[j], points') = LedColour(Handled[j], points)
        BY <1>2
      <4> DEFINE d == Handled[j]
      <4>1. /\ points'["LED_OnOff"] = points["LED_OnOff"] /\ points'["LED_R"] = points["LED_R"]
            /\ points'["LED_G"] = points["LED_G"] /\ points'["LED_B"] = points["LED_B"]
            /\ d = "LED_Color" => points'["LED_Color"] = points["LED_Color"]
        BY <3>2, <3>3
      <4> HIDE DEF d
      <4>2. DrivesLed(d, points') <=> DrivesLed(d, points)
        BY <4>1 DEF DrivesLed
      <4>3. LedColour(d, points') = LedColour(d, points)
        BY <4>1 DEF LedColour
      <4> QED
        BY <4>2, <4>3 DEF d
    <3>5. ~DrivesLed(Handled'[i + 1], points')
      BY <1>2, <2>2
    <3>6. CASE \E j \in DOMAIN Handled : DrivesLed(Handled[j], points)
      <4>1. PICK k : LastLed(k, Handled, points)
        BY <3>6 DEF LoopInv, SomeLast
      <4>2. k \in 1 .. i /\ LastLed(k, Handled', points')
        BY <1>1, <1>2, <3>4, <3>5, <4>1 DEF LastLed
      <4>3. ColourAfter(Handled, data, entry.points, entry.led) = LedColour(Handled[k], points)
        BY <1>2, <1>4, <4>1, ColourOfLast
      <4>4. ColourAfter(Handled', data, entry.points, entry.led) = LedColour(Handled'[k], points')
        BY <1>2, <1>5, <4>2, ColourOfLast, ZenonT(60)
      <4>5. LedColour(Handled'[k], points') = LedColour(Handled[k], points)
        BY <1>2, <3>4, <4>1, <4>2 DEF LastLed
      <4> QED
        BY <3>1, <4>2, <4>3, <4>4, <4>5 DEF SomeLast
    <3>7. CASE ~ \E j \in DOMAIN Handled : DrivesLed(Handled[j], points)
      <4>1. ~ \E j \in DOMAIN Handled' : DrivesLed(Handled'[j], points')
        BY <1>1, <1>2, <3>4, <3>5, <3>7
      <4> QED
        BY <1>4, <1>5, <3>1, <3>7, <4>1, ColourOfNone DEF SomeLast
    <3> QED
      BY <3>6, <3>7
  <2> QED
    BY <2>1, <2>2
<1> QED
  BY <1>1, <1>3, <1>5, <1>6, <1>7 DEF LoopInv, LoopMeetsClosedForm

\* gizwitsEventProcess leaves the data points, the light and the motor as the
\* closed form used by GizProtocol says, after each iteration and so at the end.
THEOREM LoopComputesClosedForm == LoopSpec => []LoopMeetsClosedForm
<1>1. LoopInv /\ UNCHANGED LoopVars => LoopInv'
  BY DEF LoopInv, LoopTypeOK, LoopMeetsClosedForm, SomeLast, Handled, LoopVars
<1>2. LoopInv /\ [LoopNext]_LoopVars => LoopInv'
  BY <1>1, LoopStep DEF LoopNext
<1>3. LoopInv => LoopMeetsClosedForm
  BY DEF LoopInv
<1> QED
  BY LoopStarts, <1>2, <1>3, PTL DEF LoopSpec

=============================================================================
