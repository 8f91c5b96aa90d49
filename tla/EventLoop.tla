----------------------------- MODULE EventLoop -----------------------------
(***************************************************************************)
(* gizwitsEventProcess run event by event, as its for loop does, on any    *)
(* list of events.  GizProtocol takes the whole call as one step and uses  *)
(* the closed form of GizEvents; this module is the evidence for it.       *)
(***************************************************************************)
EXTENDS GizEvents

CONSTANTS
  EventLists,  \* the lists info->event[0..num-1] to run
  DataValues,  \* what the argument data may point at
  EntryColours \* what the light may show on entry

ASSUME ListAssumption ==
  /\ EventLists \subseteq Seq(Events)
  /\ DataValues \subseteq [Writable -> Int]

VARIABLES
  info, data,         \* the arguments
  i,                  \* events handled so far
  points, led, speed, \* currentDataPoint and the last calls of the drivers
  entry               \* history: the three at entry

LoopVars == <<info, data, i, points, led, speed, entry>>

LoopInit ==
  /\ info \in EventLists /\ data \in DataValues /\ i = 0
  /\ \E d \in DataValues, c \in EntryColours :
       /\ points = [p \in DataPoints |-> IF p \in Writable THEN d[p] ELSE 0]
       /\ led = c
       /\ speed = d["Motor_Speed"]
  /\ entry = [points |-> points, led |-> led, speed |-> speed]

\* Mutant of Handle: the colour is computed before the value is stored.
Handle_Early(e) ==
  /\ points' = IF e \in Writable THEN [points EXCEPT ![e] = data[e]] ELSE points
  /\ led' = IF DrivesLed(e, points) THEN LedColour(e, points) ELSE led
  /\ speed' = IF e = "Motor_Speed" THEN points'[e] ELSE speed

\* The body of the loop for event e: store the value, then drive the hardware
\* from what was stored.
Handle(e) ==
  /\ points' = IF e \in Writable THEN [points EXCEPT ![e] = data[e]] ELSE points
  /\ led' = IF DrivesLed(e, points') THEN LedColour(e, points') ELSE led
  /\ speed' = IF e = "Motor_Speed" THEN points'[e] ELSE speed

Iterate ==
  /\ i < Len(info)
  /\ Handle(info[i + 1])
  /\ i' = i + 1
  /\ UNCHANGED <<info, data, entry>>

LoopNext == Iterate

LoopSpec == LoopInit /\ [][LoopNext]_LoopVars

-----------------------------------------------------------------------------

Handled == SubSeq(info, 1, i)

\* After any number of iterations the data points, the light and the motor are
\* as the closed form says for the events handled so far.
LoopMeetsClosedForm ==
  /\ points = PointsAfter(Handled, data, entry.points)
  /\ led = ColourAfter(Handled, data, entry.points, entry.led)
  /\ speed = MotorAfter(Handled, data, entry.speed)

=============================================================================
