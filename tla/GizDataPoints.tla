--------------------------- MODULE GizDataPoints ---------------------------
(***************************************************************************)
(* The data points of the product (dataPoint_t), the form they have on the *)
(* wire (attrVals_t on the way in, devStatus_t on the way out), and the    *)
(* comparison that decides whether the device reports (gizCheckReport).    *)
(* Everything here is a pure operator; GizProtocol holds the state.        *)
(*                                                                         *)
(* The two alerts and four faults of dataPoint_t are left out: no code     *)
(* under src/ ever assigns them, so they stay 0 and never differ.          *)
(***************************************************************************)
EXTENDS Integers

CONSTANTS
  REPORT_TIME_MAX,  \* ticks between two reports of temperature or humidity
  TickMod           \* the tick counter is a uint32_t: 2^32 in the code

ASSUME TimeAssumption ==
  /\ REPORT_TIME_MAX \in Nat \ {0}
  /\ TickMod \in Nat
  /\ REPORT_TIME_MAX < TickMod

-----------------------------------------------------------------------------

\* The points the cloud may set; each has an event and a bit in attrFlags_t.
Writable == {"LED_OnOff", "LED_Color", "LED_R", "LED_G", "LED_B", "Motor_Speed"}

\* The points whose change is reported at once, and those that are paced.
Immediate == Writable \cup {"Infrared"}
Paced     == {"Temperature", "Humidity"}

DataPoints == Immediate \cup Paced

\* Every ratio is 1, so only the additions of the linear codes remain.
Addition(p) ==
  CASE p = "Motor_Speed" -> -5
    [] p = "Temperature" -> -13
    [] OTHER             -> 0

\* The number of values the field of p can hold on the wire.
FieldSize(p) ==
  CASE p \in {"LED_OnOff", "Infrared"} -> 2
    [] p = "LED_Color"                 -> 4
    [] p = "Motor_Speed"               -> 65536
    [] OTHER                           -> 256

\* gizX2Y: the wire value x of a message becomes the user's value.
X2Y(p, x) == x + Addition(p)

\* Mutant of Y2X: the addition is not undone.
Y2X_NoAddition(p, y) == y % FieldSize(p)

\* gizY2X, and the narrowing store into a field of devStatus_t.
Y2X(p, y) == (y - Addition(p)) % FieldSize(p)

\* Bitwise or of two 2-bit numbers, as gizCompressValue does on a byte.
Or2(a, b) ==
  LET bit(w) == IF (a \div w) % 2 = 1 \/ (b \div w) % 2 = 1 THEN w ELSE 0
  IN  bit(2) + bit(1)

\* gizDataPoints2ReportData: LED_OnOff and LED_Color are or-ed, unmasked, into
\* one byte, so an LED_OnOff above 1 runs over into the bits of LED_Color.
Wire(dp) ==
  [p \in DataPoints |->
     IF p = "LED_Color"
     THEN Or2(dp[p] % 4, (dp["LED_OnOff"] \div 2) % 4)
     ELSE Y2X(p, dp[p])]

-----------------------------------------------------------------------------

ImmediateChange(cur, last) == \E p \in Immediate : last[p] # cur[p]
PacedChange(cur, last)     == \E p \in Paced : last[p] # cur[p]

\* Mutant of PacedDue: off by one.
PacedDue_OffByOne(cur, last, now, lastReportTime) ==
  PacedChange(cur, last) /\ (now - lastReportTime) % TickMod >= REPORT_TIME_MAX - 1

\* The branch of gizCheckReport that sets lastReportTime.  Temperature is
\* tested first; once it has set lastReportTime, humidity cannot pass too, and
\* one report carries both.
PacedDue(cur, last, now, lastReportTime) ==
  /\ PacedChange(cur, last)
  /\ (now - lastReportTime) % TickMod >= REPORT_TIME_MAX

\* Mutant of CheckReport: the Infrared comparison forgotten.
CheckReport_NoInfrared(cur, last, now, lastReportTime) ==
  \/ \E p \in Writable : last[p] # cur[p]
  \/ PacedDue(cur, last, now, lastReportTime)

\* gizCheckReport returns 1.
CheckReport(cur, last, now, lastReportTime) ==
  \/ ImmediateChange(cur, last)
  \/ PacedDue(cur, last, now, lastReportTime)

=============================================================================
