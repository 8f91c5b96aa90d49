----------------------------- MODULE GizEvents -----------------------------
(***************************************************************************)
(* The events of EVENT_TYPE_T: which ones a control message and a WiFi     *)
(* status give rise to, and what gizwitsEventProcess does with a list of   *)
(* them.  Its loop is given here in closed form; EventLoop runs it event   *)
(* by event and EventLoop_proofs shows that the two agree.                 *)
(***************************************************************************)
EXTENDS GizDataPoints, Sequences, SequencesExt

LinkBits == {"binding", "con_route", "con_m2m", "app", "test"}
ModeBits == {"softap", "station", "onboarding"}

TurnedOn(b) ==
  CASE b = "binding"   -> "WIFI_OPEN_BINDING"
    [] b = "con_route" -> "WIFI_CON_ROUTER"
    [] b = "con_m2m"   -> "WIFI_CON_M2M"
    [] b = "app"       -> "WIFI_CON_APP"
    [] b = "test"      -> "WIFI_OPEN_TESTMODE"

TurnedOff(b) ==
  CASE b = "binding"   -> "WIFI_CLOSE_BINDING"
    [] b = "con_route" -> "WIFI_DISCON_ROUTER"
    [] b = "con_m2m"   -> "WIFI_DISCON_M2M"
    [] b = "app"       -> "WIFI_DISCON_APP"
    [] b = "test"      -> "WIFI_CLOSE_TESTMODE"

\* An event of EVENT_TYPE_T.  The event of a writable point, EVENT_LED_ONOFF
\* and so on, goes by the name of the point.
Events == Writable \cup {TurnedOn(b) : b \in LinkBits}
                   \cup {TurnedOff(b) : b \in LinkBits}
                   \cup {"WIFI_SOFTAP", "WIFI_AIRLINK", "WIFI_STATION",
                         "WIFI_RSSI", "TRANSPARENT_DATA"}

-----------------------------------------------------------------------------
(* Events of one control message and of one WiFi status, in code order.    *)

When(c, e) == IF c THEN <<e>> ELSE <<>>

\* gizDataPoint2Event appends one event for each flag that is set.
FlagEvents(m) ==
  LET flagged(p) == When(p \in DOMAIN m, p)
  IN  flagged("LED_OnOff") \o flagged("LED_Color") \o flagged("LED_R")
        \o flagged("LED_G") \o flagged("LED_B") \o flagged("Motor_Speed")

\* Mutant of Edge: the comparison with the previous status is dropped.
Edge_Level(b, old, new) == When(b \in new, TurnedOn(b))

\* One of the five "lastStatus differs" blocks of gizWiFiStatus.
Edge(b, old, new) ==
  When((b \in old) # (b \in new), IF b \in new THEN TurnedOn(b) ELSE TurnedOff(b))

StatusEvents(old, new) ==
  When("softap" \in new, "WIFI_SOFTAP")
    \o When("station" \in new,
            IF "onboarding" \in new THEN "WIFI_AIRLINK" ELSE "WIFI_STATION")
    \o Edge("binding", old, new) \o Edge("con_route", old, new)
    \o Edge("con_m2m", old, new) \o Edge("app", old, new)
    \o Edge("test", old, new) \o <<"WIFI_RSSI">>

-----------------------------------------------------------------------------
(* gizwitsEventProcess in closed form.  The data do not change under the   *)
(* loop, so a point with an event ends up with its value in data, and the  *)
(* light with the colour of the last event that drives it.                 *)

DrivesLed(e, dp) ==
  \/ e \in {"LED_OnOff", "LED_R", "LED_G", "LED_B", "WIFI_CON_ROUTER"}
  \/ e = "LED_Color" /\ dp["LED_Color"] \in 0 .. 3

\* The argument of rgbControl for an event that drives the light.
LedColour(e, dp) ==
  CASE e = "WIFI_CON_ROUTER" -> <<0, 0, 0>>
    [] e = "LED_OnOff" /\ dp["LED_OnOff"] = 1 -> <<254, 0, 0>>
    [] e = "LED_OnOff" /\ dp["LED_OnOff"] # 1 -> <<0, 0, 0>>
    [] e = "LED_Color" /\ dp["LED_Color"] = 1 -> <<254, 254, 0>>
    [] e = "LED_Color" /\ dp["LED_Color"] = 2 -> <<254, 0, 70>>
    [] e = "LED_Color" /\ dp["LED_Color"] = 3 -> <<238, 30, 30>>
    [] OTHER -> <<dp["LED_R"] % 256, dp["LED_G"] % 256, dp["LED_B"] % 256>>

\* Mutant of PointsAfter: the loop stops one event short.
PointsAfter_OneShort(events, data, points) ==
  [p \in DataPoints |->
     IF p \in Writable /\ \E i \in 1 .. Len(events) - 1 : events[i] = p
     THEN data[p] ELSE points[p]]

\* currentDataPoint after the events.
PointsAfter(events, data, points) ==
  [p \in DataPoints |->
     IF p \in Writable /\ p \in ToSet(events) THEN data[p] ELSE points[p]]

\* The last rgbControl, if there was one.
ColourAfter(events, data, points, colour) ==
  LET after   == PointsAfter(events, data, points)
      last(i) == /\ DrivesLed(events[i], after)
                 /\ \A j \in DOMAIN events : j > i => ~DrivesLed(events[j], after)
  IN  IF \E i \in DOMAIN events : DrivesLed(events[i], after)
      THEN LedColour(events[CHOOSE i \in DOMAIN events : last(i)], after)
      ELSE colour

\* The last motorControl, if there was one.
MotorAfter(events, data, speed) ==
  IF "Motor_Speed" \in ToSet(events) THEN data["Motor_Speed"] ELSE speed

\* The link bits the handler has been told are on.
ToldAfter(events, told) ==
  {b \in LinkBits : \/ TurnedOn(b) \in ToSet(events)
                    \/ b \in told /\ TurnedOff(b) \notin ToSet(events)}

=============================================================================
