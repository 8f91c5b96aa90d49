------------------------- MODULE GizProtocol_proofs -------------------------
(***************************************************************************)
(* The safety properties of GizProtocol, for every value of its constants. *)
(*                                                                         *)
(* Each of them but ToldMatches and CommandAccounted is disturbed by the   *)
(* same few actions, so that the steps below go property by property.      *)
(* IInv adds to them what the spacing of the paced reports needs, a bound  *)
(* on the clock that the firmware computes by the clock of the history.    *)
(* MaxBurst and the lengths of the queues and of event[] may be anything:  *)
(* what holds, holds with refused posts, up to an overrun of event[].      *)
(***************************************************************************)
EXTENDS GizProtocol, SequenceTheorems, TLAPS

-----------------------------------------------------------------------------
(* Lemmas about the pure operators.                                        *)

\* A control message appends events of writable points.
LEMMA FlagEventsType ==
  ASSUME NEW m
  PROVE  FlagEvents(m) \in Seq(Writable)
<1> DEFINE flagged(p) == When(p \in DOMAIN m, p)
<1>1. \A p \in Writable : flagged(p) \in Seq(Writable)
  BY DEF When
<1> HIDE DEF flagged
<1>2. {"LED_OnOff", "LED_Color", "LED_R", "LED_G", "LED_B", "Motor_Speed"} \subseteq Writable
  BY DEF Writable
<1> DEFINE all == flagged("LED_OnOff") \o flagged("LED_Color") \o flagged("LED_R")
                    \o flagged("LED_G") \o flagged("LED_B") \o flagged("Motor_Speed")
<1>3. all \in Seq(Writable)
  BY <1>1, <1>2
<1>4. FlagEvents(m) = all
  BY DEF FlagEvents, flagged
<1> QED
  BY <1>3, <1>4

\* A status appends mode events, edges and WIFI_RSSI.
LEMMA StatusEventsType ==
  ASSUME NEW old, NEW new
  PROVE  StatusEvents(old, new) \in Seq(Events)
<1> DEFINE mode1 == When("softap" \in new, "WIFI_SOFTAP")
           mode2 == When("station" \in new,
                         IF "onboarding" \in new THEN "WIFI_AIRLINK" ELSE "WIFI_STATION")
<1>0. /\ {"WIFI_SOFTAP", "WIFI_AIRLINK", "WIFI_STATION", "WIFI_RSSI"} \subseteq Events
      /\ \A b \in LinkBits : TurnedOn(b) \in Events /\ TurnedOff(b) \in Events
  BY Zenon DEF Events
<1>1. mode1 \in Seq(Events)
  BY <1>0 DEF When
<1>2. mode2 \in Seq(Events)
  BY <1>0 DEF When
<1>3. \A b \in LinkBits : Edge(b, old, new) \in Seq(Events)
  BY <1>0 DEF Edge, When
<1>4. <<"WIFI_RSSI">> \in Seq(Events)
  BY <1>0
<1>5. {"binding", "con_route", "con_m2m", "app", "test"} \subseteq LinkBits
  BY DEF LinkBits
<1>6. StatusEvents(old, new) =
        mode1 \o mode2 \o Edge("binding", old, new) \o Edge("con_route", old, new)
          \o Edge("con_m2m", old, new) \o Edge("app", old, new)
          \o Edge("test", old, new) \o <<"WIFI_RSSI">>
  BY DEF StatusEvents
<1> HIDE DEF mode1, mode2
<1> QED
  BY <1>1, <1>2, <1>3, <1>4, <1>5, <1>6

\* What goes on the wire is a number, whatever the data points hold.
LEMMA WireType ==
  ASSUME NEW dp \in [DataPoints -> Int]
  PROVE  Wire(dp) \in [DataPoints -> Int]
<1>1. \A p \in DataPoints : Addition(p) \in Int /\ FieldSize(p) \in Nat \ {0}
  BY DEF Addition, FieldSize
<1>2. \A p \in DataPoints : Y2X(p, dp[p]) \in Int
  BY <1>1 DEF Y2X
<1>3. \A a, b \in Int : Or2(a, b) \in Int
  BY DEF Or2
<1>4. dp["LED_Color"] % 4 \in Int /\ (dp["LED_OnOff"] \div 2) % 4 \in Int
  BY DEF DataPoints, Immediate, Writable
<1> QED
  BY <1>2, <1>3, <1>4 DEF Wire

\* The data points stay numbers when events with numeric data are handled.
LEMMA PointsAfterType ==
  ASSUME NEW events, NEW data \in [Writable -> Int], NEW points \in [DataPoints -> Int]
  PROVE  PointsAfter(events, data, points) \in [DataPoints -> Int]
  BY DEF PointsAfter

\* A colour sent to the light is a triple of numbers.
LEMMA LedColourType ==
  ASSUME NEW e, NEW dp \in [DataPoints -> Int]
  PROVE  LedColour(e, dp) \in Nat \X Nat \X Nat
<1>1. \A p \in {"LED_R", "LED_G", "LED_B"} : dp[p] % 256 \in Nat
  BY DEF DataPoints, Immediate, Writable
<1> QED
  BY <1>1 DEF LedColour

\* The colour after a list of events is three naturals.
LEMMA ColourAfterType ==
  ASSUME NEW events, NEW data \in [Writable -> Int], NEW points \in [DataPoints -> Int],
         NEW colour \in Nat \X Nat \X Nat
  PROVE  ColourAfter(events, data, points, colour) \in Nat \X Nat \X Nat
  BY PointsAfterType, LedColourType, Zenon DEF ColourAfter

-----------------------------------------------------------------------------
(* The contents of the sequences the mailboxes are built from.            *)

\* What a sequence holds after an append.
LEMMA ToSetAppend ==
  ASSUME NEW S, NEW q \in Seq(S), NEW e \in S
  PROVE  ToSet(Append(q, e)) = ToSet(q) \cup {e}
<1>1. /\ DOMAIN Append(q, e) = DOMAIN q \cup {Len(q) + 1}
      /\ \A i \in DOMAIN q : Append(q, e)[i] = q[i]
      /\ Append(q, e)[Len(q) + 1] = e
  OBVIOUS
<1> QED
  BY <1>1 DEF ToSet

\* What a concatenation holds.
LEMMA ToSetConcat ==
  ASSUME NEW S, NEW q \in Seq(S), NEW r \in Seq(S)
  PROVE  ToSet(q \o r) = ToSet(q) \cup ToSet(r)
<1>1. ToSet(q \o r) \subseteq ToSet(q) \cup ToSet(r)
  BY DEF ToSet
<1>2. ToSet(q) \subseteq ToSet(q \o r)
  BY DEF ToSet
<1>3. ASSUME NEW i \in DOMAIN r PROVE r[i] \in ToSet(q \o r)
  <2>1. Len(q) + i \in DOMAIN (q \o r) /\ (q \o r)[Len(q) + i] = r[i]
    OBVIOUS
  <2> QED
    BY <2>1 DEF ToSet
<1> QED
  BY <1>1, <1>2, <1>3 DEF ToSet

\* What a sequence holds besides its head.
LEMMA ToSetTail ==
  ASSUME NEW S, NEW q \in Seq(S), q # <<>>
  PROVE  ToSet(q) = ToSet(Tail(q)) \cup {Head(q)}
<1>1. Head(q) \in ToSet(q) /\ ToSet(Tail(q)) \subseteq ToSet(q)
  BY DEF ToSet
<1>2. ASSUME NEW i \in DOMAIN q, i # 1 PROVE q[i] \in ToSet(Tail(q))
  <2>1. i - 1 \in DOMAIN Tail(q) /\ Tail(q)[i - 1] = q[i]
    BY <1>2
  <2> QED
    BY <2>1 DEF ToSet
<1> QED
  BY <1>1, <1>2 DEF ToSet

\* The empty sequence holds nothing.
LEMMA ToSetEmpty == ToSet(<<>>) = {}
  BY DEF ToSet

\* A message brings an event for exactly the points it flags.
LEMMA FlagEventsSet ==
  ASSUME NEW m
  PROVE  ToSet(FlagEvents(m)) = Writable \cap DOMAIN m
<1> DEFINE flagged(p) == When(p \in DOMAIN m, p)
<1>1. \A p \in Writable : /\ flagged(p) \in Seq(Writable)
                          /\ ToSet(flagged(p)) = {p} \cap DOMAIN m
  BY DEF When, ToSet
<1> HIDE DEF flagged
<1> DEFINE a1 == flagged("LED_OnOff")
           a2 == a1 \o flagged("LED_Color")
           a3 == a2 \o flagged("LED_R")
           a4 == a3 \o flagged("LED_G")
           a5 == a4 \o flagged("LED_B")
           a6 == a5 \o flagged("Motor_Speed")
<1>2. a1 \in Seq(Writable) /\ ToSet(a1) = {"LED_OnOff"} \cap DOMAIN m
  BY <1>1 DEF Writable
<1> HIDE DEF a1
<1>3. a2 \in Seq(Writable) /\ ToSet(a2) = {"LED_OnOff", "LED_Color"} \cap DOMAIN m
  <2>1. flagged("LED_Color") \in Seq(Writable)
        /\ ToSet(flagged("LED_Color")) = {"LED_Color"} \cap DOMAIN m
    BY <1>1 DEF Writable
  <2> QED
    BY <1>2, <2>1, ToSetConcat
<1> HIDE DEF a2
<1>4. a3 \in Seq(Writable) /\ ToSet(a3) = {"LED_OnOff", "LED_Color", "LED_R"} \cap DOMAIN m
  <2>1. flagged("LED_R") \in Seq(Writable) /\ ToSet(flagged("LED_R")) = {"LED_R"} \cap DOMAIN m
    BY <1>1 DEF Writable
  <2> QED
    BY <1>3, <2>1, ToSetConcat
<1> HIDE DEF a3
<1>5. /\ a4 \in Seq(Writable)
      /\ ToSet(a4) = {"LED_OnOff", "LED_Color", "LED_R", "LED_G"} \cap DOMAIN m
  <2>1. flagged("LED_G") \in Seq(Writable) /\ ToSet(flagged("LED_G")) = {"LED_G"} \cap DOMAIN m
    BY <1>1 DEF Writable
  <2> QED
    BY <1>4, <2>1, ToSetConcat
<1> HIDE DEF a4
<1>6. /\ a5 \in Seq(Writable)
      /\ ToSet(a5) = {"LED_OnOff", "LED_Color", "LED_R", "LED_G", "LED_B"} \cap DOMAIN m
  <2>1. flagged("LED_B") \in Seq(Writable) /\ ToSet(flagged("LED_B")) = {"LED_B"} \cap DOMAIN m
    BY <1>1 DEF Writable
  <2> QED
    BY <1>5, <2>1, ToSetConcat
<1> HIDE DEF a5
<1>7. a6 \in Seq(Writable) /\ ToSet(a6) = Writable \cap DOMAIN m
  <2>1. flagged("Motor_Speed") \in Seq(Writable)
        /\ ToSet(flagged("Motor_Speed")) = {"Motor_Speed"} \cap DOMAIN m
    BY <1>1 DEF Writable
  <2> QED
    BY <1>6, <2>1, ToSetConcat DEF Writable
<1>8. FlagEvents(m) = a6
  BY DEF FlagEvents, flagged, a1, a2, a3, a4, a5, a6
<1> QED
  BY <1>7, <1>8

\* The events of a status: one edge per link bit that changed, and nothing
\* that names a data point.
LEMMA StatusEventsSet ==
  ASSUME NEW old, NEW new
  PROVE  /\ \A b \in LinkBits :
              /\ TurnedOn(b) \in ToSet(StatusEvents(old, new)) <=> b \in new /\ b \notin old
              /\ TurnedOff(b) \in ToSet(StatusEvents(old, new)) <=> b \in old /\ b \notin new
         /\ Writable \cap ToSet(StatusEvents(old, new)) = {}
<1> DEFINE mode1 == When("softap" \in new, "WIFI_SOFTAP")
           mode2 == When("station" \in new,
                         IF "onboarding" \in new THEN "WIFI_AIRLINK" ELSE "WIFI_STATION")
           edge(b) == Edge(b, old, new)
           modes   == {"WIFI_SOFTAP", "WIFI_AIRLINK", "WIFI_STATION", "WIFI_RSSI"}
           ofEdge(b) == {e \in {TurnedOn(b), TurnedOff(b)} :
                           \/ e = TurnedOn(b) /\ b \in new /\ b \notin old
                           \/ e = TurnedOff(b) /\ b \in old /\ b \notin new}
<1>1. /\ modes \subseteq Events
      /\ \A b \in LinkBits : TurnedOn(b) \in Events /\ TurnedOff(b) \in Events
  BY Zenon DEF Events
<1>2. mode1 \in Seq(Events) /\ ToSet(mode1) \subseteq modes
  BY <1>1 DEF When, ToSet
<1>3. mode2 \in Seq(Events) /\ ToSet(mode2) \subseteq modes
  BY <1>1 DEF When, ToSet
<1>4. <<"WIFI_RSSI">> \in Seq(Events) /\ ToSet(<<"WIFI_RSSI">>) \subseteq modes
  BY <1>1 DEF ToSet
<1>5. \A b \in LinkBits : TurnedOn(b) # TurnedOff(b)
  BY DEF LinkBits, TurnedOn, TurnedOff
<1>6. \A b \in LinkBits : edge(b) \in Seq(Events) /\ ToSet(edge(b)) = ofEdge(b)
  <2> TAKE b \in LinkBits
  <2>1. CASE (b \in old) = (b \in new)
    <3>1. edge(b) = <<>>
      BY <2>1 DEF Edge, When
    <3>2. ofEdge(b) = {}
      BY <2>1
    <3> QED
      BY <3>1, <3>2, ToSetEmpty
  <2>2. CASE (b \in old) # (b \in new)
    <3>1. CASE b \in new
      <4>1. edge(b) = <<TurnedOn(b)>> /\ ofEdge(b) = {TurnedOn(b)}
        BY <1>5, <2>2, <3>1 DEF Edge, When
      <4> QED
        BY <1>1, <4>1 DEF ToSet
    <3>2. CASE b \notin new
      <4>1. edge(b) = <<TurnedOff(b)>> /\ ofEdge(b) = {TurnedOff(b)}
        BY <1>5, <2>2, <3>2 DEF Edge, When
      <4> QED
        BY <1>1, <4>1 DEF ToSet
    <3> QED
      BY <3>1, <3>2
  <2> QED
    BY <2>1, <2>2
<1>7. {"binding", "con_route", "con_m2m", "app", "test"} = LinkBits
  BY DEF LinkBits
<1> DEFINE c1 == mode1 \o mode2
           c2 == c1 \o edge("binding")
           c3 == c2 \o edge("con_route")
           c4 == c3 \o edge("con_m2m")
           c5 == c4 \o edge("app")
           c6 == c5 \o edge("test")
           c7 == c6 \o <<"WIFI_RSSI">>
<1>8. StatusEvents(old, new) = c7
  BY DEF StatusEvents
<1> HIDE DEF mode1, mode2, edge
<1>9. c1 \in Seq(Events) /\ ToSet(c1) \subseteq modes
  BY <1>2, <1>3, ToSetConcat
<1> HIDE DEF c1
<1>10. c2 \in Seq(Events) /\ ToSet(c2) = ToSet(c1) \cup ofEdge("binding")
  BY <1>6, <1>7, <1>9, ToSetConcat
<1> HIDE DEF c2
<1>11. c3 \in Seq(Events) /\ ToSet(c3) = ToSet(c2) \cup ofEdge("con_route")
  BY <1>6, <1>7, <1>10, ToSetConcat
<1> HIDE DEF c3
<1>12. c4 \in Seq(Events) /\ ToSet(c4) = ToSet(c3) \cup ofEdge("con_m2m")
  BY <1>6, <1>7, <1>11, ToSetConcat
<1> HIDE DEF c4
<1>13. c5 \in Seq(Events) /\ ToSet(c5) = ToSet(c4) \cup ofEdge("app")
  BY <1>6, <1>7, <1>12, ToSetConcat
<1> HIDE DEF c5
<1>14. c6 \in Seq(Events) /\ ToSet(c6) = ToSet(c5) \cup ofEdge("test")
  BY <1>6, <1>7, <1>13, ToSetConcat
<1> HIDE DEF c6
<1>15. ToSet(c7) = ToSet(c6) \cup ToSet(<<"WIFI_RSSI">>)
  BY <1>4, <1>14, ToSetConcat, ZenonT(60)
<1> HIDE DEF c7
<1>16. \A e : e \in ToSet(c7) => e \in modes \/ \E b \in LinkBits : e \in ofEdge(b)
  BY <1>4, <1>7, <1>9, <1>10, <1>11, <1>12, <1>13, <1>14, <1>15
<1>17. \A b \in LinkBits : ofEdge(b) \subseteq ToSet(c7)
  <2>1. /\ ofEdge("binding") \subseteq ToSet(c7) /\ ofEdge("con_route") \subseteq ToSet(c7)
        /\ ofEdge("con_m2m") \subseteq ToSet(c7) /\ ofEdge("app") \subseteq ToSet(c7)
        /\ ofEdge("test") \subseteq ToSet(c7)
    BY <1>10, <1>11, <1>12, <1>13, <1>14, <1>15
  <2> HIDE DEF ofEdge
  <2> QED
    BY <1>7, <2>1
<1>18. \A b, c \in LinkBits :
         /\ TurnedOn(b) # TurnedOff(c)
         /\ TurnedOn(b) = TurnedOn(c) => b = c
         /\ TurnedOff(b) = TurnedOff(c) => b = c
         /\ TurnedOn(b) \notin modes /\ TurnedOff(b) \notin modes
         /\ TurnedOn(b) \notin Writable /\ TurnedOff(b) \notin Writable
  BY DEF LinkBits, TurnedOn, TurnedOff, Writable
<1>19. modes \cap Writable = {}
  BY DEF Writable
<1>20. \A e : e \in ToSet(c7) => e \notin Writable
  BY <1>16, <1>18, <1>19
<1> HIDE DEF modes
<1>21. ASSUME NEW b \in LinkBits
       PROVE  /\ TurnedOn(b) \in ToSet(c7) <=> b \in new /\ b \notin old
              /\ TurnedOff(b) \in ToSet(c7) <=> b \in old /\ b \notin new
  <2>1. TurnedOn(b) \in ToSet(c7) => TurnedOn(b) \in ofEdge(b)
    BY <1>16, <1>18
  <2>2. TurnedOff(b) \in ToSet(c7) => TurnedOff(b) \in ofEdge(b)
    BY <1>16, <1>18
  <2> QED
    BY <1>5, <1>17, <2>1, <2>2
<1> QED
  BY <1>8, <1>20, <1>21

-----------------------------------------------------------------------------
(* The inductive invariant.                                                *)

\* The history clock never lags behind the time the firmware computes.
ClockCounted ==
  \/ sincePaced >= (timerMsCount - lastReportTime) % TickMod
  \/ sincePaced = REPORT_TIME_MAX

IInv ==
  /\ TypeOK /\ EventsSignalled /\ PassthroughSignalled
  /\ CommandAccounted /\ ChangePending /\ CloudFaithful /\ ToldMatches /\ ClockCounted

-----------------------------------------------------------------------------
(* Types.                                                                  *)

\* The smaller of two numbers.
LEMMA MinOfTwo ==
  ASSUME NEW a \in Int, NEW b \in Int
  PROVE  Min({a, b}) = IF a <= b THEN a ELSE b
<1> DEFINE m == IF a <= b THEN a ELSE b
           least(x) == \A y \in {a, b} : x <= y
<1>1. m \in {a, b} /\ least(m)
  OBVIOUS
<1>2. \A x \in {a, b} : least(x) => x = m
  OBVIOUS
<1>3. (CHOOSE x \in {a, b} : least(x)) = m
  BY <1>1, <1>2
<1> QED
  BY <1>3 DEF Min

\* Cleared data points are integers.
LEMMA ZeroType == Zero(Writable) \in [Writable -> Int] /\ Zero(DataPoints) \in [DataPoints -> Int]
  BY DEF Zero

\* gizwitsInit leaves every variable in its type.
LEMMA TypeInit == Init => TypeOK
<1>1. ASSUME Init PROVE overrun \in BOOLEAN /\ stranded \subseteq Signals
  BY <1>1, Zenon DEF Init, PowerOn
<1>2. ASSUME Init
      PROVE  /\ gizTaskQueue = <<>> /\ userTaskQueue = 0 /\ burst = 0 /\ reboots = 0
             /\ issuedProcessEvent = <<>> /\ transparentBuff = NoData
             /\ gizCurrentDataPoint = Zero(Writable) /\ gizLastDataPoint = Zero(DataPoints)
             /\ currentDataPoint = Zero(DataPoints) /\ cloud = Silent
             /\ rgb = <<0, 0, 0>> /\ motor = 0 /\ lastStatus = {} /\ told = {} /\ lost = {}
             /\ timerMsCount = 0 /\ repCtime = 0 /\ lastReportTime = 0 /\ sincePaced = 0
             /\ irCtime = 0 /\ thCtime = 0
  BY <1>2, Zenon DEF Init, PowerOn
<1> QED
  BY <1>1, <1>2, ZeroType, BoundAssumption, TimeAssumption DEF Silent, TypeOK

\* Both mailboxes keep their types and bounds when something is posted.
LEMMA PostType ==
  ASSUME TypeOK
  PROVE  /\ PostUser => userTaskQueue' \in 1 .. UserQueueLen
         /\ \A sig \in Signals : burst < MaxBurst /\ PostGiz(sig) =>
              /\ gizTaskQueue' \in Seq(Signals) /\ burst' \in 0 .. MaxBurst
              /\ stranded' \subseteq Signals
<1>1. PostUser => userTaskQueue' \in 1 .. UserQueueLen
  BY BoundAssumption DEF TypeOK, PostUser
<1>2. ASSUME NEW sig \in Signals, burst < MaxBurst, PostGiz(sig)
      PROVE  /\ gizTaskQueue' \in Seq(Signals) /\ burst' \in 0 .. MaxBurst
             /\ stranded' \subseteq Signals
  <2>1. gizTaskQueue' \in Seq(Signals) /\ burst' \in 0 .. MaxBurst
    <3>1. /\ burst' = burst + 1
          /\ gizTaskQueue' = Append(gizTaskQueue, sig) \/ gizTaskQueue' = gizTaskQueue
      BY <1>2, Zenon DEF PostGiz
    <3>2. /\ burst \in 0 .. MaxBurst /\ burst < MaxBurst /\ MaxBurst \in Nat
          /\ gizTaskQueue \in Seq(Signals)
      BY <1>2, BoundAssumption, Zenon DEF TypeOK
    <3>3. burst + 1 \in 0 .. MaxBurst /\ Append(gizTaskQueue, sig) \in Seq(Signals)
      BY <3>2
    <3> QED
      BY <3>1, <3>2, <3>3
  <2>2. stranded' \subseteq Signals
    <3>1. stranded' = stranded \/ stranded' = stranded \cup {sig}
      BY <1>2, Zenon DEF PostGiz
    <3> QED
      BY <3>1 DEF TypeOK
  <2> QED
    BY <2>1, <2>2
<1> QED
  BY <1>1, <1>2

\* gizwitsEventProcess keeps the device's variables and its mailbox typed.
LEMMA EventProcessType ==
  ASSUME TypeOK, NEW events, NEW data \in [Writable -> Int], EventProcess(events, data)
  PROVE  /\ currentDataPoint' \in [DataPoints -> Int]
         /\ rgb' \in Nat \X Nat \X Nat /\ motor' \in Int
         /\ told' \subseteq LinkBits /\ userTaskQueue' \in 1 .. UserQueueLen
<1>1. currentDataPoint' \in [DataPoints -> Int]
  BY PointsAfterType DEF TypeOK, EventProcess
<1>2. rgb' \in Nat \X Nat \X Nat
  BY ColourAfterType DEF TypeOK, EventProcess
<1>3. motor' \in Int
  BY DEF TypeOK, EventProcess, MotorAfter, Writable
<1>4. told' \subseteq LinkBits
  BY DEF EventProcess, ToldAfter
<1>5. userTaskQueue' \in 1 .. UserQueueLen
  BY PostType DEF EventProcess
<1> QED
  BY <1>1, <1>2, <1>3, <1>4, <1>5

\* Removing the head of the queue.
LEMMA TakeType ==
  ASSUME TypeOK, NEW sig, Take(sig)
  PROVE  /\ gizTaskQueue' \in Seq(Signals) /\ burst' \in 0 .. MaxBurst
         /\ stranded' \subseteq Signals
  BY BoundAssumption DEF TypeOK, Take

\* The data gizWiFiStatus hands to the handler.
LEMMA StatusDataType ==
  ASSUME NEW s \in Statuses, NEW garbage \in Garbage
  PROVE  [garbage EXCEPT !["LED_OnOff"] = s.rssi] \in [Writable -> Int]
<1>1. garbage \in [Writable -> Int] /\ s.rssi \in Int
  BY InputAssumption
<1> QED
  BY <1>1

\* Every handler keeps every variable in its type.
LEMMA TypeStep == TypeOK /\ [Next]_vars => TypeOK'
<1> SUFFICES ASSUME TypeOK, [Next]_vars PROVE TypeOK'
  OBVIOUS
<1> USE DEF commandVars, deviceVars, linkVars, reportVars, clockVars, sensorVars, queueVars,
            taskVars
<1>1. ASSUME NEW m \in ControlMessages, ControlDevice(m) PROVE TypeOK'
  <2>1. gizCurrentDataPoint' \in [Writable -> Int]
    <3>1. \A p \in DOMAIN m : X2Y(p, m[p]) \in Int
      BY InputAssumption DEF X2Y, Addition, FieldSize
    <3> QED
      BY <1>1, <3>1 DEF ControlDevice, TypeOK
  <2>2. issuedProcessEvent' \in Seq(Writable)
    BY <1>1, FlagEventsType DEF ControlDevice, TypeOK
  <2>3. /\ gizTaskQueue' \in Seq(Signals) /\ burst' \in 0 .. MaxBurst
        /\ stranded' \subseteq Signals
    BY <1>1, PostType DEF ControlDevice, Signals
  <2>4. overrun' \in BOOLEAN
    BY <1>1 DEF ControlDevice, Stores
  <2> QED
    BY <1>1, <2>1, <2>2, <2>3, <2>4 DEF ControlDevice, TypeOK
<1>2. ASSUME ReadStatus PROVE TypeOK'
  BY <1>2, WireType DEF ReadStatus, TypeOK
<1>3. ASSUME NEW d \in Payloads, Transparent(d) PROVE TypeOK'
  <2>1. /\ gizTaskQueue' \in Seq(Signals) /\ burst' \in 0 .. MaxBurst
        /\ stranded' \subseteq Signals
    BY <1>3, PostType DEF Transparent, Signals
  <2> QED
    BY <1>3, <2>1 DEF Transparent, TypeOK
<1>4. ASSUME NEW s \in Statuses, NEW garbage \in Garbage, WiFiStatus(s, garbage)
      PROVE  TypeOK'
  <2> DEFINE events == issuedProcessEvent \o StatusEvents(lastStatus, s.bits)
             data   == [garbage EXCEPT !["LED_OnOff"] = s.rssi]
  <2>1. data \in [Writable -> Int] /\ EventProcess(events, data)
    BY <1>4, StatusDataType DEF WiFiStatus
  <2>2. burst' \in 0 .. MaxBurst
    BY <1>4, BoundAssumption DEF WiFiStatus, TypeOK
  <2>3. s.bits \subseteq LinkBits \cup ModeBits
    BY InputAssumption
  <2>4. /\ issuedProcessEvent' \in Seq(Writable) /\ lastStatus' \subseteq LinkBits \cup ModeBits
        /\ lost' \subseteq Writable /\ stranded' \subseteq Signals /\ overrun' \in BOOLEAN
    BY <1>4, <2>3 DEF WiFiStatus, ClearedEvents, Pending, Stores, TypeOK
  <2> HIDE DEF events, data
  <2>5. /\ currentDataPoint' \in [DataPoints -> Int]
        /\ rgb' \in Nat \X Nat \X Nat /\ motor' \in Int
        /\ told' \subseteq LinkBits /\ userTaskQueue' \in 0 .. UserQueueLen
    BY <2>1, EventProcessType, BoundAssumption
  <2> QED
    BY <1>4, <2>2, <2>4, <2>5 DEF WiFiStatus, TypeOK
<1>5. ASSUME IssuedData PROVE TypeOK'
  <2>1. /\ currentDataPoint' \in [DataPoints -> Int]
        /\ rgb' \in Nat \X Nat \X Nat /\ motor' \in Int
        /\ told' \subseteq LinkBits /\ userTaskQueue' \in 0 .. UserQueueLen
    BY <1>5, EventProcessType, BoundAssumption DEF IssuedData, TypeOK
  <2>2. /\ gizTaskQueue' \in Seq(Signals) /\ burst' \in 0 .. MaxBurst
        /\ stranded' \subseteq Signals
    BY <1>5, TakeType DEF IssuedData
  <2>3. issuedProcessEvent' \in Seq(Writable)
    BY <1>5 DEF IssuedData, ClearedEvents
  <2> QED
    BY <1>5, <2>1, <2>2, <2>3 DEF IssuedData, TypeOK
<1>6. ASSUME Passthrough PROVE TypeOK'
  <2>1. /\ currentDataPoint' \in [DataPoints -> Int]
        /\ rgb' \in Nat \X Nat \X Nat /\ motor' \in Int
        /\ told' \subseteq LinkBits /\ userTaskQueue' \in 0 .. UserQueueLen
    BY <1>6, EventProcessType, BoundAssumption DEF Passthrough, TypeOK
  <2>2. /\ gizTaskQueue' \in Seq(Signals) /\ burst' \in 0 .. MaxBurst
        /\ stranded' \subseteq Signals
    BY <1>6, TakeType DEF Passthrough
  <2>3. issuedProcessEvent' \in Seq(Writable) /\ lost' \subseteq Writable
    BY <1>6 DEF Passthrough, ClearedEvents, Pending, TypeOK
  <2> QED
    BY <1>6, <2>1, <2>2, <2>3 DEF Passthrough, TypeOK
<1>7. ASSUME ImmReport PROVE TypeOK'
  <2>1. /\ gizTaskQueue' \in Seq(Signals) /\ burst' \in 0 .. MaxBurst
        /\ stranded' \subseteq Signals
    BY <1>7, TakeType DEF ImmReport
  <2> QED
    BY <1>7, <2>1, WireType DEF ImmReport, TypeOK
<1>8. ASSUME Tick PROVE TypeOK'
  <2>1. timerMsCount' \in 0 .. TickMod - 1
    BY <1>8, TimeAssumption DEF Tick, TypeOK
  <2>2. sincePaced' \in 0 .. REPORT_TIME_MAX
    <3>1. sincePaced + 1 \in Nat /\ REPORT_TIME_MAX \in Nat
      BY TimeAssumption DEF TypeOK
    <3> QED
      BY <1>8, <3>1, MinOfTwo DEF Tick
  <2>3. /\ gizTaskQueue' \in Seq(Signals) /\ burst' \in 0 .. MaxBurst
        /\ stranded' \subseteq Signals /\ repCtime' \in 0 .. TIM_REP_TIMOUT + 1
    <3>1. CASE TIM_REP_TIMOUT < repCtime
      BY <1>8, <3>1, PostType, BoundAssumption DEF Tick, Signals
    <3>2. CASE ~(TIM_REP_TIMOUT < repCtime)
      BY <1>8, <3>2, BoundAssumption DEF Tick, TypeOK
    <3> QED
      BY <3>1, <3>2
  <2> QED
    BY <1>8, <2>1, <2>2, <2>3 DEF Tick, TypeOK
<1>9. ASSUME UserTimer PROVE TypeOK'
  <2>1. currentDataPoint' \in [DataPoints -> Int]
    <3> DEFINE irDue == INF_TIMEOUT < irCtime + 1
               thDue == TH_TIMEOUT < thCtime + 1
               sampled(ir, th) ==
                 [p \in DataPoints |->
                    CASE p = "Infrared" /\ irDue -> ir
                      [] p \in Paced /\ thDue    -> th[p]
                      [] OTHER                   -> currentDataPoint[p]]
    <3>1. \E ir \in InfraredReadings,
             th \in ClimateReadings \cup {[p \in Paced |-> currentDataPoint[p]]} :
            currentDataPoint' = sampled(ir, th)
      BY <1>9 DEF UserTimer
    <3>2. PICK ir \in InfraredReadings,
               th \in ClimateReadings \cup {[p \in Paced |-> currentDataPoint[p]]} :
            currentDataPoint' = sampled(ir, th)
      BY <3>1
    <3>3. ir \in Int /\ th \in [Paced -> Int]
      <4>1. ir \in Int
        BY InputAssumption
      <4>2. [p \in Paced |-> currentDataPoint[p]] \in [Paced -> Int]
        BY DEF TypeOK, DataPoints
      <4>3. CASE th \in ClimateReadings
        BY <4>1, <4>3, InputAssumption
      <4>4. CASE th = [p \in Paced |-> currentDataPoint[p]]
        BY <4>1, <4>2, <4>4
      <4> QED
        BY <4>3, <4>4
    <3>4. \A p \in DataPoints : sampled(ir, th)[p] \in Int
      BY <3>3 DEF TypeOK
    <3> QED
      BY <3>2, <3>4
  <2>2. userTaskQueue' \in 0 .. UserQueueLen
    BY <1>9, PostType, BoundAssumption DEF UserTimer
  <2>3. irCtime' \in 0 .. INF_TIMEOUT /\ thCtime' \in 0 .. TH_TIMEOUT
    <3>1. /\ irCtime' = IF INF_TIMEOUT < irCtime + 1 THEN 0 ELSE irCtime + 1
          /\ thCtime' = IF TH_TIMEOUT < thCtime + 1 THEN 0 ELSE thCtime + 1
      BY <1>9 DEF UserTimer, Counted
    <3> QED
      BY <3>1, BoundAssumption DEF TypeOK
  <2> QED
    BY <1>9, <2>1, <2>2, <2>3 DEF UserTimer, TypeOK
<1>10. ASSUME UserTask PROVE TypeOK'
  <2>1. /\ gizLastDataPoint' \in [DataPoints -> Int] /\ cloud' \in [DataPoints -> Int]
        /\ lastReportTime' \in 0 .. TickMod - 1
    BY <1>10, WireType DEF UserTask, TypeOK
  <2>2. userTaskQueue' \in 0 .. UserQueueLen /\ sincePaced' \in 0 .. REPORT_TIME_MAX
    BY <1>10, BoundAssumption, TimeAssumption DEF UserTask, TypeOK
  <2> QED
    BY <1>10, <2>1, <2>2 DEF UserTask, TypeOK
<1>11. ASSUME Reboot PROVE TypeOK'
  <2>1. overrun' \in BOOLEAN /\ stranded' \subseteq Signals
    BY <1>11, Zenon DEF Reboot
  <2> QED
    BY <1>11, <2>1, ZeroType, BoundAssumption, TimeAssumption DEF Reboot, TypeOK
<1>12. ASSUME NEW c \in ConfigColours, ConfigKey(c) PROVE TypeOK'
  <2>1. rgb' \in Nat \X Nat \X Nat
    BY <1>12 DEF ConfigKey, ConfigColours
  <2> QED
    BY <1>12, <2>1 DEF ConfigKey, TypeOK
<1>13. CASE UNCHANGED vars
  BY <1>13 DEF vars, TypeOK
<1> QED
  BY <1>1, <1>2, <1>3, <1>4, <1>5, <1>6, <1>7, <1>8, <1>9, <1>10, <1>11, <1>12, <1>13
     DEF Next, Gagent, GizTask

\* Every variable stays in its type, and both mailboxes within their lengths.
THEOREM TypeCorrect == Spec => []TypeOK
<1> QED
  BY TypeInit, TypeStep, PTL DEF Spec

-----------------------------------------------------------------------------
(* The mailbox of gizTask.                                                 *)

\* The invariant holds after gizwitsInit.
LEMMA InvInit == Init => IInv
<1> SUFFICES ASSUME Init PROVE IInv
  OBVIOUS
<1>1. TypeOK
  BY TypeInit
<1>2. EventsSignalled /\ PassthroughSignalled
  BY DEF Init, PowerOn, EventsSignalled, PassthroughSignalled
<1>3. CommandAccounted /\ ChangePending /\ CloudFaithful /\ ToldMatches
  BY DEF Init, PowerOn, Zero, CommandAccounted, ChangePending, CloudFaithful, ToldMatches,
     ImmediateChange, Writable, Immediate, DataPoints
<1>4. ClockCounted
  BY TimeAssumption DEF Init, PowerOn, ClockCounted
<1> QED
  BY <1>1, <1>2, <1>3, <1>4 DEF IInv

\* After a post the signal is queued, or its work is, or it is stranded.
LEMMA PostSignals ==
  ASSUME TypeOK, NEW sig \in Signals, PostGiz(sig)
  PROVE  /\ Serving(sig) \cap ToSet(gizTaskQueue') # {} \/ sig \in stranded'
         /\ ToSet(gizTaskQueue) \subseteq ToSet(gizTaskQueue') /\ stranded \subseteq stranded'
<1>1. sig \in Serving(sig)
  BY DEF Serving
<1>2. CASE Len(gizTaskQueue) < GizQueueLen
  <2>1. gizTaskQueue' = Append(gizTaskQueue, sig) /\ UNCHANGED stranded
    BY <1>2 DEF PostGiz
  <2>2. ToSet(gizTaskQueue') = ToSet(gizTaskQueue) \cup {sig}
    BY <2>1, ToSetAppend DEF TypeOK
  <2> QED
    BY <1>1, <2>1, <2>2
<1>3. CASE ~(Len(gizTaskQueue) < GizQueueLen)
  BY <1>3 DEF PostGiz
<1> QED
  BY <1>2, <1>3

\* Taking a signal leaves every other one in the queue, and stranded what it
\* does not serve.
LEMMA TakeKeeps ==
  ASSUME TypeOK, NEW sig, Take(sig)
  PROVE  /\ \A other : other # sig /\ other \in ToSet(gizTaskQueue)
                         => other \in ToSet(gizTaskQueue')
         /\ \A other : other \in stranded /\ sig \notin Serving(other) => other \in stranded'
<1>1. gizTaskQueue # <<>> /\ Head(gizTaskQueue) = sig /\ gizTaskQueue' = Tail(gizTaskQueue)
  BY DEF Take
<1>2. ToSet(gizTaskQueue) = ToSet(gizTaskQueue') \cup {sig}
  BY <1>1, ToSetTail DEF TypeOK
<1> QED
  BY <1>2 DEF Take

\* What is stored stays signalled: the list until gizTask or gizWiFiStatus
\* empties it, the payload until SIG_PASSTHROUGH is taken.
LEMMA MailboxStep == IInv /\ [Next]_vars => EventsSignalled' /\ PassthroughSignalled'
<1> SUFFICES ASSUME IInv, [Next]_vars PROVE EventsSignalled' /\ PassthroughSignalled'
  OBVIOUS
<1> DEFINE Goal == EventsSignalled' /\ PassthroughSignalled'
<1>0. /\ TypeOK /\ EventsSignalled /\ PassthroughSignalled
      /\ Serving("ISSUED_DATA") = {"ISSUED_DATA", "PASSTHROUGH"}
      /\ Serving("PASSTHROUGH") = {"PASSTHROUGH"} /\ Serving("IMM_REPORT") = {"IMM_REPORT"}
  BY DEF IInv, Serving
<1> USE DEF EventsSignalled, PassthroughSignalled
<1>1. ASSUME NEW m \in ControlMessages, ControlDevice(m) PROVE Goal
  BY <1>0, <1>1, PostSignals DEF ControlDevice, Signals
<1>2. ASSUME NEW d \in Payloads, Transparent(d) PROVE Goal
  BY <1>0, <1>2, PostSignals DEF Transparent, Signals, commandVars
<1>3. ASSUME NEW s \in Statuses, NEW garbage \in Garbage, WiFiStatus(s, garbage) PROVE Goal
  BY <1>0, <1>3 DEF WiFiStatus, ClearedEvents
<1>4. ASSUME IssuedData PROVE Goal
  <2>1. Take("ISSUED_DATA") /\ issuedProcessEvent' = <<>> /\ UNCHANGED transparentBuff
    BY <1>4 DEF IssuedData, ClearedEvents
  <2> QED
    BY <1>0, <2>1, TakeKeeps
<1>5. ASSUME Passthrough PROVE Goal
  BY <1>5 DEF Passthrough, ClearedEvents
<1>6. ASSUME ImmReport PROVE Goal
  <2>1. Take("IMM_REPORT") /\ UNCHANGED <<issuedProcessEvent, transparentBuff>>
    BY <1>6 DEF ImmReport, commandVars
  <2> QED
    BY <1>0, <2>1, TakeKeeps
<1>7. ASSUME Tick PROVE Goal
  <2>1. CASE TIM_REP_TIMOUT < repCtime
    <3>1. PostGiz("IMM_REPORT") /\ UNCHANGED <<issuedProcessEvent, transparentBuff>>
      BY <1>7, <2>1 DEF Tick, commandVars
    <3> QED
      BY <1>0, <3>1, PostSignals DEF Signals
  <2>2. CASE ~(TIM_REP_TIMOUT < repCtime)
    BY <1>0, <1>7, <2>2 DEF Tick, commandVars, taskVars
  <2> QED
    BY <2>1, <2>2
<1>8. ASSUME Reboot PROVE Goal
  BY <1>8 DEF Reboot
<1>9. CASE UNCHANGED <<issuedProcessEvent, transparentBuff, gizTaskQueue, stranded>>
  BY <1>0, <1>9
<1>10. ASSUME \/ ReadStatus \/ UserTimer \/ UserTask \/ UNCHANGED vars
              \/ \E c \in ConfigColours : ConfigKey(c)
       PROVE  UNCHANGED <<issuedProcessEvent, transparentBuff, gizTaskQueue, stranded>>
  BY <1>10 DEF ReadStatus, UserTimer, UserTask, ConfigKey, vars, commandVars, queueVars, taskVars
<1> QED
  BY <1>1, <1>2, <1>3, <1>4, <1>5, <1>6, <1>7, <1>8, <1>9, <1>10 DEF Next, Gagent, GizTask

-----------------------------------------------------------------------------
(* Commands and reports.                                                   *)

\* The actions that leave the command path alone.
LEMMA Bystanders ==
  ASSUME \/ ReadStatus \/ ImmReport \/ Tick \/ UserTask
         \/ (\E d \in Payloads : Transparent(d)) \/ (\E c \in ConfigColours : ConfigKey(c))
         \/ UNCHANGED vars
  PROVE  UNCHANGED <<commandVars, currentDataPoint, linkVars>>
  BY DEF deviceVars, ConfigKey, ReadStatus, ImmReport, Tick, UserTask, Transparent, vars

\* Sampling does not touch a writable point.
LEMMA UserTimerKeeps ==
  ASSUME UserTimer
  PROVE  /\ \A p \in Writable : currentDataPoint'[p] = currentDataPoint[p]
         /\ PostUser
         /\ UNCHANGED <<commandVars, linkVars, reportVars, clockVars>>
<1>1. /\ \A p \in Writable : p \in DataPoints /\ p \notin Paced /\ p # "Infrared"
  BY DEF Writable, DataPoints, Immediate, Paced
<1>2. \E ir, th : currentDataPoint' =
        [p \in DataPoints |->
           CASE p = "Infrared" /\ INF_TIMEOUT < irCtime + 1 -> ir
             [] p \in Paced /\ TH_TIMEOUT < thCtime + 1     -> th[p]
             [] OTHER -> currentDataPoint[p]]
  BY DEF UserTimer
<1>3. \A p \in Writable : currentDataPoint'[p] = currentDataPoint[p]
  BY <1>1, <1>2
<1> QED
  BY <1>3 DEF UserTimer

\* A point of gizCurrentDataPoint that the device does not have yet is waiting
\* or was lost.
LEMMA CommandStep == IInv /\ [Next]_vars => CommandAccounted'
<1> SUFFICES ASSUME IInv, [Next]_vars PROVE CommandAccounted'
  OBVIOUS
<1>0. CommandAccounted /\ TypeOK
  BY DEF IInv
<1>1. ASSUME NEW m \in ControlMessages, ControlDevice(m) PROVE CommandAccounted'
  <2>1. UNCHANGED currentDataPoint /\ lost' = lost \ DOMAIN m
        /\ \A p \in Writable : p \notin DOMAIN m =>
             gizCurrentDataPoint'[p] = gizCurrentDataPoint[p]
    BY <1>1 DEF ControlDevice, deviceVars
  <2>2. Pending' = Pending \cup (Writable \cap DOMAIN m)
    <3>1. ToSet(issuedProcessEvent') = ToSet(issuedProcessEvent) \cup ToSet(FlagEvents(m))
      BY <1>0, <1>1, FlagEventsType, ToSetConcat DEF ControlDevice, TypeOK
    <3> QED
      BY <3>1, FlagEventsSet DEF Pending
  <2> QED
    BY <1>0, <2>1, <2>2 DEF CommandAccounted
<1>2. ASSUME NEW s \in Statuses, NEW garbage \in Garbage, WiFiStatus(s, garbage)
      PROVE  CommandAccounted'
  <2>1. ToSet(issuedProcessEvent \o StatusEvents(lastStatus, s.bits))
          = ToSet(issuedProcessEvent) \cup ToSet(StatusEvents(lastStatus, s.bits))
    <3>1. issuedProcessEvent \in Seq(Events)
      BY <1>0 DEF TypeOK, Events
    <3> QED
      BY <3>1, StatusEventsType, ToSetConcat
  <2>2. /\ lost' = lost \cup Pending /\ UNCHANGED gizCurrentDataPoint
        /\ \A p \in Writable : p \notin Pending => currentDataPoint'[p] = currentDataPoint[p]
    BY <1>2, <2>1, StatusEventsSet
       DEF WiFiStatus, EventProcess, PointsAfter, Pending, DataPoints, Immediate
  <2> QED
    BY <1>0, <2>2 DEF CommandAccounted
<1>3. ASSUME IssuedData PROVE CommandAccounted'
  <2>1. \A p \in Writable : currentDataPoint'[p] =
          IF p \in Pending THEN gizCurrentDataPoint[p] ELSE currentDataPoint[p]
    BY <1>3 DEF IssuedData, EventProcess, PointsAfter, Pending, DataPoints, Immediate
  <2>2. UNCHANGED <<gizCurrentDataPoint, lost>>
    BY <1>3 DEF IssuedData
  <2> QED
    BY <1>0, <2>1, <2>2 DEF CommandAccounted
<1>4. ASSUME Passthrough PROVE CommandAccounted'
  <2>1. Writable \cap ToSet(<<"TRANSPARENT_DATA">>) = {}
    BY DEF Writable, ToSet
  <2>2. \A p \in Writable : currentDataPoint'[p] = currentDataPoint[p]
    BY <1>4, <2>1 DEF Passthrough, EventProcess, PointsAfter, DataPoints, Immediate
  <2>3. UNCHANGED gizCurrentDataPoint /\ lost' = lost \cup Pending
    BY <1>4 DEF Passthrough
  <2> QED
    BY <1>0, <2>2, <2>3 DEF CommandAccounted
<1>5. ASSUME UserTimer PROVE CommandAccounted'
  BY <1>0, <1>5, UserTimerKeeps DEF CommandAccounted, Pending, commandVars
<1>6. ASSUME Reboot PROVE CommandAccounted'
  BY <1>6 DEF Reboot, CommandAccounted, Zero, DataPoints, Immediate
<1>7. CASE UNCHANGED <<commandVars, currentDataPoint, linkVars>>
  BY <1>0, <1>7 DEF CommandAccounted, Pending, commandVars
<1> QED
  BY <1>1, <1>2, <1>3, <1>4, <1>5, <1>6, <1>7, Bystanders DEF Next, Gagent, GizTask

\* The handler has been told about every link bit of the last status.
LEMMA ToldStep == IInv /\ [Next]_vars => ToldMatches'
<1> SUFFICES ASSUME IInv, [Next]_vars PROVE ToldMatches'
  OBVIOUS
<1>0. ToldMatches /\ TypeOK
  BY DEF IInv
<1>1. \A b \in LinkBits : TurnedOn(b) \notin Writable /\ TurnedOff(b) \notin Writable
  BY DEF LinkBits, TurnedOn, TurnedOff, Writable
<1>2. \A q \in Seq(Writable) : ToldAfter(q, told) = told
  <2>1. \A q \in Seq(Writable) : ToSet(q) \subseteq Writable
    BY DEF ToSet
  <2> QED
    BY <1>0, <1>1, <2>1 DEF ToldAfter, TypeOK
<1>3. ASSUME NEW s \in Statuses, NEW garbage \in Garbage, WiFiStatus(s, garbage)
      PROVE  ToldMatches'
  <2> DEFINE events == issuedProcessEvent \o StatusEvents(lastStatus, s.bits)
  <2>1. ToSet(events) = ToSet(issuedProcessEvent) \cup ToSet(StatusEvents(lastStatus, s.bits))
    <3>1. issuedProcessEvent \in Seq(Events)
      BY <1>0 DEF TypeOK, Events
    <3> QED
      BY <3>1, StatusEventsType, ToSetConcat
  <2>2. ToSet(issuedProcessEvent) \subseteq Writable
    BY <1>0 DEF TypeOK, ToSet
  <2>3. told' = ToldAfter(events, told) /\ lastStatus' = s.bits
    BY <1>3 DEF WiFiStatus, EventProcess
  <2> HIDE DEF events
  <2>4. \A b \in LinkBits :
          /\ TurnedOn(b) \in ToSet(events) <=> b \in s.bits /\ b \notin lastStatus
          /\ TurnedOff(b) \in ToSet(events) <=> b \in lastStatus /\ b \notin s.bits
    BY <1>1, <2>1, <2>2, StatusEventsSet
  <2> QED
    BY <1>0, <2>3, <2>4 DEF ToldMatches, ToldAfter
<1>4. ASSUME NEW m \in ControlMessages, ControlDevice(m) PROVE ToldMatches'
  BY <1>0, <1>4 DEF ControlDevice, ToldMatches, linkVars
<1>5. ASSUME IssuedData PROVE ToldMatches'
  BY <1>0, <1>2, <1>5 DEF IssuedData, EventProcess, ToldMatches, TypeOK
<1>6. ASSUME Passthrough PROVE ToldMatches'
  <2>1. \A b \in LinkBits : /\ TurnedOn(b) \notin ToSet(<<"TRANSPARENT_DATA">>)
                            /\ TurnedOff(b) \notin ToSet(<<"TRANSPARENT_DATA">>)
    BY DEF LinkBits, TurnedOn, TurnedOff, ToSet
  <2>2. ToldAfter(<<"TRANSPARENT_DATA">>, told) = told
    BY <1>0, <2>1 DEF ToldAfter, TypeOK
  <2> QED
    BY <1>0, <1>6, <2>2 DEF Passthrough, EventProcess, ToldMatches
<1>7. ASSUME UserTimer PROVE ToldMatches'
  BY <1>0, <1>7, UserTimerKeeps DEF ToldMatches, linkVars
<1>8. ASSUME Reboot PROVE ToldMatches'
  BY <1>8 DEF Reboot, ToldMatches
<1>9. CASE UNCHANGED <<commandVars, currentDataPoint, linkVars>>
  BY <1>0, <1>9 DEF ToldMatches, linkVars
<1> QED
  BY <1>3, <1>4, <1>5, <1>6, <1>7, <1>8, <1>9, Bystanders DEF Next, Gagent, GizTask

\* A change of an immediate point always has the user task signalled.
LEMMA ChangeStep == IInv /\ [Next]_vars => ChangePending'
<1> SUFFICES ASSUME IInv, [Next]_vars PROVE ChangePending'
  OBVIOUS
<1>0. ChangePending /\ TypeOK
  BY DEF IInv
<1>1. ASSUME PostUser PROVE ChangePending'
  BY <1>0, <1>1, PostType, BoundAssumption DEF ChangePending
<1>2. ASSUME UserTask PROVE ChangePending'
  <2> DEFINE report == CheckReport(currentDataPoint, gizLastDataPoint, timerMsCount, lastReportTime)
  <2>1. /\ UNCHANGED currentDataPoint
        /\ gizLastDataPoint' = IF report THEN currentDataPoint ELSE gizLastDataPoint
    BY <1>2 DEF UserTask, deviceVars
  <2>2. ImmediateChange(currentDataPoint, gizLastDataPoint) => report
    BY DEF CheckReport
  <2> HIDE DEF report
  <2> QED
    BY <2>1, <2>2 DEF ChangePending, ImmediateChange
<1>3. ASSUME Reboot PROVE ChangePending'
  BY <1>3 DEF Reboot, ChangePending, ImmediateChange
<1>4. CASE UNCHANGED <<currentDataPoint, gizLastDataPoint, userTaskQueue>>
  BY <1>0, <1>4 DEF ChangePending, ImmediateChange
<1>5. \/ PostUser \/ UserTask \/ Reboot
      \/ UNCHANGED <<currentDataPoint, gizLastDataPoint, userTaskQueue>>
  BY DEF Next, Gagent, GizTask, ControlDevice, ReadStatus, Transparent, ConfigKey, WiFiStatus, IssuedData,
     Passthrough, ImmReport, Tick, UserTimer, EventProcess, vars, deviceVars, reportVars, queueVars
<1> QED
  BY <1>1, <1>2, <1>3, <1>4, <1>5

\* The cloud is only ever sent the last report.
LEMMA CloudStep == IInv /\ [Next]_vars => CloudFaithful'
<1> SUFFICES ASSUME IInv, [Next]_vars PROVE CloudFaithful'
  OBVIOUS
<1>0. CloudFaithful
  BY DEF IInv
<1>1. ASSUME ReadStatus \/ ImmReport PROVE CloudFaithful'
  BY <1>1 DEF ReadStatus, ImmReport, CloudFaithful
<1>2. ASSUME UserTask PROVE CloudFaithful'
  BY <1>0, <1>2 DEF UserTask, CloudFaithful
<1>3. ASSUME Reboot PROVE CloudFaithful'
  BY <1>3 DEF Reboot, CloudFaithful, Zero
<1>4. CASE UNCHANGED <<cloud, gizLastDataPoint>>
  BY <1>0, <1>4 DEF CloudFaithful
<1>5. \/ ReadStatus \/ ImmReport \/ UserTask \/ Reboot
      \/ UNCHANGED <<cloud, gizLastDataPoint>>
  BY DEF Next, Gagent, GizTask, ControlDevice, Transparent, ConfigKey, WiFiStatus, IssuedData,
     Passthrough, Tick, UserTimer, vars, reportVars
<1> QED
  BY <1>1, <1>2, <1>3, <1>4, <1>5

-----------------------------------------------------------------------------
(* The pacing clock.                                                       *)

\* One tick advances the computed time since the last report by one, or wraps
\* it to zero.
LEMMA Elapsed ==
  ASSUME NEW m \in Nat, m > 1, NEW a \in 0 .. m - 1, NEW b \in 0 .. m - 1
  PROVE  /\ (a - b) % m = IF a >= b THEN a - b ELSE a - b + m
         /\ (a + 1) % m = IF a = m - 1 THEN 0 ELSE a + 1
         /\ (((a + 1) % m) - b) % m <= ((a - b) % m) + 1
         /\ (a - b) % m \in Nat /\ (((a + 1) % m) - b) % m \in Nat
<1>1. \A x \in 0 .. m - 1 : x % m = x
  OBVIOUS
<1>2. \A x \in 1 - m .. -1 : x % m = x + m
  OBVIOUS
<1>3. m % m = 0
  OBVIOUS
<1>4. (a - b) % m = IF a >= b THEN a - b ELSE a - b + m
  BY <1>1, <1>2
<1>5. (a + 1) % m = IF a = m - 1 THEN 0 ELSE a + 1
  BY <1>1, <1>3
<1>6. CASE a = m - 1
  <2>1. (a + 1) % m = 0 /\ (a - b) % m = m - 1 - b
    BY <1>4, <1>5, <1>6
  <2>2. (0 - b) % m = IF b = 0 THEN 0 ELSE m - b
    BY <1>1, <1>2
  <2> QED
    BY <1>4, <1>5, <2>1, <2>2
<1>7. CASE a # m - 1
  <2>1. (a + 1) % m = a + 1
    BY <1>5, <1>7
  <2>2. ((a + 1) - b) % m = IF a + 1 >= b THEN a + 1 - b ELSE a + 1 - b + m
    BY <1>1, <1>2, <1>7
  <2> QED
    BY <1>4, <1>5, <2>1, <2>2
<1> QED
  BY <1>6, <1>7

\* No step lets the history clock lag behind the computed difference.
LEMMA ClockStep == IInv /\ [Next]_vars => ClockCounted'
<1> SUFFICES ASSUME IInv, [Next]_vars PROVE ClockCounted'
  OBVIOUS
<1> DEFINE now == timerMsCount
           elapsed == (timerMsCount - lastReportTime) % TickMod
<1>0. /\ ClockCounted /\ TypeOK /\ TickMod \in Nat /\ TickMod > 1
      /\ now \in 0 .. TickMod - 1 /\ lastReportTime \in 0 .. TickMod - 1
      /\ sincePaced \in 0 .. REPORT_TIME_MAX /\ REPORT_TIME_MAX \in Nat
  BY TimeAssumption DEF IInv, TypeOK
<1>1. ASSUME Tick PROVE ClockCounted'
  <2>1. /\ timerMsCount' = (now + 1) % TickMod /\ UNCHANGED lastReportTime
        /\ sincePaced' = IF sincePaced + 1 <= REPORT_TIME_MAX
                         THEN sincePaced + 1 ELSE REPORT_TIME_MAX
    BY <1>0, <1>1, MinOfTwo DEF Tick
  <2>2. (timerMsCount' - lastReportTime') % TickMod <= elapsed + 1
    BY <1>0, <2>1, Elapsed
  <2>3. elapsed \in Nat /\ (timerMsCount' - lastReportTime') % TickMod \in Nat
    BY <1>0, <2>1, Elapsed
  <2>4. sincePaced >= elapsed \/ sincePaced = REPORT_TIME_MAX
    BY <1>0 DEF ClockCounted
  <2> HIDE DEF elapsed
  <2>5. CASE sincePaced + 1 <= REPORT_TIME_MAX
    BY <1>0, <2>1, <2>2, <2>3, <2>4, <2>5 DEF ClockCounted
  <2>6. CASE ~(sincePaced + 1 <= REPORT_TIME_MAX)
    BY <2>1, <2>6 DEF ClockCounted
  <2> QED
    BY <2>5, <2>6
<1>2. ASSUME UserTask PROVE ClockCounted'
  <2> DEFINE due == PacedDue(currentDataPoint, gizLastDataPoint, timerMsCount, lastReportTime)
             imm == ImmediateChange(currentDataPoint, gizLastDataPoint)
  <2>1. /\ UNCHANGED timerMsCount
        /\ lastReportTime' = IF due THEN timerMsCount ELSE lastReportTime
        /\ sincePaced' = IF (imm \/ due) /\ ~imm THEN 0 ELSE sincePaced
    BY <1>2 DEF UserTask, CheckReport, clockVars
  <2> HIDE DEF due, imm
  <2>2. CASE due
    <3>1. (timerMsCount' - lastReportTime') % TickMod = 0
      BY <1>0, <2>1, <2>2, Elapsed
    <3> QED
      BY <1>0, <2>1, <3>1 DEF ClockCounted
  <2>3. CASE ~due
    BY <1>0, <2>1, <2>3 DEF ClockCounted
  <2> QED
    BY <2>2, <2>3
<1>3. ASSUME Reboot PROVE ClockCounted'
  BY <1>0, <1>3, Elapsed DEF Reboot, ClockCounted
<1>4. CASE UNCHANGED <<timerMsCount, lastReportTime, sincePaced>>
  BY <1>0, <1>4 DEF ClockCounted
<1>5. \/ Tick \/ UserTask \/ Reboot
      \/ UNCHANGED <<timerMsCount, lastReportTime, sincePaced>>
  BY DEF Next, Gagent, GizTask, ControlDevice, ReadStatus, Transparent, ConfigKey, WiFiStatus, IssuedData,
     Passthrough, ImmReport, UserTimer, vars, reportVars, clockVars
<1> QED
  BY <1>1, <1>2, <1>3, <1>4, <1>5

-----------------------------------------------------------------------------
(* The theorems.                                                           *)

\* Every handler and every timer keeps the invariant.
LEMMA InvStep == IInv /\ [Next]_vars => IInv'
<1>1. IInv => TypeOK
  BY DEF IInv
<1> QED
  BY <1>1, TypeStep, MailboxStep, CommandStep, ToldStep, ChangeStep, CloudStep, ClockStep
     DEF IInv

\* The invariant holds for ever.
LEMMA InvHolds == Spec => []IInv
  BY InvInit, InvStep, PTL DEF Spec

\* No control event waits in the list without a signal that brings gizTask to
\* it, unless the queue was full of other signals when it was stored.
THEOREM EventsNotStranded == Spec => []EventsSignalled
<1>1. IInv => EventsSignalled
  BY DEF IInv
<1> QED
  BY <1>1, InvHolds, PTL

\* No transparent payload waits without its signal, unless that was refused by
\* a queue that held no other of its kind.
THEOREM PayloadNotStranded == Spec => []PassthroughSignalled
<1>1. IInv => PassthroughSignalled
  BY DEF IInv
<1> QED
  BY <1>1, InvHolds, PTL

\* Overwriting the list and handling it with the data of a WiFi status are the
\* only ways in which a command of the cloud fails to reach the device.
THEOREM CommandsAccountedFor == Spec => []CommandAccounted
<1>1. IInv => CommandAccounted
  BY DEF IInv
<1> QED
  BY <1>1, InvHolds, PTL

\* The edges of gizWiFiStatus add up to the last status it took, though all
\* sources of events share one list.
THEOREM HandlerToldAll == Spec => []ToldMatches
<1>1. IInv => ToldMatches
  BY DEF IInv
<1> QED
  BY <1>1, InvHolds, PTL

\* The user task is signalled while a change is unreported, though a full
\* queue refuses posts.
THEOREM NoLostWakeup == Spec => []ChangePending
<1>1. IInv => ChangePending
  BY DEF IInv
<1> QED
  BY <1>1, InvHolds, PTL

\* The cloud shows the last report, or what it showed before a restart.
THEOREM CloudShowsLastReport == Spec => []CloudFaithful
<1>1. IInv => CloudFaithful
  BY DEF IInv
<1> QED
  BY <1>1, InvHolds, PTL

\* Climate reports keep their distance across the wrap of the counter.
THEOREM ReportsPaced == Spec => PacedSpacing
<1> DEFINE Spaced == /\ gizLastDataPoint' # gizLastDataPoint
                     /\ reboots' = reboots
                     /\ ~ImmediateChange(currentDataPoint, gizLastDataPoint)
                     => sincePaced >= REPORT_TIME_MAX
<1>1. IInv /\ [Next]_vars => [Spaced]_vars
  <2> SUFFICES ASSUME IInv, Next, gizLastDataPoint' # gizLastDataPoint, reboots' = reboots,
                      ~ImmediateChange(currentDataPoint, gizLastDataPoint)
               PROVE  sincePaced >= REPORT_TIME_MAX
    OBVIOUS
  <2>1. ~Reboot
    BY DEF Reboot, IInv, TypeOK
  <2>2. UserTask
    BY <2>1 DEF Next, Gagent, GizTask, ControlDevice, ReadStatus, Transparent, ConfigKey, WiFiStatus,
       IssuedData, Passthrough, ImmReport, Tick, UserTimer, reportVars
  <2>3. CheckReport(currentDataPoint, gizLastDataPoint, timerMsCount, lastReportTime)
    BY <2>2 DEF UserTask
  <2>4. (timerMsCount - lastReportTime) % TickMod >= REPORT_TIME_MAX
    BY <2>3 DEF CheckReport, PacedDue
  <2>5. /\ (timerMsCount - lastReportTime) % TickMod \in Int /\ sincePaced \in Int
        /\ REPORT_TIME_MAX \in Int
    BY TimeAssumption DEF IInv, TypeOK
  <2> QED
    BY <2>4, <2>5 DEF IInv, ClockCounted
<1>2. PacedSpacing <=> [][Spaced]_vars
  BY PTL DEF PacedSpacing
<1> QED
  BY <1>1, <1>2, InvHolds, PTL DEF Spec

=============================================================================
