---------------------------- MODULE GizProtocol ----------------------------
(***************************************************************************)
(* The Gizwits protocol layer of the firmware: gizwits_protocol.c, the     *)
(* event handler gizwits_product.c and the user timer and user task of     *)
(* user_main.c, which share gizwitsProtocol and currentDataPoint.          *)
(*                                                                         *)
(* Three contexts run in the cooperative scheduler of the SDK, each        *)
(* handler to its end: callbacks of libgagent and of the timers, gizTask   *)
(* at priority 2 and gizwitsUserTask at priority 0.  A handler is one      *)
(* action; the interleaving of the actions is the order in which the       *)
(* scheduler runs the contexts.                                            *)
(***************************************************************************)
EXTENDS GizEvents, FiniteSetsExt

CONSTANTS
  ControlMessages,   \* partial functions from Writable to wire values
  Payloads, NoData,  \* transparent payloads, and the cleared buffer
  Statuses,          \* WiFi status words gizWiFiStatus may be given
  Garbage,           \* what lies in memory behind the one-byte rssiValue
  InfraredReadings, ClimateReadings,
  MaxBurst,          \* bound: calls before gizTask has drained; the code has none
  EVENT_TYPE_MAX,    \* the size of event[]: one place for each of its 21 events
  GizQueueLen, UserQueueLen,
  TIM_REP_TIMOUT, INF_TIMEOUT, TH_TIMEOUT,
  MaxReboots

VARIABLES
  (* the program *)
  gizTaskQueue,         \* signals posted to gizTask
  userTaskQueue,        \* number of SIG_UPGRADE_DATA posted to gizwitsUserTask
  issuedProcessEvent,   \* event[0..num-1], one list for all sources of events
  gizCurrentDataPoint,  \* writable values as last issued by the cloud
  gizLastDataPoint,     \* values of the last report
  transparentBuff,      \* a payload, or NoData when transparentLen is 0
  lastStatus,           \* bits of the last WiFi status
  timerMsCount, repCtime, lastReportTime,
  currentDataPoint,     \* the user's data points
  rgb, motor,           \* last arguments of rgbControl and motorControl
  irCtime, thCtime,
  (* the environment *)
  cloud,                \* device status the cloud was last sent
  overrun,              \* an event was stored behind the end of event[]
  burst,                \* calls counted against MaxBurst
  reboots,
  (* history, read by no action of the program *)
  told,                 \* link bits the event handler was last told are on
  lost,                 \* points whose pending event was thrown away or garbled
  stranded,             \* signals refused by a queue with none that does their work
  sincePaced            \* ticks since the last report due to Paced alone

commandVars == <<issuedProcessEvent, overrun, gizCurrentDataPoint, lost>>
deviceVars  == <<currentDataPoint, rgb, motor>>
linkVars    == <<lastStatus, told>>
reportVars  == <<gizLastDataPoint, lastReportTime, cloud, sincePaced>>
clockVars   == <<timerMsCount, repCtime>>
sensorVars  == <<irCtime, thCtime>>
taskVars    == <<gizTaskQueue, burst, stranded>>
queueVars   == <<taskVars, userTaskQueue>>

vars == <<commandVars, deviceVars, linkVars, reportVars, clockVars, sensorVars,
          queueVars, transparentBuff, reboots>>

-----------------------------------------------------------------------------

Signals == {"ISSUED_DATA", "PASSTHROUGH", "IMM_REPORT"}

ASSUME InputAssumption ==
  /\ \A m \in ControlMessages :
       /\ DOMAIN m \subseteq Writable
       /\ \A p \in DOMAIN m : m[p] \in 0 .. FieldSize(p) - 1
  /\ NoData \notin Payloads
  /\ Statuses \subseteq [bits : SUBSET (LinkBits \cup ModeBits), rssi : 0 .. 7]
  /\ Garbage \subseteq [Writable -> Int]
  /\ InfraredReadings \subseteq {0, 1}
  /\ ClimateReadings \subseteq [Paced -> 0 .. 255]

ASSUME BoundAssumption ==
  /\ MaxBurst \in Nat \ {0} /\ EVENT_TYPE_MAX \in Nat \ {0}
  /\ GizQueueLen \in Nat \ {0} /\ UserQueueLen \in Nat \ {0}
  /\ TIM_REP_TIMOUT \in Nat /\ INF_TIMEOUT \in Nat /\ TH_TIMEOUT \in Nat
  /\ MaxReboots \in Nat

-----------------------------------------------------------------------------
(* Posting: system_os_post fails on a full queue and nobody looks.         *)

PostUser == userTaskQueue' = IF userTaskQueue < UserQueueLen
                             THEN userTaskQueue + 1 ELSE userTaskQueue

\* The signals at which gizTask does what sig asks for: the list is emptied at
\* SIG_PASSTHROUGH too.
Serving(sig) == {sig} \cup (IF sig = "ISSUED_DATA" THEN {"PASSTHROUGH"} ELSE {})

PostGiz(sig) ==
  /\ burst' = burst + 1
  /\ IF Len(gizTaskQueue) < GizQueueLen
     THEN gizTaskQueue' = Append(gizTaskQueue, sig) /\ UNCHANGED stranded
     ELSE /\ UNCHANGED gizTaskQueue
          /\ stranded' = IF Serving(sig) \cap ToSet(gizTaskQueue) = {}
                         THEN stranded \cup {sig} ELSE stranded

-----------------------------------------------------------------------------
(* gizwitsEventProcess: the effects of its loop, and its closing post.     *)

EventProcess(events, data) ==
  /\ currentDataPoint' = PointsAfter(events, data, currentDataPoint)
  /\ rgb' = ColourAfter(events, data, currentDataPoint, rgb)
  /\ motor' = MotorAfter(events, data, motor)
  /\ told' = ToldAfter(events, told)
  /\ PostUser

\* Mutant of ClearedEvents: the list is not emptied.
ClearedEvents_Kept == issuedProcessEvent

\* The os_memset of issuedProcessEvent that ends every handling of the list.
ClearedEvents == <<>>

\* Events go to event[num] and num is counted up, with no look at its size.
Stores(events) == overrun' = (Len(events) > EVENT_TYPE_MAX)

\* The writable points whose event is waiting.
Pending == Writable \cap ToSet(issuedProcessEvent)

-----------------------------------------------------------------------------
(* Power-on: gizwitsInit clears gizwitsProtocol, the statics and           *)
(* currentDataPoint are zero, user_init stops the motor and darkens the    *)
(* light before any task runs.                                             *)

Zero(points) == [p \in points |-> 0]

PowerOn ==
  /\ gizTaskQueue = <<>> /\ userTaskQueue = 0 /\ burst = 0 /\ overrun = FALSE
  /\ issuedProcessEvent = <<>> /\ transparentBuff = NoData
  /\ gizCurrentDataPoint = Zero(Writable) /\ gizLastDataPoint = Zero(DataPoints)
  /\ currentDataPoint = Zero(DataPoints) /\ rgb = <<0, 0, 0>> /\ motor = 0
  /\ lastStatus = {} /\ told = {} /\ lost = {} /\ stranded = {}
  /\ timerMsCount = 0 /\ repCtime = 0 /\ lastReportTime = 0 /\ sincePaced = 0
  /\ irCtime = 0 /\ thCtime = 0

\* The cloud shows nothing until the device has spoken.
Silent == [p \in DataPoints |-> -1]

Init == PowerOn /\ cloud = Silent /\ reboots = 0

-----------------------------------------------------------------------------
(* Calls from libgagent.  MaxBurst bounds how many of them it makes before *)
(* gizTask, the task of highest priority, has emptied its queue, to keep   *)
(* the states of a run finite: nothing in the code does.                   *)

\* gizIssuedProcess, ACTION_CONTROL_DEVICE.
ControlDevice(m) ==
  /\ burst < MaxBurst
  /\ issuedProcessEvent' = issuedProcessEvent \o FlagEvents(m)
  /\ Stores(issuedProcessEvent')
  /\ gizCurrentDataPoint' =
       [p \in Writable |-> IF p \in DOMAIN m THEN X2Y(p, m[p]) ELSE gizCurrentDataPoint[p]]
  /\ lost' = lost \ DOMAIN m
  /\ PostGiz("ISSUED_DATA")
  /\ UNCHANGED <<deviceVars, linkVars, reportVars, clockVars, sensorVars,
                 userTaskQueue, transparentBuff, reboots>>

\* Mutant of ReadStatus: answered with the live values.
ReadStatus_Live ==
  /\ cloud' = Wire(currentDataPoint)
  /\ UNCHANGED <<commandVars, deviceVars, linkVars, clockVars, sensorVars, queueVars,
                 gizLastDataPoint, lastReportTime, sincePaced, transparentBuff, reboots>>

\* gizIssuedProcess, ACTION_READ_DEV_STATUS: answered from the last report.
ReadStatus ==
  /\ cloud' = Wire(gizLastDataPoint)
  /\ UNCHANGED <<commandVars, deviceVars, linkVars, clockVars, sensorVars, queueVars,
                 gizLastDataPoint, lastReportTime, sincePaced, transparentBuff, reboots>>

\* gizIssuedProcess, ACTION_W2D_TRANSPARENT_DATA: the one buffer is overwritten.
Transparent(d) ==
  /\ burst < MaxBurst
  /\ transparentBuff' = d
  /\ PostGiz("PASSTHROUGH")
  /\ UNCHANGED <<commandVars, deviceVars, linkVars, reportVars, clockVars, sensorVars,
                 userTaskQueue, reboots>>

\* gizWiFiStatus.  A zero status is dropped.  The status events go behind any
\* control events that are waiting, and the whole list is handled here and now
\* with data pointing at the one byte rssiValue: LED_OnOff, the first byte of
\* dataPoint_t, is read from it and the other points from behind it.
WiFiStatus(s, garbage) ==
  /\ s.bits # {} \/ s.rssi # 0
  /\ burst < MaxBurst
  /\ EventProcess(issuedProcessEvent \o StatusEvents(lastStatus, s.bits),
                  [garbage EXCEPT !["LED_OnOff"] = s.rssi])
  /\ Stores(issuedProcessEvent \o StatusEvents(lastStatus, s.bits))
  /\ issuedProcessEvent' = ClearedEvents
  /\ lastStatus' = s.bits
  /\ lost' = lost \cup Pending
  /\ stranded' = stranded \ {"ISSUED_DATA"}
  /\ burst' = IF gizTaskQueue = <<>> THEN 0 ELSE burst + 1
  /\ UNCHANGED <<reportVars, clockVars, sensorVars, gizTaskQueue, gizCurrentDataPoint,
                 transparentBuff, reboots>>

-----------------------------------------------------------------------------
(* gizTask, one action per signal.                                         *)

Take(sig) ==
  /\ gizTaskQueue # <<>> /\ Head(gizTaskQueue) = sig
  /\ gizTaskQueue' = Tail(gizTaskQueue)
  /\ burst' = IF Len(gizTaskQueue) = 1 THEN 0 ELSE burst
  /\ stranded' = {t \in stranded : sig \notin Serving(t)}

IssuedData ==
  /\ Take("ISSUED_DATA")
  /\ EventProcess(issuedProcessEvent, gizCurrentDataPoint)
  /\ issuedProcessEvent' = ClearedEvents
  /\ UNCHANGED <<reportVars, clockVars, sensorVars, gizCurrentDataPoint, overrun, lost,
                 lastStatus, transparentBuff, reboots>>

\* Mutant of Passthrough: transparentLen is not reset.
Passthrough_Kept ==
  /\ Take("PASSTHROUGH")
  /\ EventProcess(<<"TRANSPARENT_DATA">>, gizCurrentDataPoint)
  /\ issuedProcessEvent' = ClearedEvents
  /\ lost' = lost \cup Pending
  /\ UNCHANGED <<reportVars, clockVars, sensorVars, gizCurrentDataPoint, overrun, lastStatus,
                 transparentBuff, reboots>>

\* The list is overwritten with the one event TRANSPARENT_DATA, which does not
\* look at the data points, and then cleared.
Passthrough ==
  /\ Take("PASSTHROUGH")
  /\ EventProcess(<<"TRANSPARENT_DATA">>, gizCurrentDataPoint)
  /\ issuedProcessEvent' = ClearedEvents
  /\ transparentBuff' = NoData
  /\ lost' = lost \cup Pending
  /\ UNCHANGED <<reportVars, clockVars, sensorVars, gizCurrentDataPoint, overrun, lastStatus,
                 reboots>>

ImmReport ==
  /\ Take("IMM_REPORT")
  /\ cloud' = Wire(gizLastDataPoint)
  /\ UNCHANGED <<commandVars, deviceVars, linkVars, clockVars, sensorVars, userTaskQueue,
                 gizLastDataPoint, lastReportTime, sincePaced, transparentBuff, reboots>>

GizTask == IssuedData \/ Passthrough \/ ImmReport

-----------------------------------------------------------------------------
(* Timers and the user task.                                               *)

\* gizTimerFunc, every millisecond.
Tick ==
  /\ timerMsCount' = (timerMsCount + 1) % TickMod
  /\ sincePaced' = Min({sincePaced + 1, REPORT_TIME_MAX})
  /\ IF TIM_REP_TIMOUT < repCtime
     THEN burst < MaxBurst /\ PostGiz("IMM_REPORT") /\ repCtime' = 1
     ELSE repCtime' = repCtime + 1 /\ UNCHANGED taskVars
  /\ UNCHANGED <<commandVars, deviceVars, linkVars, sensorVars, userTaskQueue,
                 gizLastDataPoint, lastReportTime, cloud, transparentBuff, reboots>>

\* Mutant of Counted: the counter is not reset.
Counted_NoReset(limit, c) == c + 1

\* A counter of userTimerFunc: counted up, reset when it passes its limit.
Counted(limit, c) == IF limit < c + 1 THEN 0 ELSE c + 1

\* userTimerFunc, every 100 ms.  dh11Read may fail, which leaves both values.
UserTimer ==
  LET irDue == INF_TIMEOUT < irCtime + 1
      thDue == TH_TIMEOUT < thCtime + 1
  IN  /\ irCtime' = Counted(INF_TIMEOUT, irCtime)
      /\ thCtime' = Counted(TH_TIMEOUT, thCtime)
      /\ \E ir \in InfraredReadings,
            th \in ClimateReadings \cup {[p \in Paced |-> currentDataPoint[p]]} :
           currentDataPoint' =
             [p \in DataPoints |->
                CASE p = "Infrared" /\ irDue -> ir
                  [] p \in Paced /\ thDue    -> th[p]
                  [] OTHER                   -> currentDataPoint[p]]
      /\ PostUser
      /\ UNCHANGED <<commandVars, linkVars, reportVars, clockVars, taskVars, rgb, motor,
                     transparentBuff, reboots>>

\* gizwitsUserTask, which is gizwitsHandle.  It has the lowest priority.
UserTask ==
  LET pacedDue == PacedDue(currentDataPoint, gizLastDataPoint, timerMsCount, lastReportTime)
      report   == CheckReport(currentDataPoint, gizLastDataPoint, timerMsCount, lastReportTime)
  IN  /\ gizTaskQueue = <<>>
      /\ userTaskQueue > 0
      /\ userTaskQueue' = userTaskQueue - 1
      /\ lastReportTime' = IF pacedDue THEN timerMsCount ELSE lastReportTime
      /\ gizLastDataPoint' = IF report THEN currentDataPoint ELSE gizLastDataPoint
      /\ cloud' = IF report THEN Wire(currentDataPoint) ELSE cloud
      /\ sincePaced' = IF report /\ ~ImmediateChange(currentDataPoint, gizLastDataPoint)
                       THEN 0 ELSE sincePaced
      /\ UNCHANGED <<commandVars, deviceVars, linkVars, clockVars, sensorVars,
                     taskVars, transparentBuff, reboots>>

\* key2ShortPress and key2LongPress, called from the key timers: the light shows
\* the configuration mode that was asked for, and no data point follows.
ConfigKey(colour) ==
  /\ rgb' = colour
  /\ UNCHANGED <<commandVars, linkVars, reportVars, clockVars, sensorVars, queueVars,
                 currentDataPoint, motor, transparentBuff, reboots>>

\* A watchdog, an exception or key1LongPress (gagentReset) restarts the
\* chip: RAM is lost and the cloud keeps what it was last sent.
Reboot ==
  /\ reboots < MaxReboots
  /\ reboots' = reboots + 1
  /\ gizTaskQueue' = <<>> /\ userTaskQueue' = 0 /\ burst' = 0 /\ overrun' = FALSE
  /\ issuedProcessEvent' = <<>> /\ transparentBuff' = NoData
  /\ gizCurrentDataPoint' = Zero(Writable) /\ gizLastDataPoint' = Zero(DataPoints)
  /\ currentDataPoint' = Zero(DataPoints) /\ rgb' = <<0, 0, 0>> /\ motor' = 0
  /\ lastStatus' = {} /\ told' = {} /\ lost' = {} /\ stranded' = {}
  /\ timerMsCount' = 0 /\ repCtime' = 0 /\ lastReportTime' = 0 /\ sincePaced' = 0
  /\ irCtime' = 0 /\ thCtime' = 0
  /\ UNCHANGED cloud

-----------------------------------------------------------------------------

Gagent == \/ \E m \in ControlMessages : ControlDevice(m)
          \/ ReadStatus
          \/ \E d \in Payloads : Transparent(d)
          \/ \E s \in Statuses, garbage \in Garbage : WiFiStatus(s, garbage)

\* The colours for SoftAP and for AirLink.
ConfigColours == {<<250, 0, 0>>, <<0, 250, 0>>}

\* Once an event has been stored behind event[], the last member of
\* gizwitsProtocol, something else in memory is gone: only a restart is known.
Next == \/ /\ ~overrun
           /\ \/ Gagent \/ GizTask \/ Tick \/ UserTimer \/ UserTask
              \/ \E c \in ConfigColours : ConfigKey(c)
        \/ Reboot

Spec == Init /\ [][Next]_vars

\* The scheduler runs a task that has a signal, timers keep firing, and the
\* lowest priority is not starved for ever: it runs if it could run infinitely
\* often.
FairSpec == /\ Spec
            /\ WF_vars(~overrun /\ GizTask)
            /\ SF_vars(~overrun /\ Tick)
            /\ WF_vars(~overrun /\ UserTimer)
            /\ SF_vars(~overrun /\ UserTask)

-----------------------------------------------------------------------------
(* Properties.                                                             *)

TypeOK ==
  /\ gizTaskQueue \in Seq(Signals) /\ userTaskQueue \in 0 .. UserQueueLen
  /\ burst \in 0 .. MaxBurst /\ reboots \in 0 .. MaxReboots
  /\ issuedProcessEvent \in Seq(Writable) /\ overrun \in BOOLEAN
  /\ gizCurrentDataPoint \in [Writable -> Int]
  /\ gizLastDataPoint \in [DataPoints -> Int]
  /\ currentDataPoint \in [DataPoints -> Int]
  /\ cloud \in [DataPoints -> Int]
  /\ rgb \in Nat \X Nat \X Nat /\ motor \in Int
  /\ transparentBuff \in Payloads \cup {NoData}
  /\ lastStatus \subseteq LinkBits \cup ModeBits
  /\ told \subseteq LinkBits /\ lost \subseteq Writable /\ stranded \subseteq Signals
  /\ timerMsCount \in 0 .. TickMod - 1 /\ lastReportTime \in 0 .. TickMod - 1
  /\ repCtime \in 0 .. TIM_REP_TIMOUT + 1 /\ sincePaced \in 0 .. REPORT_TIME_MAX
  /\ irCtime \in 0 .. INF_TIMEOUT /\ thCtime \in 0 .. TH_TIMEOUT

\* No control event is stranded: while the list holds one, a signal at which
\* gizTask empties the list is queued.  gizIssuedProcess ignores whether its post
\* succeeded, but that strands an event only if the queue was full of others.
EventsSignalled ==
  issuedProcessEvent # <<>> =>
    \/ Serving("ISSUED_DATA") \cap ToSet(gizTaskQueue) # {}
    \/ "ISSUED_DATA" \in stranded

\* No transparent payload is stranded in transparentBuff without a signal to
\* fetch it, unless its post was refused by a queue that had none.
PassthroughSignalled ==
  transparentBuff # NoData => "PASSTHROUGH" \in ToSet(gizTaskQueue) \cup stranded

\* gizCurrentDataPoint and currentDataPoint may differ in a point only while
\* its event waits, or after SIG_PASSTHROUGH or gizWiFiStatus took the list
\* away from under it: there is no other way to lose a command.
CommandAccounted ==
  \A p \in Writable :
    gizCurrentDataPoint[p] # currentDataPoint[p] => p \in Pending \cup lost

\* No lost wake-up: a point to be reported at once that differs from the last
\* report has the user task signalled, over overwritten and refused posts.
ChangePending ==
  ImmediateChange(currentDataPoint, gizLastDataPoint) => userTaskQueue > 0

\* The cloud shows the last report, whether it was reported, read or sent by
\* the ten-minute timer; only a device that has not reported since power-on
\* may be shown with other (its former) values.
CloudFaithful ==
  \/ cloud = Wire(gizLastDataPoint)
  \/ gizLastDataPoint = [p \in DataPoints |-> 0]

\* The open/close and connect/disconnect events the handler has seen always add
\* up to the bits of the last status that gizWiFiStatus took; it takes none that
\* is 0, so that the handler is not told when everything is off at once.
ToldMatches == told = lastStatus \cap LinkBits

\* Reports due to temperature or humidity alone are REPORT_TIME_MAX ticks
\* apart, counted from power-on and across the wrap of timerMsCount.
PacedSpacing ==
  [][ /\ gizLastDataPoint' # gizLastDataPoint
      /\ reboots' = reboots
      /\ ~ImmediateChange(currentDataPoint, gizLastDataPoint)
      => sincePaced >= REPORT_TIME_MAX ]_vars

Drains == []<>(gizTaskQueue = <<>>)

\* The last post of sig was refused with none in the queue that does its work,
\* or the list has overrun.
Refused(sig) == overrun \/ sig \in stranded

\* A command that is not superseded or refused its signal, and whose events are not
\* thrown away, is shown by the cloud exactly as it was issued (gizX2Y, gizY2X
\* and the packing undo each other), provided gizTask keeps up with libgagent.
CommandReachesCloud ==
  Drains =>
    \A m \in ControlMessages : \A p \in DOMAIN m :
      (gizCurrentDataPoint[p] = X2Y(p, m[p]) /\ lost = {})
        ~> \/ cloud[p] = m[p]
           \/ gizCurrentDataPoint[p] # X2Y(p, m[p]) \/ lost # {} \/ Refused("ISSUED_DATA")

\* Again and again the cloud shows what the device shows, also after a restart
\* that left the cloud with values the device no longer has, unless the queue is
\* full when the ten-minute report is due.
CloudCatchesUp ==
  Drains => []<>(\/ Refused("IMM_REPORT")
                 \/ \A p \in Immediate : cloud[p] = Wire(currentDataPoint)[p])

\* What the declaration of eventInfo_t promises: num counts the members of the
\* list and event[] holds them.
EventsInArray == ~overrun

\* What the comment on gizCurrentDataPoint promises: it is the current state of
\* the device, at least when no command is waiting.
CurrentStateTracked ==
  gizTaskQueue = <<>> =>
    \A p \in Writable : gizCurrentDataPoint[p] = currentDataPoint[p]

\* What the comment in gizwitsEventProcess promises of a TRANSPARENT_DATA
\* event: there are data to fetch.
PayloadPresent ==
  gizTaskQueue # <<>> /\ Head(gizTaskQueue) = "PASSTHROUGH" => transparentBuff # NoData

=============================================================================
