----------------------------- MODULE MCDrivers -----------------------------
(* The drivers of the board, each against its own hardware, the two parts    *)
(* and the line of uart.c, the helpers and the loop over events.  They share *)
(* no state, so one runs at a time: machine says which, and the variables of *)
(* the others stay where Resting puts them.                                  *)
EXTENDS TempHum, BitPacking, HspiOverlap, SpiMaster, SpiSlave, I2cMaster, Board, HwTimer,
        GizTime, UserJson, UartRing, Uart, UartLine, EventLoop

VARIABLE machine

DriversVars ==
  <<machine, vars, PackVars, OverlapVars, MasterVars, SlaveVars, I2cVars, BoardVars, TimerVars,
    TimeVars, JsonVars, RingVars, UartVars, LineVars, LoopVars>>

Machines ==
  {"hal_temp_hum", "packing", "spi_overlap", "spi", "spi_slave", "i2c", "light", "motor", "hw_timer",
   "time", "json", "uart_ring", "uart", "uart_line", "event_loop"}

(***************************************************************************)
(* Values.                                                                 *)
(***************************************************************************)

\* Two samples that differ in both readings, in opposite order, so that a
\* mean shows which samples it is taken over.
MCReadings == {[tem |-> 25, hum |-> 60], [tem |-> 28, hum |-> 41]}

\* Fields across the end of a byte, up to it, and inside one.
MCFields ==
  {f \in [byte : 0 .. 1, bit : {0, 3, 4, 6}, len : {2, 5, 7}] :
     Across(f.bit, f.len) => f.byte = 0}

\* No bit, the lowest, alternate bits, all bits of a field.
MCPacked == {{}, {0}, 0 .. 1, {0, 2, 4}, 0 .. 4, 0 .. 6, {6}}

MCConfs == {[polar |-> FALSE, div |-> 1], [polar |-> TRUE, div |-> 31]}

MCOwn == {<<1, 0, 1, 0, 0, 0, 0, 0>>, <<1, 0, 1, 0, 0, 0, 0, 1>>}
MCAddresses == MCOwn \cup {<<0, 1, 1, 0, 0, 0, 0, 1>>}
MCPayloads == {<<0, 0, 0, 0, 0, 0, 0, 0>>, <<0, 1, 1, 0, 0, 1, 0, 1>>}

MCColours == {[r |-> 254, g |-> 0, b |-> 70], [r |-> 0, g |-> 0, b |-> 0]}

\* A caller enables the transmit interrupt by itself.
MCMasks == {{"TXFIFO_EMPTY"}}

MCSpeeds == {-6, -5, 0, 3}

MCChars == {"a", "b", "c"}
Entry(n, x) == [name |-> n, value |-> x]
MCChildren ==
  [root |-> <<Entry(<<"a", "b">>, "obj"), Entry(<<"a">>, "one"), Entry(<<"c">>, "sub")>>,
   obj  |-> <<Entry(<<"a">>, "two")>>,
   sub  |-> <<Entry(<<"a">>, "one"), Entry(<<"b">>, "obj"), Entry(<<"a", "b">>, "two")>>]
MCLeaves == {"one", "two"}
MCNames == {<<>>, <<"a">>, <<"a", "b">>, <<"b">>, <<"c">>}
MCPaths == UNION {[1 .. n -> MCNames] : n \in 1 .. 3}

\* Every list of up to three of the events that touch the light or the motor,
\* and two sets of values, one with a colour outside the enumeration.
LightEvents == {"LED_OnOff", "LED_Color", "LED_R", "LED_G", "Motor_Speed",
                "WIFI_CON_ROUTER", "WIFI_RSSI"}
MCLists == UNION {[1 .. n -> LightEvents] : n \in 0 .. 3}
MCValues(onoff, colour, other) ==
  [p \in Writable |-> CASE p = "LED_OnOff" -> onoff [] p = "LED_Color" -> colour
                        [] OTHER -> other]
MCData == {MCValues(1, 0, 7), MCValues(0, 5, 30)}
MCDark == {<<0, 0, 0>>}

(***************************************************************************)
(* One at a time.                                                          *)
(***************************************************************************)

\* Where a machine has several initial states, one for it to rest in.
Resting ==
  /\ machine # "spi_overlap" => ~io80m /\ regs.user = {"FLASH_MODE"}
  /\ machine # "time" => time = 0
  /\ machine # "uart_ring" => kind = "tx"
  /\ machine # "uart" => ~buffEn
  /\ machine # "uart_line" => uart_no = 0 /\ UartDev = EightN1

\* No events to handle.
LoopResting ==
  /\ info = <<>> /\ data = MCValues(0, 5, 30) /\ i = 0
  /\ points = [p \in DataPoints |-> 0] /\ led = <<0, 0, 0>> /\ speed = 0
  /\ entry = [points |-> points, led |-> led, speed |-> speed]

DriversInit ==
  /\ machine \in Machines
  /\ Init /\ PackInit /\ OverlapInit /\ MasterInit /\ SlaveInit /\ I2cInit
  /\ BoardInit /\ TimerInit /\ TimeInit /\ JsonInit
  /\ RingInit /\ UartInit /\ LineInit
  /\ IF machine = "event_loop" THEN LoopInit ELSE LoopResting
  /\ Resting

\* The light and the motor of Board have nothing but user_init in common: once it
\* is done each moves by itself.
DriversNext ==
  /\ UNCHANGED machine
  /\ IF machine = "hal_temp_hum" THEN Next ELSE UNCHANGED vars
  /\ IF machine = "packing" THEN PackNext ELSE UNCHANGED PackVars
  /\ IF machine = "spi_overlap" THEN OverlapNext ELSE UNCHANGED OverlapVars
  /\ IF machine = "spi" THEN MasterNext ELSE UNCHANGED MasterVars
  /\ IF machine = "spi_slave" THEN SlaveNext ELSE UNCHANGED SlaveVars
  /\ IF machine = "i2c" THEN I2cNext ELSE UNCHANGED I2cVars
  /\ IF machine \in {"light", "motor"} THEN BoardNext ELSE UNCHANGED BoardVars
  /\ machine = "light" /\ boot = "done" => UNCHANGED motor
  /\ machine = "motor" /\ boot = "done" => UNCHANGED clocked
  /\ IF machine = "hw_timer" THEN TimerNext ELSE UNCHANGED TimerVars
  /\ IF machine = "time" THEN TimeNext ELSE UNCHANGED TimeVars
  /\ IF machine = "json" THEN JsonNext ELSE UNCHANGED JsonVars
  /\ IF machine = "uart_ring" THEN RingNext ELSE UNCHANGED RingVars
  /\ IF machine = "uart" THEN UartNext ELSE UNCHANGED UartVars
  /\ IF machine = "uart_line" THEN LineNext ELSE UNCHANGED LineVars
  /\ IF machine = "event_loop" THEN LoopNext ELSE UNCHANGED LoopVars

\* The fairness of Uart, while it is the machine that runs.
DriversSpec ==
  /\ DriversInit /\ [][DriversNext]_DriversVars
  /\ WF_UartVars(machine = "uart" /\ uart0_rx_intr_handler)
  /\ SF_UartVars(machine = "uart" /\ FifoEmpty)
  /\ WF_UartVars(machine = "uart" /\ Transmit(0))
=============================================================================
