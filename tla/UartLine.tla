------------------------------ MODULE UartLine -----------------------------
(***************************************************************************)
(* The settings of a UART, in the bits of its registers.  A register is    *)
(* the set of its bits that are 1; the driver sets and clears masks of it  *)
(* and never reads a setting back.  The two UARTs have their own registers *)
(* and one UartDev, so one UART is followed.                               *)
(***************************************************************************)
EXTENDS Integers

CONSTANTS
  BaudRates,   \* rates the application asks for
  Thresholds   \* rx_thresh, a uint8

ASSUME UartLineAssumption ==
  /\ BaudRates \subseteq Nat \ {0} /\ Thresholds \subseteq 0 .. 255

VARIABLES
  uart_no,   \* the UART followed
  UartDev,   \* format that uart_config sets
  CONF0, CONF1, CLKDIV,
  asked      \* history: the setting each call last asked for

LineVars == <<uart_no, UartDev, CONF0, CONF1, CLKDIV, asked>>

UART_CLK_FREQ == 80000000

BitsOf(n) == {b \in 0 .. 7 : (n \div 2^b) % 2 = 1}
Shift(bits, s) == {b + s : b \in bits}
SetBits(reg, map, value, s) == (reg \ Shift(map, s)) \cup Shift(BitsOf(value), s)

(* uart_register.h: masks and the places of fields *)
UART_PARITY == 0
UART_PARITY_EN == 1
UART_BIT_NUM_S == 2
UART_STOP_BIT_NUM_S == 4
UART_TX_FLOW_EN == 15
UART_LINE_INV_MASK == 19 .. 24
UART_RX_FLOW_THRHD == 0 .. 6
UART_RX_FLOW_THRHD_S == 16
UART_RX_FLOW_EN == 23

(* enums *)
NONE_BITS == 2
WordLengths == 0 .. 3
StopBits == 1 .. 3
Parities == {NONE_BITS, 1, 0}
Inversions == {{}, {19}, {20}, {22}, {23}}

-----------------------------------------------------------------------------

\* What a format in UartDev is as a setting of the line.
DevParity(dev) == IF dev.exist_parity = 0 THEN NONE_BITS ELSE dev.parity % 2

\* uart_config: UartDev's format, no inversion, no flow control.
uart_config_line(dev, rate) ==
  /\ CLKDIV' = UART_CLK_FREQ \div rate
  /\ CONF0' = (IF dev.exist_parity = 1 THEN {UART_PARITY_EN} ELSE {})
              \cup (IF dev.parity % 2 = 1 THEN {UART_PARITY} ELSE {})
              \cup Shift(BitsOf(dev.stop_bits), UART_STOP_BIT_NUM_S)
              \cup Shift(BitsOf(dev.data_bits), UART_BIT_NUM_S)
  /\ CONF1' = IF uart_no = 0
              THEN BitsOf(100) \cup Shift(BitsOf(2), 24) \cup {31} \cup Shift(BitsOf(16), 8)
              ELSE {0}
  /\ asked' = [baud |-> rate, bits |-> dev.data_bits, stop |-> dev.stop_bits,
               parity |-> DevParity(dev), inverse |-> {}, rts |-> FALSE,
               cts |-> FALSE, thresh |-> 0, print |-> asked.print]

EightN1 == [exist_parity |-> 0, parity |-> NONE_BITS, stop_bits |-> 1, data_bits |-> 3]

\* The ROM has left some format in UartDev; the registers are set by the first
\* uart_init.
LineInit ==
  /\ uart_no \in {0, 1}
  /\ UartDev \in {EightN1,
                  [exist_parity |-> 1, parity |-> 0, stop_bits |-> 3, data_bits |-> 2],
                  [exist_parity |-> 0, parity |-> 1, stop_bits |-> 1, data_bits |-> 3]}
  /\ CONF0 = {} /\ CONF1 = {} /\ CLKDIV = 0
  /\ asked = [print |-> "rom"]

Configured == DOMAIN asked # {"print"}

\* uart_init keeps the format of UartDev, and so does uart_reattach, at
\* BIT_RATE_115200; setters have not changed UartDev.
uart_init_line(rate) ==
  /\ uart_config_line(UartDev, rate) /\ UNCHANGED <<uart_no, UartDev>>

uart_reattach == uart_init_line(115200)

uart_init_3_line(rate) ==
  /\ UartDev' = EightN1 /\ uart_config_line(EightN1, rate) /\ UNCHANGED uart_no

UART_SetWordLength(n) ==
  /\ CONF0' = SetBits(CONF0, {0, 1}, n, UART_BIT_NUM_S)
  /\ asked' = [asked EXCEPT !.bits = n]
  /\ UNCHANGED <<uart_no, UartDev, CONF1, CLKDIV>>

UART_SetStopBits(n) ==
  /\ CONF0' = SetBits(CONF0, {0, 1}, n, UART_STOP_BIT_NUM_S)
  /\ asked' = [asked EXCEPT !.stop = n]
  /\ UNCHANGED <<uart_no, UartDev, CONF1, CLKDIV>>

UART_SetLineInverse(mask) ==
  /\ CONF0' = (CONF0 \ UART_LINE_INV_MASK) \cup mask
  /\ asked' = [asked EXCEPT !.inverse = mask]
  /\ UNCHANGED <<uart_no, UartDev, CONF1, CLKDIV>>

\* Mutant of UART_SetParity: an odd parity is not cleared first.
UART_SetParity_Or(mode) ==
  /\ CONF0' = IF mode = NONE_BITS THEN CONF0 \ {UART_PARITY_EN}
              ELSE CONF0 \cup BitsOf(mode) \cup {UART_PARITY_EN}
  /\ asked' = [asked EXCEPT !.parity = mode]
  /\ UNCHANGED <<uart_no, UartDev, CONF1, CLKDIV>>

\* The mode is or-ed in as it is: UART_PARITY is bit 0.
UART_SetParity(mode) ==
  /\ LET cleared == CONF0 \ {UART_PARITY, UART_PARITY_EN} IN
     CONF0' = IF mode = NONE_BITS THEN cleared
              ELSE cleared \cup BitsOf(mode) \cup {UART_PARITY_EN}
  /\ asked' = [asked EXCEPT !.parity = mode]
  /\ UNCHANGED <<uart_no, UartDev, CONF1, CLKDIV>>

UART_SetBaudrate(rate) ==
  /\ CLKDIV' = UART_CLK_FREQ \div rate
  /\ asked' = [asked EXCEPT !.baud = rate]
  /\ UNCHANGED <<uart_no, UartDev, CONF0, CONF1>>

\* rx_thresh is not cut to its 7 bits; the eighth falls on UART_RX_FLOW_EN,
\* which is set next.
UART_SetFlowCtrl(rts, cts, rx_thresh) ==
  /\ CONF1' = IF rts
              THEN SetBits(CONF1, UART_RX_FLOW_THRHD, rx_thresh, UART_RX_FLOW_THRHD_S)
                   \cup {UART_RX_FLOW_EN}
              ELSE CONF1 \ {UART_RX_FLOW_EN}
  /\ CONF0' = IF cts THEN CONF0 \cup {UART_TX_FLOW_EN} ELSE CONF0 \ {UART_TX_FLOW_EN}
  /\ asked' = [asked EXCEPT !.rts = rts, !.cts = cts,
                            !.thresh = IF rts THEN rx_thresh % 128 ELSE @]
  /\ UNCHANGED <<uart_no, UartDev, CLKDIV>>

\* Of the two functions installed for UART0 the second, which waits, stays.
UART_SetPrintPort(port) ==
  /\ asked' = [asked EXCEPT !.print = IF port = 1 THEN "uart1_write_char"
                                                 ELSE "uart0_write_char"]
  /\ UNCHANGED <<uart_no, UartDev, CONF0, CONF1, CLKDIV>>

LineNext ==
  \/ \E rate \in BaudRates : uart_init_line(rate) \/ uart_init_3_line(rate)
  \/ uart_reattach
  \/ /\ Configured
     /\ \/ \E n \in WordLengths : UART_SetWordLength(n)
        \/ \E n \in StopBits : UART_SetStopBits(n)
        \/ \E mask \in Inversions : UART_SetLineInverse(mask)
        \/ \E mode \in Parities : UART_SetParity(mode)
        \/ \E rate \in BaudRates : UART_SetBaudrate(rate)
        \/ \E rts, cts \in BOOLEAN, t \in Thresholds : UART_SetFlowCtrl(rts, cts, t)
        \/ \E port \in {0, 1} : UART_SetPrintPort(port)

LineSpec == LineInit /\ [][LineNext]_LineVars

-----------------------------------------------------------------------------

Field(reg, bits, s) == {b \in bits : b + s \in reg}

\* Whatever the order of the calls, the registers hold the setting each asked
\* for last: no call disturbs the field of another, in spite of bits written
\* unmasked.
LineAsAsked ==
  Configured =>
    /\ Field(CONF0, {0, 1}, UART_BIT_NUM_S) = BitsOf(asked.bits)
    /\ Field(CONF0, {0, 1}, UART_STOP_BIT_NUM_S) = BitsOf(asked.stop)
    /\ UART_PARITY_EN \in CONF0 <=> asked.parity # NONE_BITS
    /\ asked.parity # NONE_BITS => (UART_PARITY \in CONF0 <=> asked.parity = 1)
    /\ CONF0 \cap UART_LINE_INV_MASK = asked.inverse
    /\ UART_TX_FLOW_EN \in CONF0 <=> asked.cts
    /\ UART_RX_FLOW_EN \in CONF1 <=> asked.rts
    /\ Field(CONF1, UART_RX_FLOW_THRHD, UART_RX_FLOW_THRHD_S) = BitsOf(asked.thresh)
    /\ uart_no = 0 => Field(CONF1, 0 .. 6, 0) = BitsOf(100)
    /\ CLKDIV = UART_CLK_FREQ \div asked.baud
=============================================================================
