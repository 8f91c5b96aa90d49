----------------------------- MODULE SpiMaster -----------------------------
(***************************************************************************)
(* spi.c as a master.  A call waits until the controller has sent what the *)
(* call before gave it, sets up its registers and starts it; some calls    *)
(* then wait for the end and some do not.  What goes out depends on all    *)
(* registers, those the call does not write included.                      *)
(***************************************************************************)
EXTENDS Naturals, Sequences

CONSTANT Data   \* bytes that callers send

ASSUME SpiMasterAssumption == Data \subseteq 0 .. 255

VARIABLES
  phases,    \* SPI_USER: phases after the command, "MOSI" and "MISO"
  command,   \* SPI_USER2: the command's length and value
  w0,        \* SPI_W0
  spiUsr,    \* SPI_USR: the controller is sending
  caller,    \* "idle", or the call that waits for the end
  (* history, read by no action *)
  frame,     \* what was last started
  meant,     \* what the call meant to send
  left       \* phases are left over from a call to an ESP8266 slave

MasterVars == <<phases, command, w0, spiUsr, caller, frame, meant, left>>

Bit(n, b) == (n \div 2^b) % 2

\* The bits of a command value as they go out: the low byte first, each byte
\* from its high bit.
CommandBits(c) == [i \in 1 .. c.length |-> IF i <= 8 THEN Bit(c.value, 8 - i)
                                           ELSE Bit(c.value, 24 - i)]

\* What the controller sends with these registers, and whether it then reads.
Frame(ph, c, w) ==
  [command |-> CommandBits(c), out |-> IF "MOSI" \in ph THEN <<w>> ELSE <<>>,
   in |-> "MISO" \in ph]

Byte(n) == [i \in 1 .. 8 |-> Bit(n, 8 - i)]

-----------------------------------------------------------------------------

\* After spi_master_init.
MasterInit ==
  /\ phases = {} /\ command = [length |-> 0, value |-> 0] /\ w0 = 0
  /\ spiUsr = FALSE /\ caller = "idle"
  /\ frame = Frame({}, command, 0) /\ meant = frame /\ left = FALSE

\* The wait every call begins with is over.
Ready == caller = "idle" /\ ~spiUsr

\* SPI_USR is set with the registers as they now are.
Start(intent) ==
  /\ spiUsr' = TRUE
  /\ frame' = Frame(phases', command', w0') /\ meant' = intent

\* Mutant of LcdValue: the ninth bit is left in bit 8.
LcdValue_Bit8(high_bit, low_8bit) ==
  (IF high_bit THEN 128 ELSE 0) + (low_8bit \div 2) + 256 * (low_8bit % 2)

\* The first 8 of the 9 bits, and the ninth in bit 15.
LcdValue(high_bit, low_8bit) ==
  (IF high_bit THEN 128 ELSE 0) + (low_8bit \div 2) + 32768 * (low_8bit % 2)

spi_lcd_9bit_write(high_bit, low_8bit) ==
  /\ Ready
  /\ command' = [length |-> 9, value |-> LcdValue(high_bit, low_8bit)]
  /\ UNCHANGED <<phases, w0, caller, left>>
  /\ Start([command |-> <<IF high_bit THEN 1 ELSE 0>> \o Byte(low_8bit),
            out |-> <<>>, in |-> FALSE])

spi_mast_byte_write(data) ==
  /\ Ready
  /\ phases' = {} /\ command' = [length |-> 8, value |-> data]
  /\ caller' = "write" /\ left' = FALSE /\ UNCHANGED w0
  /\ Start([command |-> Byte(data), out |-> <<>>, in |-> FALSE])

spi_byte_write_espslave(data) ==
  /\ Ready
  /\ phases' = {"MOSI"} /\ command' = [length |-> 8, value |-> 4] /\ w0' = data
  /\ left' = TRUE /\ UNCHANGED caller
  /\ Start([command |-> Byte(4), out |-> <<data>>, in |-> FALSE])

spi_byte_read_espslave ==
  /\ Ready
  /\ phases' = {"MISO"} /\ command' = [length |-> 8, value |-> 6]
  /\ caller' = "read" /\ left' = TRUE /\ UNCHANGED w0
  /\ Start([command |-> Byte(6), out |-> <<>>, in |-> TRUE])

\* The controller is done.
Sent ==
  /\ spiUsr /\ spiUsr' = FALSE
  /\ w0' \in IF "MISO" \in phases THEN Data ELSE {w0}
  /\ UNCHANGED <<phases, command, caller, frame, meant, left>>

\* The call that waited goes on.
Done ==
  /\ caller # "idle" /\ ~spiUsr /\ caller' = "idle"
  /\ UNCHANGED <<phases, command, w0, spiUsr, frame, meant, left>>

MasterNext ==
  \/ \E d \in Data :
       \/ \E high_bit \in BOOLEAN : spi_lcd_9bit_write(high_bit, d)
       \/ spi_mast_byte_write(d) \/ spi_byte_write_espslave(d)
  \/ spi_byte_read_espslave \/ Sent \/ Done

MasterSpec == MasterInit /\ [][MasterNext]_MasterVars

-----------------------------------------------------------------------------

\* Every call sends what it is meant to, bit by bit, and the registers stay as
\* they are until the controller has sent them, also after the calls that return
\* before.  The exception is the 9-bit write after a call to an ESP8266 slave,
\* whose phases it keeps.
FramesAsMeant ==
  [][/\ frame' = meant' \/ (left' /\ Len(meant'.command) = 9)
     /\ spiUsr /\ spiUsr' => UNCHANGED <<phases, command, w0>>]_MasterVars
=============================================================================
