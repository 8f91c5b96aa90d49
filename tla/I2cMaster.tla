------------------------------ MODULE I2cMaster -----------------------------
(***************************************************************************)
(* i2c_master.c: an I2C master in software, two open-drain lines set one   *)
(* half clock at a time, and a device on the bus.  An operation of the     *)
(* driver is a script of settings of SDA and SCL; the processor may be     *)
(* reset between any two of them, the device is not.                       *)
(***************************************************************************)
EXTENDS Naturals, Sequences

CONSTANTS
  Addresses,  \* first bytes of a message, as eight bits each; the last is R/W
  Own,        \* those the device answers
  Payloads    \* other bytes

ASSUME I2cAssumption ==
  /\ Own \subseteq Addresses
  /\ Addresses \cup Payloads \subseteq [1 .. 8 -> {0, 1}]

VARIABLES
  SDA, SCL,  \* what the master sets; m_nLastSDA and m_nLastSCL too
  op,        \* the operation called last
  made,      \* settings it has made
  got,       \* bits read by it
  sent,      \* the byte written last
  rw,        \* the last bit of the message's first byte
  device,    \* the other end
  lastBit    \* history: the initialisation found it with all the bits of a byte

I2cVars == <<SDA, SCL, op, made, got, sent, rw, device, lastBit>>

-----------------------------------------------------------------------------
(* The device: where it is in a message, the bits it has received, those   *)
(* it has still to send, what it holds SDA at, and the byte it sent last.  *)

Silent(d) == [d EXCEPT !.mode = "off", !.out = 1]

Load(d, byte) ==
  [d EXCEPT !.mode = "send", !.left = Tail(byte), !.out = Head(byte), !.byte = byte]

\* SDA changes while SCL is high: a message begins or ends.
Framing(d, level) ==
  IF level = 0 THEN [d EXCEPT !.mode = "address", !.bits = <<>>, !.out = 1] ELSE Silent(d)

\* SCL rises: SDA is read.
Rising(d, level) ==
  IF d.mode \in {"address", "data"} THEN [d EXCEPT !.bits = Append(@, level)]
  ELSE IF d.mode = "asked" THEN [d EXCEPT !.mode = IF level = 0 THEN "more" ELSE "off"]
  ELSE d

\* SCL falls: SDA may change.  A device may not answer its own address, nor
\* take a byte.
Falling(d) ==
  IF d.mode \in {"address", "data"} /\ Len(d.bits) = 8
  THEN {[d EXCEPT !.mode = "refused"]}
       \cup IF d.mode = "address" /\ d.bits \notin Own THEN {}
            ELSE {[d EXCEPT !.mode = IF @ = "address" /\ d.bits[8] = 1 THEN "turn" ELSE "taken",
                            !.out = 0]}
  ELSE IF d.mode = "refused" THEN {Silent(d)}
  ELSE IF d.mode = "taken" THEN {[d EXCEPT !.mode = "data", !.bits = <<>>, !.out = 1]}
  ELSE IF d.mode \in {"turn", "more"} THEN {Load(d, byte) : byte \in Payloads}
  ELSE IF d.mode = "send"
       THEN IF d.left = <<>> THEN {[d EXCEPT !.mode = "asked", !.out = 1]}
            ELSE {[d EXCEPT !.left = Tail(@), !.out = Head(d.left)]}
  ELSE {d}

\* The line is low if either end holds it low.
Level(sda, d) == IF sda = 1 THEN d.out ELSE 0
Bus == Level(SDA, device)

\* What the device makes of the lines going to sda and scl.
Noticed(d, sda, scl) ==
  LET level == Level(sda, d) IN
  IF SCL = 1 /\ scl = 1 THEN IF level = Bus THEN {d} ELSE {Framing(d, level)}
  ELSE IF scl = 1 THEN {Rising(d, level)}
  ELSE IF SCL = 1 THEN Falling(d)
  ELSE {d}

-----------------------------------------------------------------------------
(* The scripts, as the lines stand when the next setting is made.         *)

Set(sda, scl) == [sda |-> sda, scl |-> scl, read |-> FALSE]
SetAndRead == [sda |-> 1, scl |-> 1, read |-> TRUE]  \* i2c_master_getDC after the setting

Clocks(n, high) == [i \in 1 .. 2 * n |-> IF i % 2 = 1 THEN Set(1, 0) ELSE high]

i2c_master_start == <<Set(1, SCL), Set(1, 1), Set(0, 1)>>

i2c_master_stop == <<Set(0, SCL), Set(0, 1), Set(1, 1)>>

\* Mutant of i2c_master_init: too few clocks for what the device may be sending.
i2c_master_init_Short ==
  <<Set(1, 0), Set(0, 0), Set(1, 0)>> \o Clocks(4, Set(1, 1)) \o i2c_master_stop

i2c_master_init ==
  <<Set(1, 0), Set(0, 0), Set(1, 0)>> \o Clocks(28, Set(1, 1)) \o i2c_master_stop

i2c_master_setAck(level) ==
  <<Set(SDA, 0), Set(level, 0), Set(level, 1), Set(level, 0), Set(1, 0)>>

i2c_master_getAck == <<Set(SDA, 0), Set(1, 0), SetAndRead, Set(1, 0)>>

i2c_master_readByte == <<Set(SDA, 0)>> \o Clocks(8, SetAndRead) \o <<Set(1, 0)>>

\* The bits from the highest on.
Bits(byte) ==
  [i \in 1 .. 24 |-> Set(byte[((i - 1) \div 3) + 1], IF i % 3 = 2 THEN 1 ELSE 0)]

i2c_master_writeByte(byte) == <<Set(SDA, 0)>> \o Bits(byte)

\* A reset releases the lines, one or the other first.
Released == {"SDA released", "SCL released"}

Script ==
  CASE op = "SDA released" -> <<Set(1, SCL), Set(1, 1)>>
    [] op = "SCL released" -> <<Set(SDA, 1), Set(1, 1)>>
    [] op = "init" -> i2c_master_init
    [] op = "start" -> i2c_master_start
    [] op = "stop" -> i2c_master_stop
    [] op = "write" -> i2c_master_writeByte(sent)
    [] op = "answer" -> i2c_master_getAck
    [] op = "read" -> i2c_master_readByte
    [] op = "ack" -> i2c_master_setAck(0)
    [] op = "nack" -> i2c_master_setAck(1)

-----------------------------------------------------------------------------

Over == made = Len(Script)

Begin(name) ==
  /\ Over /\ op' = name /\ made' = 0 /\ got' = <<>>
  /\ UNCHANGED <<SDA, SCL, device>>

\* The operations that write no byte.
Plain(name) == Begin(name) /\ UNCHANGED <<sent, rw, lastBit>>

ResetI2c ==
  /\ op' \in Released /\ made' = 0 /\ got' = <<>>
  /\ UNCHANGED <<SDA, SCL, sent, rw, device, lastBit>>

\* i2c_master_gpio_init, after it has set both lines high.
i2c_master_gpio_init ==
  /\ op \in Released /\ Begin("init")
  /\ lastBit' = (device.mode \in {"address", "data"} /\ Len(device.bits) = 8)
  /\ UNCHANGED <<sent, rw>>

\* The device has answered and is to send, or to receive.
Granted(bit) == op = "answer" /\ got = <<0>> /\ rw = bit

\* A message starts on a free bus, or in place of a stop.
StartMessage ==
  /\ op \in {"init", "stop", "answer", "nack"} /\ ~Granted(1)
  /\ Plain("start")

StopMessage ==
  /\ op \in {"answer", "nack"} /\ ~Granted(1)
  /\ Plain("stop")

\* An address after a start, then bytes as long as the device takes them.
Write(byte) ==
  /\ \/ op = "start" /\ byte \in Addresses /\ rw' = byte[8]
     \/ Granted(0) /\ byte \in Payloads /\ UNCHANGED rw
  /\ Begin("write") /\ sent' = byte /\ UNCHANGED lastBit

\* i2c_master_checkAck: whether what getAck reads is 0.
CheckAck == op = "write" /\ Plain("answer")

ReadByte ==
  /\ op = "ack" \/ Granted(1)
  /\ Plain("read")

\* i2c_master_send_ack for more, i2c_master_send_nack for the last byte.
SendAck(level) ==
  /\ op = "read"
  /\ Plain(IF level = 0 THEN "ack" ELSE "nack")

\* i2c_master_setDC, and i2c_master_getDC where the script reads.
i2c_master_setDC ==
  /\ ~Over /\ made' = made + 1
  /\ LET setting == Script[made'] IN
     /\ SDA' = setting.sda /\ SCL' = setting.scl
     /\ device' \in Noticed(device, SDA', SCL')
     /\ got' = IF setting.read THEN Append(got, Level(SDA', device')) ELSE got
  /\ UNCHANGED <<op, sent, rw, lastBit>>

\* Power on: both lines are up, and the device listens to nobody.
I2cInit ==
  /\ SDA = 1 /\ SCL = 1 /\ op = "SDA released" /\ made = 2 /\ got = <<>>
  /\ sent = <<>> /\ rw = 0 /\ lastBit = FALSE
  /\ device = [mode |-> "off", bits |-> <<>>, left |-> <<>>, out |-> 1, byte |-> <<>>]

I2cNext ==
  \/ i2c_master_setDC \/ i2c_master_gpio_init \/ StartMessage \/ StopMessage \/ CheckAck \/ ReadByte
  \/ \E byte \in Addresses \cup Payloads : Write(byte)
  \/ \E level \in {0, 1} : SendAck(level)
  \/ ResetI2c

I2cSpec == I2cInit /\ [][I2cNext]_I2cVars

-----------------------------------------------------------------------------

\* A device that has all the bits of a byte when it is initialised takes them
\* at the first fall of the clock and every ninth clock after: it acknowledges on
\* the 28th, and neither hears the stop nor frees SDA.  Then nothing is promised.
Clear == ~lastBit

Moving == {"start", "stop", "init"} \cup Released

\* SDA stands still while SCL is high, but where a message begins or ends:
\* bytes and answers are never taken for a start or a stop, and an operation
\* moves one line at a time.
SteadyWhileHigh ==
  Clear /\ op \notin Moving =>
    /\ SCL = 1 /\ SCL' = 1 => Bus' = Bus
    /\ SDA' = SDA \/ SCL' = SCL

\* A start is heard, and after a stop, or after the initialisation whatever
\* else the device was doing when the processor was reset, the bus is free.
BusFramed ==
  Over /\ Clear =>
    /\ op = "start" => device.mode = "address" /\ device.bits = <<>>
    /\ op \in {"stop", "init"} => device.mode = "off" /\ Bus = 1 /\ SCL = 1

\* The bytes of a message are those the other end wrote, and its answers are
\* those it gave.
TransferRight ==
  Over /\ Clear =>
    /\ op = "write" => device.bits = sent
    /\ op = "answer" => (got = <<0>> <=> device.mode \in {"data", "send"})
    /\ op = "read" => got = device.byte

\* What both ends have of a message is the same, at every clock and after every
\* operation.
BusRight == [][SteadyWhileHigh /\ BusFramed' /\ TransferRight']_I2cVars
=============================================================================
