# Verification of the GoKit SoC firmware

The repository is the firmware of the Gizwits GoKit on an ESP8266: a device
with an RGB light, a motor, an infrared sensor, a DHT11 climate sensor and two
keys, driven from an app through the Gizwits cloud. The closed library
`libgagent.a` speaks to the cloud; the code under `app/` stores what it issues,
drives the hardware and reports changes. `app/driver/` also carries the SDK's
drivers for the UARTs, SPI, I2C, keys and the hardware timer. These modules
model that code, TLC checks them on small instances, and TLAPS proves the main
safety results for every value of the constants.

## 1. The system

### Contexts

The SDK schedules cooperatively: a task or timer handler runs to its end, then
the next one is chosen. What interleaves is the order of handlers, and the
interrupt handlers, which come in between any two instructions.

| Context | Runs | Code |
|---|---|---|
| libgagent (`gagentProcessRun`, priority 1) | calls `gizIssuedProcess`, `gizWiFiStatus` | external; entry points in `gizwits_protocol.c` |
| `gizTask`, priority 2 (highest) | drains a queue of 200 signals | `gizwits_protocol.c:859` |
| `gizwitsUserTask`, priority 0 (lowest) | drains a queue of 200 signals | `user_main.c:206` |
| `gizTimerFunc`, every 1 ms | counts time, posts the ten-minute report | `gizwits_protocol.c:836` |
| `userTimerFunc`, every 100 ms | samples the sensors, posts to the user task | `user_main.c:159` |
| `gokitKeyHandle`, every 10 ms | debounces the keys, calls the key callbacks | `hal_key.c:149` |
| `uart0_rx_intr_handler` | interrupt of UART0 | `uart.c:212` |
| `key_intr_handler`, `spi_slave_isr_handler`, `hw_timer_isr_cb` | interrupts of drivers the product does not start | `key.c`, `spi.c`, `hw_timer.c` |

### Components, their state and operations

| Component | State | Operations | Hard behaviour |
|---|---|---|---|
| Protocol core (`gizwits_protocol.c`) | `gizwitsProtocol` (event list, transparent buffer, current and last data points, tick counter), `lastStatus`, `lastReportTime`, `repCtime` | `gizIssuedProcess`, `gizWiFiStatus`, `gizTask`, `gizTimerFunc`, `gizwitsHandle`, `gizwitsSetMode`, `gizwitsPassthroughData`, the clock helpers | one event list and one buffer shared by three producers; posts whose result is ignored; a wrapping counter |
| Event handler (`gizwits_product.c`) | `currentDataPoint` | `gizwitsEventProcess` | several events of one list drive one light |
| User application (`user_main.c`) | `currentDataPoint`, `thCtime`, `irCtime` | `user_init`, `userTimerFunc`, `gizwitsUserTask`, key callbacks | restart loses everything but the cloud's view |
| Keys (`hal_key.c`) | `Key_State`, `Key_Prev`, `Key_LongCheck`, `keyCountTime` | `keyStateRead`, `gokitKeyHandle`, `keyParaInit` | debouncing, long presses, chords |
| Interrupt-driven keys (`key.c`) | `key_level`, two timers a key, the edge waited for | `key_intr_handler`, `key_5s_cb`, `key_50ms_cb` | the handler preempts the callbacks; the pin moves between a read and the choice of the edge |
| Climate sensor (`hal_temp_hum.c`) | `temphum_typedef` | `dh11Read`, `dht11ReadData`, `dht11Rst` | a ring of ten samples and its mean; bit timing; a sensor that falls silent |
| Motor, light (`hal_motor.c`, `hal_rgb_led.c`) | `motorParam`, the chips' shift registers | `motorControl`, `rgbControl`, initialisation | conversions; a reset in mid-frame; pins shared by masks |
| UART (`uart.c`) | FIFOs, `UART_INT_ENA`, two rings, line settings | the interrupt handler, the ring functions, `UART_*` | read-modify-write against the handler; full rings; two looks at moving bytes |
| SPI (`spi.c`) | controller registers; the slave's buffers and flags | master calls, `spi_slave_isr_handler` | calls that return before the end; flags cleared unseen |
| SPI overlap (`spi_overlap.c`) | saved registers, `spi_reg`, the device selected | `hspi_overlap_init`, `hspi_dev_sel`, flash reads | each selection writes only differences |
| I2C (`i2c_master.c`) | two lines | start, stop, bytes, answers, initialisation | a device left in mid-message by a reset |
| Hardware timer (`hw_timer.c`) | FRC1 registers | `hw_timer_arm`, autoload | a product that would wrap |
| JSON helpers (`user_json.c`) | a buffer and a position | `find_json_path`, `json_ws_send` | paths by prefix; a buffer that fills up |
| `hal_infrared.c`, `gpio16.c` | none | one pin read | |
| `tools/`, `libgagent.a`, the SDK | | external or build time | |

`libgagent` hands a control message to `gizIssuedProcess`, which appends one
event per flagged point to `issuedProcessEvent`, stores the values in
`gizCurrentDataPoint` and posts `SIG_ISSUED_DATA`. `gizTask` then has
`gizwitsEventProcess` copy the values into `currentDataPoint` and drive the
hardware, which posts to the user task. That task compares `currentDataPoint`
with `gizLastDataPoint` and reports. A WiFi status is handled at once, unless it
is 0, through the same event list; a transparent payload through the same list and the same
queue. The drivers share no state with this or with each other, but for the
pins of the board, which are one component (`Board`).

### What makes it correct

- Protocol core: events stay inside their array (they do not, section 3); as
  long as they do, no event or payload is stranded but by a full queue; a
  command is executed, waiting, or lost in one of the known ways; what the
  handler is told of the link adds up to the last status that was not 0; the cloud only ever sees reported values;
  climate reports are paced; a change always wakes the user task; a command
  reaches the cloud as issued; what is packed is what is unpacked.
- Event handler: the last event that drives the light wins.
- Keys: a callback only after a stable press of the right length, at most one
  per press of a single key; a pattern held is recognised. With interrupts: no
  key goes dead, bounces do not multiply callbacks, a key let go of rests.
- Climate sensor: a reading ends and is what the sensor sent; the value is the
  mean of the last ten samples.
- Board: the light shows and the motor follows what was asked for last; nobody
  drives a pin that is an input.
- UART: the rings are queues; their space is exact; transmission and reception
  go on; the registers hold the settings asked for.
- SPI, I2C: one device is driven, as it needs; both ends agree on what was sent.

## 2. Modules

| Module | Models |
|---|---|
| `GizDataPoints` | `dataPoint_t`, the wire form (`gizX2Y`, `gizY2X`, `gizDataPoints2ReportData`) and `gizCheckReport`, as operators |
| `GizEvents` | the events of a control message (`gizDataPoint2Event`) and of a status (`gizWiFiStatus`), and `gizwitsEventProcess` in closed form |
| `EventLoop` | `gizwitsEventProcess` run event by event, compared with the closed form |
| `GizProtocol` | the protocol core: all contexts of the first six rows above as actions over the shared state |
| `GizPassthrough` | `gizwitsPassthroughData` and the heap it takes its buffer from |
| `GizTime` | `gizTimeMs`, `gizGetIntervalsMs` against a clock that goes on between two reads |
| `BitPacking` | the bit fields of the wire form: `gizCompressValue`, `gizByteOrderExchange`, `gizDecompressionValue` |
| `HalKey` | `keyStateRead` and `gokitKeyHandle` |
| `KeyIntr` | `key.c`: interrupt handler, timers, pins |
| `TempHum` | `dh11Read` over the outcomes of `dht11ReadData` |
| `SlidingMean` | what `dh11Read` promises: the mean of the last answers |
| `Dht11Line` | `dht11ReadData` tick by tick against the sensor |
| `Board` | light, motor, and who drives which pin |
| `Uart` | FIFOs, interrupts and rings of `uart.c`, handler against task |
| `UartRing` | the bytes in a ring and the pointers' wrapping |
| `ByteQueue` | what a ring promises: a bounded queue |
| `UartLine` | the line settings in the bits of three registers |
| `SpiMaster`, `SpiSlave` | `spi.c` in its two roles |
| `HspiOverlap` | `spi_overlap.c` |
| `I2cMaster` | `i2c_master.c` and a device on the bus |
| `HwTimer` | `hw_timer.c` |
| `UserJson` | `find_json_path`, `json_putchar`, `json_ws_send` |
| `MC...` | compositions and values for TLC |
| `..._proofs` | theorems: of `GizProtocol`, `EventLoop`, both key drivers (`Keys_proofs`), `TempHum`, the UART's modules (`Uart_proofs`), the SPI drivers' and the I2C driver's (`Bus_proofs`), and the rest (`Drivers_proofs`) |
| `Induction` | induction over the naturals and the existence of recursively defined functions, as lemmas |

`GizProtocol` extends `GizEvents`, which extends `GizDataPoints`. It takes other
modules' results as its inputs: `UserTimer` lets the climate sensor deliver a
mean or fail, which is `TempHum`; `TempHum` takes a reading with one of three
outcomes, which is `Dht11Line`; `ConfigKey` and `Reboot` are the callbacks of
`HalKey`; the colour and the speed `gizwitsEventProcess` sets are the inputs of
`Board`; `Wire` packs the fields of this product, which `BitPacking` does for
any fields. `TempHum` implements `SlidingMean` under the mapping `window <-
Window`, the ring unrolled; `UartRing` implements `ByteQueue` under `queue <-
Contents(ring)`.

Parts that share no state need not be interleaved. `MCDrivers` (what the board
does, the serial drivers, the helpers and the event loop) and `MCInputs` (the two
key drivers and the wire of the climate sensor) put such parts side by side and
let one of them run (`machine`, `input`); the variables of the others stay where
they start. The state count of such a run is a sum and not a product. The light
and the motor are one module, as they share `user_init` and the pins, but after
`user_init` each runs by itself.

### GizProtocol

Its variables carry the names of the code. `issuedProcessEvent` is the list
`event[0..num-1]`, `gizTaskQueue` the signals posted to `gizTask`,
`userTaskQueue` the number of `SIG_UPGRADE_DATA` posted to the user task (they
are all alike). `transparentBuff` is a payload or `NoData`, the cleared buffer.
`cloud` is what the device last sent. `told`, `lost`, `stranded` and
`sincePaced` are history: no action reads them.

`stranded` holds the signals whose last post was refused by a full queue that
had none that does their work. `Serving` says which do: `gizTask` empties the
event list at `SIG_ISSUED_DATA` and at `SIG_PASSTHROUGH`. `overrun` is set when
an event is stored behind `event[EVENT_TYPE_MAX]`. The list is the last member
of `gizwitsProtocol`, so something else in memory is gone then, and the model
ends but for a restart.

| Action | Code |
|---|---|
| `ControlDevice`, `ReadStatus`, `Transparent` | the three cases of `gizIssuedProcess` |
| `WiFiStatus` | `gizWiFiStatus`, with the call of `gizwitsEventProcess` inside it |
| `IssuedData`, `Passthrough`, `ImmReport` | the three signals of `gizTask` |
| `Tick` | `gizTimerFunc` |
| `UserTimer` | `userTimerFunc`; the sensors deliver any value of a small set, or fail |
| `UserTask` | `gizwitsUserTask` and `gizwitsHandle` |
| `ConfigKey` | `key2ShortPress`, `key2LongPress` |
| `Reboot` | a restart, also the one `key1LongPress` asks for |

A handler is one action, since nothing preempts it; the loop of
`gizwitsEventProcess` is one step, and `EventLoop` is the evidence that its
closed form is what the loop computes. A control message is a partial function
from writable points to wire values; a point outside its domain has its flag
clear. Alerts and faults are left out, as no code assigns them. `gizWiFiStatus`
passes the address of a one-byte variable as the data of all events in the
list: `LED_OnOff`, the first byte of `dataPoint_t`, then takes the signal
strength, and the other points whatever lies behind it on the stack
(`Garbage`). `LED_OnOff` is an `unsigned char` and keeps that value; on the
wire it runs over into the bits of `LED_Color`, as `Wire` does.

### Keys

In `HalKey`, `Press` and `Release` are the environment; the other actions are
timer ticks: `BetweenSamples` between two samples, then one action per branch of
`keyStateRead` (`Capture`, `Confirm`, `ShortPress`, `Hold`, `LongPress`,
`Restore`) together with the callbacks `gokitKeyHandle` makes. The machine
compares whole patterns, so a key pressed along with another disturbs it:
releasing one of two held keys calls the short callbacks of both. `OncePerPress`
is therefore stated for presses during which no sample saw two keys (`mixed`).
`seen` and `calls` are history and are capped where the properties no longer
tell values apart.

In `KeyIntr` a pin may change between any two steps. The handler reads
`GPIO_STATUS` (`ReadStatus`), and for each key disables and clears its interrupt
(`ServeBegin`), then starts a timer and chooses the next edge (`ServeEnd`); the
50 ms callback reads the pin (`CheckBegin`) and then decides (`CheckEnd`), with
the handler free to run in between. `raced` marks the keys whose pin changed
inside one of those windows (key.c:80, 113-122, 152): for the others the edge
waited for is the right one. Delays are not modelled; an armed timer fires at
any time.

### Sensor, light, motor

A frame in `TempHum` is no answer, a sample, or a frame with a wrong checksum;
the last is `BadFrame`, because `dht11ReadData` returns 0 and leaves the
caller's zeros, so that `dh11Read` averages a zero. `Dht11Line` is where these
outcomes come from: time is in ticks of 5 us, each tick of a polling loop looks
at the wire, the sensor may be missing or die in any phase, and something else
may have the processor for a moment (`Interrupted`), once a bit at most.

`Board` follows two sets of pins, those whose output is enabled and those routed
to the GPIO unit. `user_init` is a sequence of steps (`boot`); the light's frame
is clocked out bit by bit, with a reset possible between any two.

### UART

`Uart` counts bytes and follows control: each access of the task to a register
or to `Space` is a step of its own (`pc`), and the handler runs between any two.
`seen` is what the task has read and will write back. `uart_config` is such a
sequence too (reset the FIFOs, read and write the mask, clear what is latched,
read and write the mask again), since `uart_reattach` runs it with the interrupts
enabled. `UART_SetIntrEna` is called with any mask of `Masks`. `Builds` holds both
values of `UART_BUFF_EN`: this build has it off, so that the handler throws away
what it receives. `UartRing` has the bytes and the four ways the functions wrap;
memory behind the ring holds `Other`, so that a byte out of place shows.
`UartLine` has the settings, bit by bit.

### SPI, I2C, timer, JSON

`HspiOverlap` keeps the registers `hspi_dev_sel` writes as sets of bits and asks
which chips take part in a transfer. `SpiMaster` compares the frame a call sends
with the one it is meant to send; `SpiSlave` has the other side start a transfer
between any two steps of the handler. In `I2cMaster` an operation is a script of
settings of SDA and SCL, executed one at a time with a device listening; a reset
leaves the device where it is, and `i2c_master_init` must free the bus.
`HwTimer` computes in words that wrap at `WORD`, of which the load register keeps
23 bits (`LOAD`). `UserJson` keeps a text as the value it belongs to and a
position in it. A path is the sequence of what stands between its slashes, so
that an empty path, a slash at the end and two in a row are there: `os_strncmp`
with length 0 finds the first name. `os_malloc` may fail; a write through NULL,
behind the block or behind the ten places of `json->values` ends the model
(`crashed`, `corrupt`).

### Runs

| Run | Question | Bounds |
|---|---|---|
| `commands` | Do control messages, payloads and statuses sharing a list and a queue strand anything, lose commands or miss link changes? | bursts of 3 calls; a queue of 2, so that posts are refused; messages with one flag and with all; statuses with none, some and all bits; 8 places for events, enough for a message of six and an edge, and not for two messages |
| `reports` | Are changes always signalled, only reported values sent, climate reports paced? | tick counter modulo 5, pacing 3, so it wraps; user queue of 2, so posts are refused; one restart |
| `liveness` | Does a command reach the cloud, and does the cloud catch up? | bursts of 2, a queue of 1, 2 places for events, one restart |
| `inputs` | Do keys pressed, bouncing and released at any time get the right callbacks; does no key go dead and every pattern held settle? Is what the climate sensor sent what is read? | the board's 2 keys; 3 ticks per sample as in the code; a long press of 4 samples instead of 100, enough for presses that end at each count; a frame of five 2-bit bytes with a right, a wrong and a wrapping checksum |
| `drivers` | Is each other driver right against its device, over every sequence of calls? | see below |
| `control_lost` | violated: is `gizCurrentDataPoint` the current state when no command waits? | |
| `empty_payload` | violated: does a `TRANSPARENT_DATA` event have data to fetch? | |
| `event_overrun` | violated: does `event[]` hold the events `num` counts? | bursts of 4; the code's 21 places |
| `packing_across` | violated: do fields across two bytes survive packing? | as in `drivers` |
| `passthrough` | violated: does an upload with data and memory succeed? | heap of 2 buffers |
| `intervals` | violated: does `gizGetIntervalsMs` return the interval since the last query? | milliseconds of 4 us, a counter that wraps at 30 |
| `pins` | violated: are the keys' pins inputs? | one colour, one speed |

Bounds of `drivers`, by part:

- UART: rings of 4 and FIFOs of 3, so that both fill and wrap; strings of 1, so
  that every interleaving of handler and task with a ring at each fill level
  occurs; two byte values in the rings; thresholds of 110, the driver's own for
  flow control, and 255, all bits of a byte;
- climate ring of 4, refilled while full, two samples and zero;
- up to three packed fields of 2, 5 and 7 bits, at four offsets in two bytes;
- SPI: two clock and edge configurations for the overlapping devices; flash
  reads of 0 to 97 bytes, on either side of the pieces of 32 and of a word;
  slave buffers of two words. A frame fills a buffer with equal words, so a
  change of their order would not show;
- I2C: addresses of the device and of another, both directions, two bytes;
- light and motor: a colour and dark; speeds at zero, inside, at the end of and
  beyond the range;
- timer: words of 90, so that delays just below and above the threshold of 11
  would and would not wrap, and a load register of 64, which the longest delay
  does not fit;
- intervals: as in the run `intervals`, from a counter at 0 and just before its
  wrap;
- JSON: a block of 3 for texts of up to 5, so that texts end before, at and
  behind its end; paths of up to 3 parts, with empty ones; a tree deeper than the
  3 places of `values`;
- event lists of up to three of the events that drive light or motor.

`MaxBurst` bounds the calls `libgagent` makes before `gizTask` has drained its
queue. The code has no such bound: it is a guard that keeps the states finite,
any positive value will do for the proofs, and it is chosen so that the hazard occurs.
`event_overrun` has the code's 21 places and shows that four messages are too many.
`commands` and `liveness` have fewer places, so that they meet overruns within
their bursts, and queues shorter than a burst, so that they meet refused posts.
Their properties say what holds up to an overrun, and what after a refused post
(`stranded`).

Some properties of `drivers` and `inputs` are conjunctions of named parts, each
with its own comment: `DrivenAsMeant` (one chip answers, with its own clock and
mode), `BuffersPassed`, `BusRight`, `ReadingRight`, and `RingIsQueue` (a
queue, inside its memory). Where the code has an exception the
property names it: a late initialisation (`late`), a 9-bit write after an
ESP8266 call (`left`), flags cleared unseen (`missed`), the bus with a device
that had all bits of a byte (`lastBit`), names shadowed by a prefix
(`Unshadowed`), delays the load register cannot hold, texts that do not fit
their block. The length register of the SPI slave is checked for the first
`spi_slave_init` only: the length is or-ed into the register, as in the model, so
that a second call with another length would leave both in it; the code has no
second call.

Fairness. In `GizProtocol` (`FairSpec`) `gizTask` and the user timer are weakly
fair: a posted signal and an armed timer are eventually served. The 1 ms tick is
disabled in the model while a burst is at its bound, and the user task runs only
when `gizTask` has nothing to do, so both need strong fairness: served if they
can be served again and again. `Drains` is assumed in the two liveness
properties: `gizTask` is not flooded for ever. A command whose signal was
refused, or an overrun, is an exception of `CommandReachesCloud`; a ten-minute
report that was refused is one of `CloudCatchesUp`. In `HalKey` the periodic timer is
weakly fair; nobody has to press or release anything. In `KeyIntr` the handler
is weakly fair, as the hardware calls it while an interrupt is latched, and the
timers are strongly fair, as they fire between calls of the handler however
often it runs. In `Uart` the handler is weakly fair; `FifoEmpty`, the last of its
causes, strongly, as it is reached whenever the others are not pending again and
again; and UART0 sends what its FIFO holds. Nothing is assumed of the task:
`AllSent` is about a task that is at rest from some point on, when no receive
interrupt is pending for ever, since those are served first. In `Dht11Line` time goes on.

### Proofs

`GizProtocol_proofs` proves every safety property of the runs `commands` and
`reports` for all constants that meet the two assumptions, whatever the sizes of
queues, list and bursts. Type correctness is inductive by itself. The others are
parts of `IInv`, which adds `ClockCounted`: `sincePaced` does not lag behind the
difference the firmware computes modulo `TickMod`, which gives the pacing across
the wrap. That a stored event or payload has its signal is inductive only
with `stranded`, which a post that is refused enters and a later one that is not,
or the serving of the signal, leaves.

`StatusEventsSet` and `FlagEventsSet` say which events a
status and a message give rise to; `CommandStep` and `ToldStep` rest on them.
`EventLoop_proofs` proves that the loop computes the closed form on every list,
by the invariant that if an event so far drives the light there is a last one
that does.

`Keys_proofs` proves `CallbacksEarned` and `OncePerPress` for any number of
keys, divider and long press count. `KeyInv` adds that a followed pattern is the
last one sampled (`Follows`), that it has been seen as often as its count says
(`LongEnough`), and that a key in it that was not pressed together with others
has had no callback before the long press (`Alone`).

`Keys_proofs` also proves `KeyAlive`, `InStep` and `CallbacksOnce` for any number
of keys. `OffIsBusy` says that an interrupt is off exactly while the handler,
the release timer or its callback has the key, and that only one of them does;
`EdgeOfLevel` ties edge and timers to `key_level`; `Believed` says that what the
driver has read is still so, unless the pin raced it; `Fallen` and `LongAhead`
carry the history from a press to its callbacks.

`Uart_proofs` proves the safety properties of `Uart` for any sizes of FIFOs and
rings and for both builds. They are not inductive: `Masked` says that the
transmit interrupt is off from the task's write of the mask to its write of
`Space`, and that what it has read of `Space` is still there; `SeenGood` that
the mask it will write back is harmless even if the handler has changed the
register since; `Enabling` what `uart_config` has enabled by each of its steps,
so that reception is on when it ends whatever the handler did meanwhile;
`RoomLasts` and `EmptyLasts` that what it saw of a FIFO still
holds when it acts on it, but for what the handler may have done.

The rings of `UartRing` are queues (`RingIsQueue`) for any size and any strings:
`Sound` says where the bytes waiting are and that memory behind the ring is
untouched; `Stored` and `Taken` say what the functions do to the positions
in every one of their ways round the end, and each step then is one of
`ByteQueue` on the unrolled ring. `LineAsAsked` is proved bit by bit: each call
changes its own field of CONF0 or CONF1 (`Conf0Holds`, `Conf1Holds`) although
some of them write bits without clearing the field first, because of what
`UartDev` can hold.

`Bus_proofs` proves `DrivenAsMeant` for all settings of the devices.
`OverlapInv` says that no device is active before the registers are backed up
(`NotBefore`), what the two backed up sets hold of mode and edge (`BackedUp`),
and who has the pins and which select line is on (`PinsOK`); with these the
timing and the mode of the selected chip are inductive. For `FlashRead`, for any
length and any buffer that is a number of words, `SplittingExists` turns the
reading loop into a function of what is left, and `ChunksSplit` shows by
induction on that that each byte lies in one piece. `BuffersPassed` needs
`Pending` (a flag will be looked at again, or has been), and `LastCopied`: the
last buffer is still noted or has been copied as far as the handler has come.
`FramesAsMeant` needs `LcdBits`, the nine bits of an LCD write by their powers
of two, and that phases are left over only by calls to an ESP8266 slave.

`BusRight` is proved for any bytes and any set of addresses. `I2cInv` says where the
device stands at every setting of every script: how many bits of a written byte it
has (`WriteInv`), which bits of a read one are still to come (`ReadInv`), what it
holds SDA at while it is asked or asks for an answer (`AnswerInv`, `AckInv`). The
scripts are sequences, so their settings are looked up by position (`ShortScripts`,
`LongScripts`). The hard part is the initialisation: a device may be anywhere in a
message when its 28 clocks begin. `Settling` bounds by the falls that remain what
it can still be doing; for one that receives the bits it has and the falls that
remain keep their sum modulo nine, so it answers on no last clock unless it had
all bits of a byte at the beginning, the case `lastBit` names.

`TempHum_proofs` proves that `dh11Read` implements `SlidingMean`, for rings of
up to ten places. `RingInv` says when the ring has been full; `ReadSlides` that
a reading drops the oldest sample and adds the new one, wherever the index
stands (`RingSlides`); `MeanGoesRound` that the sum over the ring and the sum
over the window, which starts elsewhere, are the same, and `RingMean` that the
16-bit loop does not overflow.

`Drivers_proofs` has the smaller parts. `RoundTrip`, for any number of fields,
bytes and values, bit by bit: `CompressBits` and `DecompressBits` characterise
the two functions, `AddsInCells` and `ReadsInCells` confine them to the field's
own bits, and `NoStray` (no bit outside the packed fields is set) makes the
invariant inductive. `OnTime`, for delays whose ticks `FRC1_LOAD` can hold, is
inductive; its proof is the arithmetic of `US_TO_RTC_TIMER_TICKS` on both sides of
`THRESHOLD`. `MotorFollows` needs that memory,
channels and output are one (`MotorInv`). `LightShows` needs where the two
chips are in a frame (`ChipsSent`): the 32
zeros drop what was half received before a reset, the first chip takes the first
copy of the colour and the second what the first passes on. `IntervalRight`, for
calls that begin in a later millisecond while the counter has not wrapped, needs
`TimeInv`: until then the time is what was kept and what has passed since, and a
call under way has looked in between.
`TextOfNamed` needs `WalkInv`: each value entered is the first child of the one
before whose name begins with the path's part (`Stepped`), and the place reached is
the last of them or nothing (`Reached`); `NamedWalk` compares that with whole names
step by step. `TextInv` says that the block holds as much of the beginning of one
text as is let in, and that the rest is still to come (`Between`), so that a text
handed on inside the block is whole.

Sums, walks and splittings are recursive functions. `Induction` has what the
proofs about them need without a parameter that is an operator: the least
element of a set of naturals, induction over a set, and the existence of a
function defined by its first value and its steps (`RecursionExists`) or by
steps from any value before (`JumpingRecursionExists`).

The assumptions are those named in the modules that declare the constants; each
says what the code's constants and argument types guarantee: `TimerAssumption`
that a delay's ticks fit a word of 32 bits (the driver's comment bounds delays
by 0x7fffff; whether they fit the load register is not assumed), `CounterAssumption`
that a millisecond is shorter than the counter's wrap, `MaskAssumption` that callers
enable interrupts there are, `HspiAssumption` that the buffer is a number of words (32 bytes),
`SpeedsAssumption` and `ColoursAssumption` the ranges of the handlers' data
points, `JsonAssumption` that a tree's children have names and values.

Only model-checked: liveness (`CommandReachesCloud`, `CloudCatchesUp`,
`PatternSettles`, `LeftAloneRests`, `AllSent`), since the prover handles neither fairness nor
ENABLED, and `ReadingRight`, whose last part says that a reading ends.

## 3. What the runs found

- `gizTask` overwrites the event list on `SIG_PASSTHROUGH`: if a payload has
  queued its signal and a command then stores its events, serving the payload
  throws them away, although `gizCurrentDataPoint` holds their values
  (`control_lost`).
- There is one transparent buffer; of two payloads before `gizTask` runs the
  first is overwritten and the second event finds the buffer cleared
  (`empty_payload`).
- Nothing compares `num` with the 21 places of `event[]`: four messages with all
  flags before `gizTask` runs store 24 events (`event_overrun`).
- `gizCompressValue` loses bits of a field across two bytes that starts below
  bit 4; the product has no such field (`packing_across`).
- `gizwitsPassthroughData` fails when memory is available; the product does
  not call it (`passthrough`).
- `gizGetIntervalsMs` returns 0xffffffff in the millisecond of the last query, and
  after the wrap of the counter a difference modulo 2^32 ms, where its comment
  promises the interval (`intervals`).
- The masks of `dht11Rst` and `rgbGpioInit` are pin numbers and not bits:
  reading the climate sensor makes the pin of key 1 an output (`pins`).

Behaviour that the models show and that no document speaks of:

- a frame with a wrong checksum counts as a sample of zero; of two keys held
  together the release of one calls both short callbacks; after a restart the
  cloud shows old values until the ten-minute report;
- in `key.c` any glitch gives a short callback, a long press is followed by a
  short one, and an edge in the window before the next edge is chosen is lost;
- in `uart.c` the handler reads out and drops what it receives, so that
  `Uart_rx_buff_enq` may store bytes it never received; endless reception
  starves transmission; a second `uart_init` makes new rings, and bytes waiting
  in the old are gone;
- in `spi_overlap.c` a device on HSPI's own pins initialised while the flash is
  selected answers together with it;
- in `spi.c` a 9-bit write after a call to an ESP8266 slave sends that call's
  phases too, and a slave flag that rises between the read and the clear is
  lost;
- the initialisation of `i2c_master.c` does not free the bus if the device has
  all bits of a byte: it acknowledges on the 28th clock;
- a part of a JSON path matches by prefix, and an empty one anything; what it finds is
  stored one deeper with no look at the ten places of `json->values`;
- `hw_timer_arm` computes the ticks of a long delay without overflow, but
  `FRC1_LOAD` has 23 bits: at 5 ticks a microsecond that is 1.68 s, less than the
  0x7fffff us (8.4 s) its comment allows;
- `gizIssuedProcess` returns 0 also for a command whose post was refused; the events
  wait for the next signal.

`json_ws_send` has a comment, but `TextOfNamed` names what happens as an exception and
has no run of its own: `json_putchar` lets one character more than `jsonSize` into
the block, line 128 clears the place behind the text, and the result of `os_malloc` is
not looked at. The comments at user_json.c:112-116 speak of 128 bytes and of
truncation at 512, `user_json.h:7` of 2*1024. A text that does not fit is not
truncated but written behind the block.

## 4. Not modelled

| Part | Why |
|---|---|
| `hal_infrared.c`, `gpio16.c` | one pin is configured once and read; there is no state, and `UserTimer` takes the reading as an input |
| `UART_WaitTxFifoEmpty`, `uart_recvTask`, `uart_test_rx` (`uart.c`) | a polling loop; a task that is never registered; a self-test that is not built |
| `hspi_master_readwrite_repeat`, `spi_task` and the test functions at the end of `spi.c`, `rgbSensorTest`, `motorSensorTest` and the like | demonstrations that print and send patterns; nobody calls them |
| `json_parse` (`user_json.c`) | walks the SDK's parser and calls back; keeps nothing |
| `gizTimeS` | as `gizTimeMs`, never called; it does not return seconds |
| `tools/gen_appbin.py`, `make_cert.py` | file conversion at build time |
| `libgagent.a`, the SDK and its headers (`src/include`) | external: closed libraries and declarations; assumed cooperative, with bounded queues |

The content of alerts and faults, logging, Wi-Fi configuration inside
`gagentConfig`, and the one second key 1 keeps the processor busy in
`gizMSleep` are left out: nothing in `app/` depends on them. Delays are left out
where only an order matters (`KeyIntr`, `I2cMaster`).
