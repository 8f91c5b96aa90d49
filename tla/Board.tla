-------------------------------- MODULE Board ------------------------------
(***************************************************************************)
(* The pins of the board and what user_init and the handlers make them do: *)
(* hal_rgb_led.c clocks colours into the two chips of the light,           *)
(* hal_motor.c sets the two PWM channels of the motor bridge, hal_key.c    *)
(* and hal_temp_hum.c switch pins between input and output.                *)
(*                                                                         *)
(* A pin is driven if its output is enabled and it is routed to the GPIO   *)
(* unit.  Everything runs in one task; the processor may be reset between  *)
(* any two clocks of the light, whose chips then keep what they have.      *)
(***************************************************************************)
EXTENDS Integers, Sequences

CONSTANTS
  Colours,  \* of the light: records of r, g and b
  Speeds    \* arguments of motorControl

ASSUME ColoursAssumption == Colours \subseteq [r : 0 .. 255, g : 0 .. 255, b : 0 .. 255]
ASSUME SpeedsAssumption == Speeds \subseteq -32768 .. 32767

GPIO_RGB_SCL == 15
GPIO_RGB_SDA == 4
DHT11_GPIO_PIN == 5
KeyPins == {0, 14}
PwmPins == {12, 13}

VARIABLES
  enabled,  \* pins whose output is enabled
  gpio,     \* pins PIN_FUNC_SELECT has routed to the GPIO unit
  boot,     \* the next step of user_init
  clocked,  \* bits the light has still to be sent
  rgb,      \* the colour sent last
  chips,    \* the light
  motor,    \* the argument of motorControl
  cached,   \* motorParam.duty
  duty,     \* pwm_set_duty
  running   \* the duties since pwm_start

pins == <<enabled, gpio>>
light == <<clocked, rgb, chips>>
bridge == <<motor, cached, duty, running>>
BoardVars == <<pins, boot, light, bridge>>

Channels == {0, 1}
Off == [c \in Channels |-> 0]
Black == [r |-> 0, g |-> 0, b |-> 0]

-----------------------------------------------------------------------------
(* The light.                                                              *)

\* width bits of n, the highest first.
Digits(n, width) == [i \in 1 .. width |-> (n \div 2 ^ (width - i)) % 2]

send_32zero == [i \in 1 .. 32 |-> 0]

takeAntiCode(dat) == Digits(3 - dat \div 64, 2)

\* dataDealwithSend and dataSend: flag, check bits, colour.
dataDealwithSend(c) ==
  <<1, 1>> \o takeAntiCode(c.b) \o takeAntiCode(c.g) \o takeAntiCode(c.r)
           \o Digits(c.b, 8) \o Digits(c.g, 8) \o Digits(c.r, 8)

\* Mutant of rgbControl: one data frame, as if the light were one chip.
rgbControl_One(c) == send_32zero \o dataDealwithSend(c)

rgbControl(c) == send_32zero \o dataDealwithSend(c) \o dataDealwithSend(c)

\* A chip.  After 32 zeros it takes the next frame that starts with a one and
\* passes on what follows; it passes the zeros on too.
Chip == [zeros |-> 0, taking |-> FALSE, frame |-> <<>>, shows |-> Black]

Number(bits) ==
  LET f[i \in 0 .. Len(bits)] == IF i = 0 THEN 0 ELSE 2 * f[i - 1] + bits[i] IN f[Len(bits)]

\* What a chip shows after a whole frame, if the check bits are right.
Shown(frame, before) ==
  LET c == [b |-> Number(SubSeq(frame, 9, 16)), g |-> Number(SubSeq(frame, 17, 24)),
            r |-> Number(SubSeq(frame, 25, 32))] IN
  IF /\ SubSeq(frame, 1, 2) = <<1, 1>>
     /\ SubSeq(frame, 3, 8) = Digits(3 - c.b \div 64, 2) \o Digits(3 - c.g \div 64, 2)
                                                        \o Digits(3 - c.r \div 64, 2)
  THEN c ELSE before

Takes(chip, bit) ==
  LET zeros == IF bit = 1 THEN 0 ELSE IF chip.zeros = 32 THEN 32 ELSE chip.zeros + 1
      frame == IF chip.taking /\ (chip.frame # <<>> \/ bit = 1)
               THEN Append(chip.frame, bit) ELSE <<>>
  IN
  IF zeros = 32 THEN [chip EXCEPT !.zeros = 32, !.taking = TRUE, !.frame = <<>>]
  ELSE IF Len(frame) = 32
       THEN [zeros |-> zeros, taking |-> FALSE, frame |-> <<>>, shows |-> Shown(frame, chip.shows)]
  ELSE [chip EXCEPT !.zeros = zeros, !.frame = frame]

PassesOn(chip, bit) == IF chip.taking THEN 0 ELSE bit

\* SDA_LOW or SDA_HIGH and clkProduce: the chips read SDA as SCL rises.
\* GPIO_OUTPUT_SET enables the pin it sets.
Clock ==
  /\ clocked # <<>> /\ clocked' = Tail(clocked)
  /\ chips' = [chips EXCEPT ![1] = Takes(@, Head(clocked)),
                            ![2] = Takes(@, PassesOn(chips[1], Head(clocked)))]
  /\ enabled' = enabled \cup {GPIO_RGB_SCL, GPIO_RGB_SDA}
  /\ UNCHANGED <<gpio, boot, rgb, bridge>>

Send(c) == clocked' = rgbControl(c) /\ rgb' = c

-----------------------------------------------------------------------------
(* The motor.                                                              *)

MOTOR_SFCT_STA == 5
MOTOR_MAX_DUTY == (1000 * 1000) \div 45

\* (uint32)((m * 1.0 / MOTOR_SFCT_STA) * MOTOR_MAX_DUTY)
Share(m) == (m * MOTOR_MAX_DUTY) \div MOTOR_SFCT_STA

\* A channel is set if it changes, then both are started.
motorPwmControl(m) ==
  /\ duty' = [c \in Channels |-> IF Share(m[c]) # cached[c] THEN Share(m[c]) ELSE duty[c]]
  /\ cached' = [c \in Channels |-> IF Share(m[c]) # cached[c] THEN duty'[c] ELSE cached[c]]
  /\ running' = duty'

\* Mutant of Fractions: backwards, the strength is not turned round.
Fractions_Straight(status) ==
  [c \in Channels |->
     IF status = 0 THEN 0
     ELSE IF c = 0 THEN IF status > 0 THEN 0 ELSE MOTOR_SFCT_STA
     ELSE IF status > 0 THEN status % 256 ELSE (-status) % 256]

\* Forwards channel 0 is off; backwards it is on throughout and channel 1
\* takes away from it.  The cast to uint8_t wraps.
Fractions(status) ==
  [c \in Channels |->
     IF status = 0 THEN 0
     ELSE IF c = 0 THEN IF status > 0 THEN 0 ELSE MOTOR_SFCT_STA
     ELSE IF status > 0 THEN status % 256 ELSE (MOTOR_SFCT_STA + status) % 256]

motorControl(status) == motor' = status /\ motorPwmControl(Fractions(status))

-----------------------------------------------------------------------------
(* user_init, up to the drivers of the pins.                               *)

Boot(step, next) == boot = step /\ clocked = <<>> /\ boot' = next

\* The mask of enabled outputs is made of pin numbers, not of their bits:
\* 15 | 4, which is pins 0 to 3.
rgbGpioInit ==
  /\ Boot("light", "keys")
  /\ enabled' = enabled \cup {0, 1, 2, 3} /\ gpio' = gpio \cup {GPIO_RGB_SCL, GPIO_RGB_SDA}
  /\ Send(Black)  \* rgbLedInit
  /\ UNCHANGED <<chips, bridge>>

keyParaInit ==
  /\ Boot("keys", "motor")
  /\ enabled' = enabled \ KeyPins /\ gpio' = gpio \cup KeyPins
  /\ UNCHANGED <<light, bridge>>

motorInit ==
  /\ Boot("motor", "speed")
  /\ enabled' = enabled \cup PwmPins /\ gpio' = gpio \cup PwmPins
  /\ duty' = Off /\ running' = Off /\ UNCHANGED <<light, motor, cached>>

\* motorControl(MOTOR_SPEED_DEFAULT)
DefaultSpeed ==
  /\ Boot("speed", "sensor") /\ motorControl(0) /\ UNCHANGED <<pins, light>>

\* dht11Rst.  DHT11_IO_OUT has a number for a mask again: 5 is pins 0 and 2.
\* DHT11_OUT_LOW enables the pin that was meant.
dht11Rst(place) == enabled' = enabled \cup {0, 2, DHT11_GPIO_PIN} /\ boot' = place

\* dht11Check: DHT11_IO_IN.
dht11Check(place) == enabled' = enabled \ {DHT11_GPIO_PIN} /\ boot' = place

dh11Init ==
  /\ boot = "sensor" /\ dht11Rst("check") /\ gpio' = gpio \cup {DHT11_GPIO_PIN}
  /\ UNCHANGED <<light, bridge>>

dh11InitCheck ==
  /\ boot = "check" /\ dht11Check("done") /\ UNCHANGED <<gpio, light, bridge>>

-----------------------------------------------------------------------------

BoardInit ==
  /\ enabled = {} /\ gpio = {} /\ boot = "light"
  /\ clocked = <<>> /\ rgb = Black /\ chips = <<Chip, Chip>>
  /\ motor = 0 /\ cached = Off /\ duty = Off /\ running = Off

Idle == boot = "done" /\ clocked = <<>>

\* An event sets the light or the motor,
SetLight(c) == Idle /\ Send(c) /\ UNCHANGED <<pins, boot, chips, bridge>>
SetMotor(status) == Idle /\ motorControl(status) /\ UNCHANGED <<pins, boot, light>>

\* and the user timer reads the sensor: dht11Rst, then dht11Check.
Request == Idle /\ dht11Rst("answer") /\ UNCHANGED <<gpio, light, bridge>>
Answered == boot = "answer" /\ dht11Check("done") /\ UNCHANGED <<gpio, light, bridge>>

\* The registers and the driver's memory are cleared, and the PWM stops.
ResetBoard ==
  /\ enabled' = {} /\ gpio' = {} /\ boot' = "light" /\ clocked' = <<>>
  /\ motor' = 0 /\ cached' = Off /\ running' = Off
  /\ UNCHANGED <<rgb, chips, duty>>

BoardNext ==
  \/ rgbGpioInit \/ keyParaInit \/ motorInit \/ DefaultSpeed \/ dh11Init \/ dh11InitCheck
  \/ Clock \/ \E c \in Colours : SetLight(c)
  \/ \E status \in Speeds : SetMotor(status)
  \/ Request \/ Answered
  \/ ResetBoard

BoardSpec == BoardInit /\ [][BoardNext]_BoardVars

-----------------------------------------------------------------------------

\* Once everything is sent both chips show the colour asked for last, whatever
\* they had half received when the processor was reset.
LightShows ==
  boot # "light" /\ clocked = <<>> => \A i \in {1, 2} : chips[i].shows = rgb

\* In the range it is made for, the motor is driven in the direction and with
\* the share of full strength asked for, to within one count; and what
\* motorPwmControl remembers is what the channels are set to, so that a change is
\* never taken for none.
MotorFollows ==
  boot \notin {"light", "keys", "motor"} =>
    /\ cached = duty
    /\ motor \in -MOTOR_SFCT_STA .. MOTOR_SFCT_STA =>
         LET asked == motor * MOTOR_MAX_DUTY
             given == (running[1] - running[0]) * MOTOR_SFCT_STA
         IN  given - asked \in -MOTOR_SFCT_STA .. MOTOR_SFCT_STA

Driven == enabled \cap gpio

\* hal_key.c:259, "GPIO configured as a high level input mode": the pins of the
\* keys are never driven once keyParaInit has run.
KeysAreInputs == KeyPins \cap Driven = {}
=============================================================================
