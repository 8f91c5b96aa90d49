------------------------------ MODULE MCInputs -----------------------------
(* What the board senses.  The two drivers for its two keys, polled (HalKey) *)
(* and by interrupt (KeyIntr), of which a program links one, and the wire of *)
(* the DHT11 (Dht11Line).  They share no variable, so one runs at a time:    *)
(* input says which, and the variables of the others stay where they start.  *)
EXTENDS HalKey, KeyIntr, Dht11Line

VARIABLE input

InputsVars == <<input, vars, KeyIntrVars, DhtVars>>

MCKeyNames == {"key1", "key2"}

\* A tick is 5 us: 26 to 28 us high are a 0, 70 us a 1.
MCHigh == [b \in {0, 1} |-> IF b = 0 THEN {5, 6} ELSE {14}]

\* A right checksum, one that is right in the width of a byte only, a wrong one.
MCAnswers == {<<1, 0, 2, 0, 3>>, <<3, 0, 2, 0, 1>>, <<0, 1, 0, 0, 0>>}

\* A sensor nobody reads.
DhtResting ==
  /\ answer \in MCAnswers /\ answer[1] = 0 /\ level = TRUE /\ phase = 0 /\ ticks = 0 /\ alive = FALSE
  /\ place = "none" /\ retry = 0 /\ bits = <<>> /\ given = NoSample /\ away = 0
  /\ stalled = FALSE

InputsInit ==
  /\ input \in {"hal_key", "key", "dht11"}
  /\ Init
  /\ KeyIntrInit /\ (input # "key" => up = Buttons)
  /\ IF input = "dht11" THEN DhtInit ELSE DhtResting

Polled      == input = "hal_key" /\ Next /\ UNCHANGED <<input, KeyIntrVars, DhtVars>>
Interrupts  == input = "key" /\ KeyIntrNext /\ UNCHANGED <<input, vars, DhtVars>>
SensorReads == input = "dht11" /\ DhtNext /\ UNCHANGED <<input, vars, KeyIntrVars>>

\* The fairness of the three modules, for the one that runs.
InputsSpec ==
  /\ InputsInit /\ [][Polled \/ Interrupts \/ SensorReads]_InputsVars
  /\ WF_vars(input = "hal_key" /\ gokitKeyHandle)
  /\ WF_KeyIntrVars(input = "key" /\ key_intr_handler)
  /\ \A k \in Buttons :
       /\ SF_KeyIntrVars(input = "key" /\ key_5s_cb(k))
       /\ SF_KeyIntrVars(input = "key" /\ key_50ms_cb(k))
  /\ WF_DhtVars(input = "dht11" /\ Tick)
=============================================================================
