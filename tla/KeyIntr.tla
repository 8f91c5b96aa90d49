------------------------------ MODULE KeyIntr ------------------------------
(***************************************************************************)
(* The other key driver, key.c: an edge interrupt and two timers per key.  *)
(* A falling edge starts the long press timer; a rising edge starts the    *)
(* release timer, whose callback looks at the pin again.                   *)
(*                                                                         *)
(* The interrupt handler preempts timer callbacks, and pins change at any  *)
(* moment, also between an interrupt and the write of the edge to wait for *)
(* next.  A timer is armed or not and fires at any time while it is armed, *)
(* so nothing here depends on the delays.                                  *)
(***************************************************************************)
EXTENDS Naturals, FiniteSets

CONSTANT Buttons  \* keys->singleKey[0 .. key_num - 1]

ASSUME ButtonsAssumption == IsFiniteSet(Buttons)

VARIABLES
  (* the program *)
  key_level,   \* 1 at rest, 0 while a press is followed
  key_5s,      \* keys whose long press timer is armed
  key_50ms,    \* keys whose release timer is armed
  toServe,     \* gpio_status: keys the handler has not come to yet
  serving,     \* the key whose interrupt it has disabled and cleared, if any
  checking,    \* the key whose 50 ms callback has read the pin, if any
  seenUp,      \* what it has read
  (* the hardware *)
  up,          \* keys whose pin is high
  edge,        \* the edge a key's interrupt waits for: "neg", "pos" or "off"
  status,      \* GPIO_STATUS: keys with a latched interrupt
  (* history, read by no action *)
  raced,       \* keys whose pin changed between a look at it and the choice
               \* of the next edge
  fell,        \* keys whose pin has fallen since their last short callback
  longs        \* keys with a long callback since they last left rest

handler == <<toServe, serving>>
check == <<checking, seenUp>>
KeyIntrVars == <<key_level, key_5s, key_50ms, handler, check, up, edge, status,
                 raced, fell, longs>>

InHandler == toServe # {} \/ serving # {}

-----------------------------------------------------------------------------

\* key_init: every key waits for a falling edge, wherever its pin is.
KeyIntrInit ==
  /\ key_level = [k \in Buttons |-> 1] /\ edge = [k \in Buttons |-> "neg"]
  /\ key_5s = {} /\ key_50ms = {} /\ status = {}
  /\ toServe = {} /\ serving = {} /\ checking = {} /\ seenUp = FALSE
  /\ up \in SUBSET Buttons
  /\ raced = Buttons \ up /\ fell = {} /\ longs = {}

\* The edge that key k's interrupt waits for; it is latched.
Latched(k) ==
  /\ edge[k] = (IF k \in up THEN "neg" ELSE "pos")
  /\ k \notin status

\* The driver has looked at k, by its interrupt or by a read, and has still to
\* choose the next edge.  A release is not such a look: its callback looks.
Choosing(k) ==
  \/ k \in status \cup serving /\ key_level[k] = 1
  \/ k \in checking

\* The pin of k rises or falls.
PinChange(k) ==
  /\ up' = IF k \in up THEN up \ {k} ELSE up \cup {k}
  /\ fell' = IF k \in up THEN fell \cup {k} ELSE fell
  /\ status' = IF Latched(k) THEN status \cup {k} ELSE status
  /\ raced' = IF Latched(k) THEN raced \ {k}
              ELSE IF Choosing(k) THEN raced \cup {k} ELSE raced
  /\ UNCHANGED <<key_level, key_5s, key_50ms, handler, check, edge, longs>>

\* The handler reads GPIO_STATUS;
ReadStatus ==
  /\ ~InHandler /\ status # {}
  /\ toServe' = status
  /\ UNCHANGED <<key_level, key_5s, key_50ms, serving, check, up, edge, status,
                 raced, fell, longs>>

\* disables and clears the interrupt of the next key;
ServeBegin(k) ==
  /\ serving = {} /\ k \in toServe
  /\ toServe' = toServe \ {k} /\ serving' = {k}
  /\ edge' = [edge EXCEPT ![k] = "off"] /\ status' = status \ {k}
  /\ UNCHANGED <<key_level, key_5s, key_50ms, check, up, raced, fell, longs>>

\* The edge was the start of a press.
Pressed(k) == key_level[k] = 1

\* and starts the timer the edge calls for.  After a release the interrupt
\* stays off until the callback.
ServeEnd(k) ==
  /\ k \in serving
  /\ serving' = {}
  /\ \/ /\ Pressed(k)
        /\ key_5s' = key_5s \cup {k} /\ key_level' = [key_level EXCEPT ![k] = 0]
        /\ edge' = [edge EXCEPT ![k] = "pos"]
        /\ longs' = IF key_level[k] = 1 THEN longs \ {k} ELSE longs
        /\ UNCHANGED key_50ms
     \/ /\ ~Pressed(k)
        /\ key_50ms' = key_50ms \cup {k}
        /\ UNCHANGED <<key_5s, key_level, edge, longs>>
  /\ UNCHANGED <<toServe, check, up, status, raced, fell>>

\* key_5s_cb: a long press if the pin is low.
key_5s_cb(k) ==
  /\ ~InHandler /\ checking = {} /\ k \in key_5s
  /\ key_5s' = key_5s \ {k}
  /\ longs' = IF k \in up THEN longs ELSE longs \cup {k}
  /\ UNCHANGED <<key_level, key_50ms, handler, check, up, edge, status, raced, fell>>

\* Mutant of CheckBegin: the timer is armed to repeat.
CheckBegin_Repeats(k) ==
  /\ ~InHandler /\ checking = {} /\ k \in key_50ms
  /\ checking' = {k} /\ seenUp' = (k \in up)
  /\ raced' = raced \ {k}
  /\ UNCHANGED <<key_level, key_5s, key_50ms, handler, up, edge, status, fell, longs>>

\* key_50ms_cb reads the pin
CheckBegin(k) ==
  /\ ~InHandler /\ checking = {} /\ k \in key_50ms
  /\ key_50ms' = key_50ms \ {k}
  /\ checking' = {k} /\ seenUp' = (k \in up)
  /\ raced' = raced \ {k}
  /\ UNCHANGED <<key_level, key_5s, handler, up, edge, status, fell, longs>>

\* Mutant of CheckEnd: a key found down goes on with its interrupt off.
CheckEnd_Off(k) ==
  /\ ~InHandler /\ k \in checking /\ checking' = {}
  /\ seenUp' = FALSE
  /\ IF seenUp
     THEN /\ key_5s' = key_5s \ {k} /\ key_level' = [key_level EXCEPT ![k] = 1]
          /\ edge' = [edge EXCEPT ![k] = "neg"]
          /\ fell' = fell \ {k}
     ELSE UNCHANGED <<key_5s, key_level, edge, fell>>
  /\ UNCHANGED <<key_50ms, handler, up, status, raced, longs>>

\* Mutant of CheckEnd: bounces end the press as well.
CheckEnd_Unchecked(k) ==
  /\ ~InHandler /\ k \in checking /\ checking' = {}
  /\ seenUp' = FALSE
  /\ key_5s' = key_5s \ {k} /\ key_level' = [key_level EXCEPT ![k] = 1]
  /\ edge' = [edge EXCEPT ![k] = "neg"]
  /\ fell' = fell \ {k}
  /\ UNCHANGED <<key_50ms, handler, up, status, raced, longs>>

\* Mutant of CheckEnd: a key that is up again still waits for it to rise.
CheckEnd_Rising(k) ==
  /\ ~InHandler /\ k \in checking /\ checking' = {}
  /\ seenUp' = FALSE
  /\ edge' = [edge EXCEPT ![k] = "pos"]
  /\ IF seenUp THEN fell' = fell \ {k} ELSE UNCHANGED fell
  /\ UNCHANGED <<key_5s, key_level, key_50ms, handler, up, status, raced, longs>>

\* and goes by what it has read: the press is over and the short callback is
\* called, or it was a bounce.
CheckEnd(k) ==
  /\ ~InHandler /\ k \in checking /\ checking' = {}
  /\ seenUp' = FALSE
  /\ IF seenUp
     THEN /\ key_5s' = key_5s \ {k} /\ key_level' = [key_level EXCEPT ![k] = 1]
          /\ edge' = [edge EXCEPT ![k] = "neg"]
          /\ fell' = fell \ {k}
     ELSE /\ edge' = [edge EXCEPT ![k] = "pos"]
          /\ UNCHANGED <<key_5s, key_level, fell>>
  /\ UNCHANGED <<key_50ms, handler, up, status, raced, longs>>

key_intr_handler == ReadStatus \/ \E k \in Buttons : ServeBegin(k) \/ ServeEnd(k)

key_50ms_cb(k) == CheckBegin(k) \/ CheckEnd(k)

KeyIntrNext ==
  \/ key_intr_handler
  \/ \E k \in Buttons : PinChange(k) \/ key_5s_cb(k) \/ key_50ms_cb(k)

KeyIntrSpec == KeyIntrInit /\ [][KeyIntrNext]_KeyIntrVars

\* The hardware calls the handler, and the timers go off between its calls
\* however often it runs.
KeyIntrFairness ==
  /\ WF_KeyIntrVars(key_intr_handler)
  /\ \A k \in Buttons : SF_KeyIntrVars(key_5s_cb(k)) /\ SF_KeyIntrVars(key_50ms_cb(k))

-----------------------------------------------------------------------------

KeyIntrTypeOK ==
  /\ key_level \in [Buttons -> {0, 1}] /\ edge \in [Buttons -> {"neg", "pos", "off"}]
  /\ key_5s \subseteq Buttons /\ key_50ms \subseteq Buttons /\ status \subseteq Buttons
  /\ toServe \subseteq status /\ serving \subseteq Buttons /\ checking \subseteq Buttons
  /\ \A j, k \in serving : j = k
  /\ \A j, k \in checking : j = k
  /\ seenUp \in BOOLEAN
  /\ up \subseteq Buttons /\ raced \subseteq Buttons /\ fell \subseteq Buttons
  /\ longs \subseteq Buttons

\* No key goes dead: its interrupt is off only while someone is about to turn
\* it on, and never while the key is at rest.
KeyAlive ==
  \A k \in Buttons :
    edge[k] = "off" => k \in serving \cup checking \cup key_50ms

\* A key waits for the wrong edge, which is how presses and releases get lost,
\* only if its pin changed between the driver's last look and its choice of
\* the edge.
InStep ==
  \A k \in Buttons :
    k \notin status \cup raced =>
      /\ edge[k] = "neg" => k \in up /\ key_level[k] = 1
      /\ edge[k] = "pos" => k \notin up /\ key_level[k] = 0

\* Bounces do not multiply callbacks: between two short callbacks of a key its
\* pin has fallen, and it has one long callback until it has been at rest.
CallbacksOnce ==
  [][\A k \in Buttons :
       /\ k \in checking /\ k \notin checking' /\ seenUp => k \in fell
       /\ key_5s_cb(k) /\ k \notin up => k \notin longs]_KeyIntrVars

\* A key that is let go of comes to rest, unless it has raced the driver.
LeftAloneRests ==
  \A k \in Buttons :
    <>[](k \in up /\ k \notin raced) => <>[](key_level[k] = 1 /\ edge[k] = "neg")

=============================================================================
