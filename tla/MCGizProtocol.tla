--------------------------- MODULE MCGizProtocol ---------------------------
(* Values for model checking GizProtocol. *)
EXTENDS GizProtocol

Turn(on) == [p \in {"LED_OnOff"} |-> on]

\* A message with every flag set, as the app sends for a whole scene.
Scene == [p \in Writable |-> CASE p = "LED_OnOff" -> 1 [] p = "LED_Color" -> 2
                               [] p = "Motor_Speed" -> 7 [] OTHER -> 254]

Commands    == {Turn(1), Scene}
OneCommand  == {Turn(1)}
Speeds      == {[p \in {"Motor_Speed"} |-> s] : s \in {0, 9}}
NoCommands  == {}

Status(b, r) == [bits |-> b, rssi |-> r]
Links       == {Status({}, 0), Status({"station"}, 2), Status(LinkBits \cup ModeBits, 0)}
OneLink     == {Status({"con_route"}, 3)}
NoStatuses  == {}

NoPayloads  == {}
Stack       == {[p \in Writable |-> 3]}

Dark        == {0}
DarkOrNot   == {0, 1}
Climate(t, h) == [p \in Paced |-> IF p = "Temperature" THEN t ELSE h]
SteadyClimate   == {Climate(0, 0)}
ChangingClimate == {Climate(0, 0), Climate(20, 0), Climate(20, 55)}
=============================================================================
