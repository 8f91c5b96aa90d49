----------------------------- MODULE SlidingMean ----------------------------
(***************************************************************************)
(* What dh11Read promises its caller: after each answer of the sensor the  *)
(* mean of the last Size answers, or of all of them while they are fewer.  *)
(***************************************************************************)
EXTENDS Integers, Sequences

CONSTANTS
  Size,    \* the length of the window
  Samples  \* what the sensor can answer: records of tem and hum

VARIABLES
  window,  \* the last answers, oldest first
  shown    \* what the caller was last given

Total(seq) ==
  LET upto[i \in 0 .. Len(seq)] ==
        IF i = 0 THEN [tem |-> 0, hum |-> 0]
        ELSE [tem |-> upto[i - 1].tem + seq[i].tem, hum |-> upto[i - 1].hum + seq[i].hum]
  IN  upto[Len(seq)]

MeanOf(seq) ==
  [tem |-> Total(seq).tem \div Len(seq), hum |-> Total(seq).hum \div Len(seq)]

Slide(seq, s) == Append(IF Len(seq) = Size THEN Tail(seq) ELSE seq, s)

Init == window = <<>> /\ shown = [tem |-> 0, hum |-> 0]

Answer(s) == window' = Slide(window, s) /\ shown' = MeanOf(window')

Spec == Init /\ [][\E s \in Samples : Answer(s)]_<<window, shown>>

=============================================================================
