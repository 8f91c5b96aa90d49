----------------------------- MODULE ByteQueue -----------------------------
(***************************************************************************)
(* What a byte ring promises: bytes come out in the order they went in,    *)
(* each once, and at most Capacity of them wait.                           *)
(***************************************************************************)
EXTENDS Naturals, Sequences

CONSTANTS Bytes, Capacity

VARIABLES
  queue,  \* the bytes waiting
  given   \* what the last step took out

vars == <<queue, given>>

Init == queue = <<>> /\ given = <<>>

\* \E s \in Seq(Bytes), in a form TLC evaluates: what the step has put in is the
\* end of the queue after it.
Put ==
  /\ Len(queue') >= Len(queue) /\ Len(queue') <= Capacity
  /\ queue' = queue \o SubSeq(queue', Len(queue) + 1, Len(queue'))
  /\ queue' \in Seq(Bytes) /\ given' = <<>>

Get == \E n \in 0 .. Len(queue) :
         /\ given' = SubSeq(queue, 1, n)
         /\ queue' = SubSeq(queue, n + 1, Len(queue))

\* A new ring takes the place of the old.
Clear == queue' = <<>> /\ given' = <<>>

Next == Put \/ Get \/ Clear

Spec == Init /\ [][Next]_vars
=============================================================================
