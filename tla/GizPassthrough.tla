--------------------------- MODULE GizPassthrough ---------------------------
(***************************************************************************)
(* gizwitsPassthroughData, the interface by which the application uploads  *)
(* data of a private protocol.  It takes a buffer from the heap, which the *)
(* rest of the system uses as well.                                        *)
(***************************************************************************)
EXTENDS Integers

CONSTANT HeapBlocks \* how many buffers the heap can hold

VARIABLES
  heap,     \* free buffers
  ours,     \* buffers gizwitsPassthroughData has taken
  result,   \* what the last call returned
  running   \* FALSE after a store through the null pointer

vars == <<heap, ours, result, running>>

-----------------------------------------------------------------------------

Init == heap = HeapBlocks /\ ours = 0 /\ result = 0 /\ running = TRUE

\* The rest of the system takes and returns memory.
Others ==
  /\ running
  /\ heap' \in 0 .. HeapBlocks - ours
  /\ UNCHANGED <<ours, result, running>>

NoData ==
  /\ running /\ result' = -1
  /\ UNCHANGED <<heap, ours, running>>

\* os_malloc succeeds: taken for a failure.
Malloced ==
  /\ running /\ heap > 0
  /\ heap' = heap - 1 /\ ours' = ours + 1
  /\ result' = -1
  /\ UNCHANGED running

\* os_malloc fails: the code goes on and stores through the null pointer.
NotMalloced ==
  /\ running /\ heap = 0
  /\ running' = FALSE
  /\ UNCHANGED <<heap, ours, result>>

gizwitsPassthroughData == NoData \/ Malloced \/ NotMalloced

Next == Others \/ gizwitsPassthroughData

Spec == Init /\ [][Next]_vars

-----------------------------------------------------------------------------

\* As documented, "-1 is an error, 0 is a correct return": with data and
\* memory at hand the call succeeds.
UploadsAsDocumented == [][Malloced => result' = 0]_vars

=============================================================================
