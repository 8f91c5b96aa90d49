------------------------------- MODULE MCBoard ------------------------------
(* Values for model checking Board by itself. *)
EXTENDS Board

MCColours == {[r |-> 0, g |-> 0, b |-> 0]}
MCSpeeds == {0}
=============================================================================
