---------------------------- MODULE MCBitPacking ----------------------------
(* Packed for model checking BitPacking. *)
EXTENDS BitPacking

MCFields ==
  {f \in [byte : 0 .. 1, bit : BitNos, len : {2, 5, 7}] :
     Across(f.bit, f.len) => f.byte = 0}

\* No bit, the lowest, alternate bits, all bits of a field.
MCPacked == {{}, {0}, {1}, 0 .. 1, {0, 2, 4}, 0 .. 4, 0 .. 6, {6}}
=============================================================================
