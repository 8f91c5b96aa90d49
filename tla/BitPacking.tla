----------------------------- MODULE BitPacking -----------------------------
(***************************************************************************)
(* How boolean and enumerated data points share bytes: gizCompressValue    *)
(* puts a value into its bit field, gizByteOrderExchange turns the bytes   *)
(* round for the wire, gizDecompressionValue takes the value out again.    *)
(*                                                                         *)
(* A byte is the set of its one bits, so | is union, & intersection, and a *)
(* shift moves every bit.  The layouts of wBitBuf and rBitBuf come with    *)
(* the generated code; here every layout is allowed.                       *)
(***************************************************************************)
EXTENDS Integers, FiniteSets

CONSTANTS
  ByteCount,  \* the length of the bit buffer, at most COUNT_W_BIT
  Fields,     \* the bit fields: byte and bit offset, length in bits
  Packed,     \* the values of data points, as sets of bits
  MaxFields   \* bound: the fields packed into one buffer

BitNos == 0 .. 7
Across(bitOffset, bitLen) == 8 - bitOffset < bitLen

ASSUME PackingAssumption ==
  /\ ByteCount \in Nat \ {0}
  /\ Fields \subseteq [byte : 0 .. ByteCount - 1, bit : BitNos, len : 1 .. 8]
  /\ \A f \in Fields : Across(f.bit, f.len) => f.byte + 1 < ByteCount
  /\ Packed \subseteq SUBSET BitNos
  /\ MaxFields \in Nat

VARIABLES
  value,     \* the value packed into each field so far
  bitBuf,    \* the bit buffer
  wire,      \* what the cloud receives
  delivered  \* it has received it

PackVars == <<value, bitBuf, wire, delivered>>

layout == DOMAIN value

-----------------------------------------------------------------------------

Shl(b, n) == {i + n : i \in b}
Shr(b, n) == {i - n : i \in {j \in b : j >= n}}

\* Mutant of Compress: the high part is stored where it stood in the value.
Compress_HighUnshifted(b, f, src) ==
  IF ~Across(f.bit, f.len)
  THEN [b EXCEPT ![f.byte] = @ \cup (Shl(src, f.bit) \cap BitNos)]
  ELSE LET lowBit == src \cap Shr(BitNos, 8 - f.bit)
       IN [b EXCEPT ![f.byte + 1] = @ \cup (src \ lowBit),
                    ![f.byte] = @ \cup (Shl(lowBit, f.bit) \cap BitNos)]

\* The assignments to bufAddr[], a uint8_t, keep the low eight bits.
Compress(b, f, src) ==
  IF ~Across(f.bit, f.len)
  THEN [b EXCEPT ![f.byte] = @ \cup (Shl(src, f.bit) \cap BitNos)]
  ELSE LET highBit == Shr(src, 8 - f.bit)
           lowBit == src \cap Shr(BitNos, 8 - f.bit)
       IN [b EXCEPT ![f.byte + 1] = @ \cup highBit,
                    ![f.byte] = @ \cup (Shl(lowBit, f.bit) \cap BitNos)]

Exchange(b) == [i \in 0 .. ByteCount - 1 |-> b[ByteCount - 1 - i]]

Decompress(array, f) ==
  LET b == Exchange(array)
  IN IF ~Across(f.bit, f.len)
     THEN Shr(b[f.byte], f.bit) \cap Shr(BitNos, 8 - f.len)
     ELSE LET highBit == b[f.byte + 1] \cap Shr(BitNos, 8 - (f.len - (8 - f.bit)))
              lowBit == Shr(b[f.byte], f.bit)
          IN Shl(highBit, 8 - f.bit) \cup lowBit

-----------------------------------------------------------------------------

\* The bits of the buffer that belong to a field.
Cells(f) ==
  {<<f.byte, j>> : j \in {i \in BitNos : f.bit <= i /\ i < f.bit + f.len}}
    \cup {<<f.byte + 1, j>> : j \in {i \in BitNos : i < f.bit + f.len - 8}}

Free(f) == \A g \in layout : Cells(f) \cap Cells(g) = {}

\* The buffer is cleared.
PackInit ==
  /\ value = <<>>
  /\ bitBuf = [i \in 0 .. ByteCount - 1 |-> {}]
  /\ wire = bitBuf /\ delivered = FALSE

\* A call of gizCompressValue by gizDataPoints2ReportData, with a field of
\* its own and a value that fits into it.
Pack(f, src) ==
  /\ ~delivered /\ Cardinality(layout) < MaxFields
  /\ f \notin layout /\ Free(f) /\ src \subseteq 0 .. f.len - 1
  /\ value' = [g \in layout \cup {f} |-> IF g = f THEN src ELSE value[g]]
  /\ bitBuf' = Compress(bitBuf, f, src)
  /\ UNCHANGED <<wire, delivered>>

\* The call of gizByteOrderExchange after them.
HandOver ==
  /\ ~delivered /\ delivered' = TRUE
  /\ wire' = Exchange(bitBuf)
  /\ UNCHANGED <<value, bitBuf>>

PackNext == HandOver \/ \E f \in Fields, src \in Packed : Pack(f, src)

PackSpec == PackInit /\ [][PackNext]_PackVars

-----------------------------------------------------------------------------

\* Bytes stay bytes.
PackTypeOK ==
  /\ layout \subseteq Fields /\ value \in [layout -> SUBSET BitNos]
  /\ bitBuf \in [0 .. ByteCount - 1 -> SUBSET BitNos]
  /\ wire \in [0 .. ByteCount - 1 -> SUBSET BitNos] /\ delivered \in BOOLEAN

\* gizCompressValue keeps only f.bit bits of the low part, enough from 4 on.
Whole(f) == Across(f.bit, f.len) => f.bit >= 4

\* The value taken out of a field by gizDecompressionValue is the one that
\* gizCompressValue put in, whatever fields lie next to it, for the fields
\* that are inside a byte or start in the upper half of one.
RoundTrip ==
  delivered => \A f \in layout : Whole(f) => Decompress(wire, f) = value[f]

\* As it should be: the comments "at most 2 bytes are supported" in both
\* functions put no condition on where a field starts.
RoundTripAcross == delivered => \A f \in layout : Decompress(wire, f) = value[f]

=============================================================================
