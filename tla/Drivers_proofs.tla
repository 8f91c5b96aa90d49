--------------------------- MODULE Drivers_proofs ---------------------------
(***************************************************************************)
(* The smaller parts, one after the other: bit fields, the timer's         *)
(* registers, the motor and the light, the clock of the protocol, JSON paths. *)
(***************************************************************************)
EXTENDS BitPacking, HwTimer, Board, GizTime, UserJson, Induction,
        FiniteSetTheorems, SequenceTheorems

-----------------------------------------------------------------------------
(* Packing and unpacking are inverse for every layout of bit fields that   *)
(* do not overlap, and every number of them.                               *)

ByteSet == [0 .. ByteCount - 1 -> SUBSET BitNos]

Field == {f \in [byte : 0 .. ByteCount - 1, bit : BitNos, len : 1 .. 8] :
            Across(f.bit, f.len) => f.byte + 1 < ByteCount}

\* Every field of the layout lies within the bytes.
LEMMA FieldsAreFields == Fields \subseteq Field
BY PackingAssumption DEF Field

\* << moves every bit up by n.
LEMMA ShlIs ==
  ASSUME NEW b \in SUBSET Int, NEW n \in Int, NEW j \in Int
  PROVE  j \in Shl(b, n) <=> j - n \in b
<1>1. ASSUME j \in Shl(b, n) PROVE j - n \in b
  <2>1. PICK i \in b : j = i + n
    BY <1>1 DEF Shl
  <2>2. i \in Int /\ j - n = i
    BY <2>1
  <2> QED
    BY <2>2
<1>2. ASSUME j - n \in b PROVE j \in Shl(b, n)
  <2>1. j = (j - n) + n
    OBVIOUS
  <2> QED
    BY <1>2, <2>1 DEF Shl
<1> QED
  BY <1>1, <1>2

\* >> moves every bit down by n and drops those below bit 0.
LEMMA ShrIs ==
  ASSUME NEW b \in SUBSET Int, NEW n \in Int, NEW j \in Int
  PROVE  j \in Shr(b, n) <=> j >= 0 /\ j + n \in b
<1>1. ASSUME j \in Shr(b, n) PROVE j >= 0 /\ j + n \in b
  <2>1. PICK i \in b : i >= n /\ j = i - n
    BY <1>1 DEF Shr
  <2>2. i \in Int /\ j + n = i /\ j >= 0
    BY <2>1
  <2> QED
    BY <2>2
<1>2. ASSUME j >= 0, j + n \in b PROVE j \in Shr(b, n)
  <2>1. j = (j + n) - n /\ j + n >= n
    BY <1>2
  <2> QED
    BY <1>2, <2>1 DEF Shr
<1> QED
  BY <1>1, <1>2

\* The bit i of a field is bit j of byte c.
Stores(f, i, c, j) ==
  \/ c = f.byte /\ j = f.bit + i
  \/ Across(f.bit, f.len) /\ c = f.byte + 1 /\ j = f.bit + i - 8

\* What gizCompressValue adds to the buffer, bit by bit.
Adds(f, src, c, j) ==
  \/ c = f.byte /\ j - f.bit \in src /\ (Across(f.bit, f.len) => j - f.bit < f.bit)
  \/ Across(f.bit, f.len) /\ c = f.byte + 1 /\ j + 8 - f.bit \in src

\* gizCompressValue sets the bits of the value at the field's place and leaves
\* every other bit as it was (gizwits_protocol.c).
LEMMA CompressBits ==
  ASSUME NEW b \in ByteSet, NEW f \in Field, NEW src \in SUBSET BitNos, src \subseteq 0 .. f.len - 1
  PROVE  /\ Compress(b, f, src) \in ByteSet
         /\ \A c \in 0 .. ByteCount - 1 : \A j \in BitNos :
              j \in Compress(b, f, src)[c] <=> j \in b[c] \/ Adds(f, src, c, j)
<1> USE PackingAssumption
<1>1. /\ f.byte \in 0 .. ByteCount - 1 /\ f.bit \in BitNos /\ f.len \in 1 .. 8
      /\ src \in SUBSET Int /\ BitNos \subseteq Int
      /\ \A c \in 0 .. ByteCount - 1 : b[c] \subseteq BitNos
  BY DEF Field, ByteSet, BitNos
<1>2. \A j \in BitNos : j \in Shl(src, f.bit) <=> j - f.bit \in src
  BY <1>1, ShlIs DEF BitNos
<1>3. CASE ~Across(f.bit, f.len)
  <2> DEFINE low == Shl(src, f.bit) \cap BitNos
  <2>1. Compress(b, f, src) = [b EXCEPT ![f.byte] = b[f.byte] \cup low]
    BY <1>3 DEF Compress
  <2>2. low \subseteq BitNos /\ \A j \in BitNos : j \in low <=> j - f.bit \in src
    BY <1>2
  <2> HIDE DEF low
  <2>3. /\ Compress(b, f, src) \in ByteSet
        /\ \A c \in 0 .. ByteCount - 1 :
             Compress(b, f, src)[c] = IF c = f.byte THEN b[c] \cup low ELSE b[c]
    <3>1. b[f.byte] \cup low \in SUBSET BitNos
      BY <1>1, <2>2
    <3> QED
      BY <1>1, <2>1, <3>1 DEF ByteSet
  <2> QED
    BY <1>3, <2>2, <2>3 DEF Adds
<1>4. CASE Across(f.bit, f.len)
  <2> DEFINE high == Shr(src, 8 - f.bit)
             kept == src \cap Shr(BitNos, 8 - f.bit)
             low == Shl(kept, f.bit) \cap BitNos
  <2>1. Compress(b, f, src)
          = [b EXCEPT ![f.byte + 1] = b[f.byte + 1] \cup high, ![f.byte] = b[f.byte] \cup low]
    BY <1>1, <1>4 DEF Compress
  <2>2. \A i \in Int : i \in Shr(BitNos, 8 - f.bit) <=> i >= 0 /\ i < f.bit
    BY <1>1, ShrIs DEF BitNos
  <2>3. kept \in SUBSET Int /\ \A i \in Int : i \in kept <=> i \in src /\ i < f.bit
    <3>1. \A i \in src : i >= 0
      BY <1>1
    <3> QED
      BY <1>1, <2>2, <3>1
  <2>4. low \subseteq BitNos
        /\ \A j \in BitNos : j \in low <=> j - f.bit \in src /\ j - f.bit < f.bit
    <3>1. \A j \in BitNos : j \in Shl(kept, f.bit) <=> j - f.bit \in kept
      BY <1>1, <2>3, ShlIs DEF BitNos
    <3>2. \A j \in BitNos : j - f.bit \in Int
      BY <1>1 DEF BitNos
    <3> HIDE DEF kept
    <3> QED
      BY <2>3, <3>1, <3>2
  <2>5. high \subseteq BitNos /\ \A j \in BitNos : j \in high <=> j + 8 - f.bit \in src
    <3>1. \A j \in Int : j \in high <=> j >= 0 /\ j + (8 - f.bit) \in src
      BY <1>1, ShrIs DEF BitNos
    <3>2. \A j \in high : j \in Int
      BY <1>1 DEF Shr, BitNos
    <3> HIDE DEF high
    <3> QED
      BY <1>1, <3>1, <3>2 DEF BitNos
  <2> HIDE DEF high, kept, low
  <2>6. f.byte + 1 \in 0 .. ByteCount - 1 /\ f.byte + 1 # f.byte
    BY <1>1, <1>4 DEF Field
  <2>7. /\ Compress(b, f, src) \in ByteSet
        /\ \A c \in 0 .. ByteCount - 1 :
             Compress(b, f, src)[c] = IF c = f.byte THEN b[c] \cup low
                                      ELSE IF c = f.byte + 1 THEN b[c] \cup high ELSE b[c]
    <3>1. b[f.byte] \cup low \in SUBSET BitNos /\ b[f.byte + 1] \cup high \in SUBSET BitNos
      BY <1>1, <2>4, <2>5, <2>6
    <3> QED
      BY <1>1, <2>1, <2>6, <3>1, ZenonT(60) DEF ByteSet
  <2> QED
    BY <1>1, <1>4, <2>4, <2>5, <2>6, <2>7 DEF Adds
<1> QED
  BY <1>3, <1>4

\* A bit of the array is where the wire has it after the bytes were turned
\* round once more.
LEMMA ExchangeTwice ==
  ASSUME NEW b \in ByteSet
  PROVE  Exchange(b) \in ByteSet /\ Exchange(Exchange(b)) = b
BY PackingAssumption DEF Exchange, ByteSet

\* What gizDecompressionValue takes out, bit by bit.
LEMMA DecompressBits ==
  ASSUME NEW b \in ByteSet, NEW f \in Field
  PROVE  LET d == Decompress(Exchange(b), f)
         IN /\ d \subseteq 0 .. f.len - 1
            /\ \A i \in 0 .. f.len - 1 :
                 i \in d <=> IF f.bit + i < 8 THEN f.bit + i \in b[f.byte]
                                              ELSE f.bit + i - 8 \in b[f.byte + 1]
<1> USE PackingAssumption
<1> DEFINE d == Decompress(Exchange(b), f)
<1>1. /\ f.byte \in 0 .. ByteCount - 1 /\ f.bit \in BitNos /\ f.len \in 1 .. 8 /\ BitNos \in SUBSET Int
      /\ \A c \in 0 .. ByteCount - 1 : b[c] \subseteq BitNos /\ b[c] \in SUBSET Int
  BY DEF Field, ByteSet, BitNos
<1>2. \A i \in Int : i \in Shr(b[f.byte], f.bit) <=> i >= 0 /\ i + f.bit \in b[f.byte]
  BY <1>1, ShrIs DEF BitNos
<1>3. \A i \in Shr(b[f.byte], f.bit) : i \in Int
  BY <1>1 DEF Shr, BitNos
<1>4. CASE ~Across(f.bit, f.len)
  <2>1. d = Shr(b[f.byte], f.bit) \cap Shr(BitNos, 8 - f.len)
    BY <1>4, ExchangeTwice DEF Decompress
  <2>2. \A i \in Int : i \in Shr(BitNos, 8 - f.len) <=> i >= 0 /\ i < f.len
    BY <1>1, ShrIs DEF BitNos
  <2>3. \A i \in Int : i \in d <=> i >= 0 /\ i < f.len /\ i + f.bit \in b[f.byte]
    BY <2>1, <2>2, <1>2
  <2>4. \A i \in d : i \in Int
    BY <2>1, <1>3
  <2> HIDE DEF d
  <2>5. d \subseteq 0 .. f.len - 1
    BY <1>1, <2>3, <2>4
  <2>6. \A i \in 0 .. f.len - 1 : f.bit + i < 8 /\ i + f.bit = f.bit + i
    BY <1>1, <1>4 DEF Across, BitNos
  <2>7. \A i \in 0 .. f.len - 1 : i \in d <=> f.bit + i \in b[f.byte]
    BY <1>1, <2>3, <2>6
  <2> QED
    BY <2>5, <2>6, <2>7 DEF d
<1>5. CASE Across(f.bit, f.len)
  <2> DEFINE m == 8 - (f.len - (8 - f.bit))
             high == b[f.byte + 1] \cap Shr(BitNos, m)
             low == Shr(b[f.byte], f.bit)
  <2>1. d = Shl(high, 8 - f.bit) \cup low
    BY <1>5, ExchangeTwice DEF Decompress
  <2>2. f.byte + 1 \in 0 .. ByteCount - 1 /\ m \in Int
    BY <1>1, <1>5 DEF Field, BitNos
  <2>3. \A i \in Int : i \in Shr(BitNos, m) <=> i >= 0 /\ i + m < 8
    <3>1. m >= 0
      BY <1>1 DEF BitNos
    <3> HIDE DEF m
    <3>2. \A i \in Int : i \in Shr(BitNos, m) <=> i >= 0 /\ i + m \in BitNos
      BY <1>1, <2>2, ShrIs
    <3> QED
      BY <2>2, <3>1, <3>2 DEF BitNos
  <2>4. high \in SUBSET Int
        /\ \A i \in Int : i \in high <=> i >= 0 /\ i + m < 8 /\ i \in b[f.byte + 1]
    BY <1>1, <2>2, <2>3
  <2>5. \A i \in Int : i \in Shl(high, 8 - f.bit) <=> i - (8 - f.bit) \in high
    BY <1>1, <2>4, ShlIs DEF BitNos
  <2>6. \A i \in Shl(high, 8 - f.bit) : i \in Int
    BY <1>1, <2>4 DEF Shl, BitNos
  <2>7. \A i \in d : i \in Int
    BY <2>1, <2>6, <1>3
  <2> HIDE DEF d, high
  <2>8. \A i \in Int :
          i \in d <=> \/ /\ i - (8 - f.bit) >= 0 /\ i - (8 - f.bit) + m < 8
                         /\ i - (8 - f.bit) \in b[f.byte + 1]
                      \/ i >= 0 /\ i + f.bit \in b[f.byte]
    <3> TAKE i \in Int
    <3>1. i - (8 - f.bit) \in Int
      BY <1>1 DEF BitNos
    <3>2. i \in low <=> i >= 0 /\ i + f.bit \in b[f.byte]
      BY <1>2
    <3> HIDE DEF low, m
    <3> QED
      BY <2>1, <2>4, <2>5, <3>1, <3>2
  <2>9. \A i \in Int : i - (8 - f.bit) + m < 8 <=> i < f.len
    BY <1>1 DEF BitNos
  <2>10. \A i \in Int : i + f.bit \in b[f.byte] => f.bit + i < 8
    BY <1>1 DEF BitNos
  <2>11. \A i \in Int : i < f.len <=> i \in Int /\ i - (8 - f.bit) + m < 8
    BY <2>9
  <2>12. d \subseteq 0 .. f.len - 1
    <3> SUFFICES ASSUME NEW i \in d PROVE i \in 0 .. f.len - 1
      OBVIOUS
    <3>1. i \in Int
      BY <2>7
    <3>2. CASE i - (8 - f.bit) >= 0 /\ i - (8 - f.bit) + m < 8
      BY <3>1, <3>2, <2>9, <1>1 DEF BitNos
    <3>3. CASE i >= 0 /\ i + f.bit \in b[f.byte]
      BY <3>1, <3>3, <2>10, <1>1, <1>5 DEF BitNos, Across
    <3> HIDE DEF m
    <3> QED
      BY <2>8, <3>1, <3>2, <3>3
  <2>13. ASSUME NEW i \in 0 .. f.len - 1
         PROVE  i \in d <=> IF f.bit + i < 8 THEN f.bit + i \in b[f.byte]
                                             ELSE f.bit + i - 8 \in b[f.byte + 1]
    <3>1. /\ i \in Int /\ i >= 0 /\ i + f.bit = f.bit + i /\ i - (8 - f.bit) = f.bit + i - 8
          /\ (i - (8 - f.bit) >= 0 <=> ~(f.bit + i < 8))
      BY <1>1 DEF BitNos
    <3>2. i - (8 - f.bit) + m < 8
      BY <2>9, <3>1, <1>1
    <3> HIDE DEF m
    <3> QED
      BY <2>8, <2>10, <3>1, <3>2
  <2> QED
    BY <2>12, <2>13 DEF d
<1> QED
  BY <1>4, <1>5

-----------------------------------------------------------------------------

\* A packed field holds its value.
Holds(f) ==
  \A i \in 0 .. f.len - 1 :
    i \in value[f] <=> IF f.bit + i < 8 THEN f.bit + i \in bitBuf[f.byte]
                                        ELSE f.bit + i - 8 \in bitBuf[f.byte + 1]

\* BitNos outside the packed fields are clear.
NoStray ==
  \A c \in 0 .. ByteCount - 1 : \A j \in bitBuf[c] : \E f \in layout : <<c, j>> \in Cells(f)

PackInv ==
  /\ PackTypeOK
  /\ delivered => wire = Exchange(bitBuf)
  /\ \A f \in layout : value[f] \subseteq 0 .. f.len - 1
  /\ NoStray
  /\ \A f \in layout : Whole(f) => Holds(f)

\* Nothing is packed at first.
LEMMA InitPack == PackInit => PackInv
<1> SUFFICES ASSUME PackInit PROVE PackInv
  OBVIOUS
<1>1. layout = {} /\ value \in [layout -> SUBSET BitNos]
  BY DEF PackInit, layout
<1>2. bitBuf \in ByteSet /\ \A c \in 0 .. ByteCount - 1 : bitBuf[c] = {}
  BY DEF PackInit, ByteSet
<1> QED
  BY <1>1, <1>2 DEF PackInit, PackInv, PackTypeOK, NoStray, ByteSet

\* What is added to the buffer lies in the field's own bits.
LEMMA AddsInCells ==
  ASSUME NEW f \in Field, NEW src \in SUBSET BitNos, src \subseteq 0 .. f.len - 1,
         NEW c \in 0 .. ByteCount - 1, NEW j \in BitNos, Adds(f, src, c, j)
  PROVE  <<c, j>> \in Cells(f)
<1>1. f.byte \in 0 .. ByteCount - 1 /\ f.bit \in 0 .. 7 /\ f.len \in 1 .. 8 /\ j \in 0 .. 7
  BY DEF Field, BitNos
<1>2. CASE c = f.byte /\ j - f.bit \in src
  <2>1. f.bit <= j /\ j < f.bit + f.len
    BY <1>1, <1>2
  <2> QED
    BY <1>2, <2>1 DEF Cells
<1>3. CASE c = f.byte + 1 /\ j + 8 - f.bit \in src
  <2>1. j < f.bit + f.len - 8
    BY <1>1, <1>3
  <2> QED
    BY <1>3, <2>1 DEF Cells
<1> QED
  BY <1>2, <1>3 DEF Adds

\* The bits a field is read from are its own.
LEMMA ReadsInCells ==
  ASSUME NEW f \in Field, NEW i \in 0 .. f.len - 1
  PROVE  IF f.bit + i < 8 THEN f.bit + i \in BitNos /\ <<f.byte, f.bit + i>> \in Cells(f)
         ELSE /\ f.byte + 1 \in 0 .. ByteCount - 1 /\ f.bit + i - 8 \in BitNos
              /\ <<f.byte + 1, f.bit + i - 8>> \in Cells(f)
<1>1. f.byte \in 0 .. ByteCount - 1 /\ f.bit \in 0 .. 7 /\ f.len \in 1 .. 8
  BY DEF Field, BitNos
<1>2. CASE f.bit + i < 8
  <2>1. f.bit + i \in BitNos /\ f.bit <= f.bit + i /\ f.bit + i < f.bit + f.len
    BY <1>1, <1>2 DEF BitNos
  <2> QED
    BY <1>2, <2>1 DEF Cells
<1>3. CASE ~(f.bit + i < 8)
  <2>1. f.bit + i - 8 \in BitNos /\ f.bit + i - 8 < f.bit + f.len - 8
    BY <1>1, <1>3 DEF BitNos
  <2>2. f.byte + 1 \in 0 .. ByteCount - 1
    BY <1>1, <1>3, PackingAssumption DEF Field, Across
  <2> QED
    BY <1>3, <2>1, <2>2 DEF Cells
<1> QED
  BY <1>2, <1>3

\* Packing a field sets its own bits alone, so what is packed stays packed.
LEMMA PackPreserves ==
  ASSUME PackInv, NEW f \in Fields, NEW src \in Packed, Pack(f, src)
  PROVE  PackInv'
<1> USE PackingAssumption
<1>1. f \in Field /\ src \in SUBSET BitNos /\ src \subseteq 0 .. f.len - 1 /\ bitBuf \in ByteSet
  BY FieldsAreFields DEF Pack, PackInv, PackTypeOK, ByteSet
<1>2. /\ f \notin layout /\ Free(f) /\ delivered = FALSE /\ delivered' = FALSE /\ wire' = wire
      /\ value' = [g \in layout \cup {f} |-> IF g = f THEN src ELSE value[g]]
      /\ bitBuf' = Compress(bitBuf, f, src)
  BY DEF Pack, PackInv, PackTypeOK
<1>3. /\ bitBuf' \in ByteSet
      /\ \A c \in 0 .. ByteCount - 1 : \A j \in BitNos :
           j \in bitBuf'[c] <=> j \in bitBuf[c] \/ Adds(f, src, c, j)
  BY <1>1, <1>2, CompressBits
<1>4. layout' = layout \cup {f} /\ value'[f] = src /\ \A g \in layout : value'[g] = value[g]
  BY <1>2 DEF layout
<1>5. PackTypeOK'
  <2>1. value' \in [layout' -> SUBSET BitNos]
    BY <1>1, <1>2, <1>4 DEF PackInv, PackTypeOK
  <2> QED
    BY <1>2, <1>3, <1>4, <2>1 DEF PackInv, PackTypeOK, ByteSet
<1>6. \A g \in layout' : value'[g] \subseteq 0 .. g.len - 1
  BY <1>1, <1>4 DEF PackInv
<1>7. NoStray'
  <2> SUFFICES ASSUME NEW c \in 0 .. ByteCount - 1, NEW j \in bitBuf'[c]
               PROVE  \E g \in layout' : <<c, j>> \in Cells(g)
    BY DEF NoStray, Cells
  <2>1. j \in BitNos
    BY <1>3 DEF ByteSet
  <2>2. CASE j \in bitBuf[c]
    BY <2>2, <1>4 DEF PackInv, NoStray
  <2>3. CASE Adds(f, src, c, j)
    BY <2>1, <2>3, <1>1, <1>4, AddsInCells
  <2> QED
    BY <2>1, <2>2, <2>3, <1>3
<1>8. ASSUME NEW g \in layout, Whole(g) PROVE Holds(g)'
  <2>1. g \in Field /\ Holds(g) /\ Cells(f) \cap Cells(g) = {}
    BY <1>2, <1>8, FieldsAreFields DEF PackInv, PackTypeOK, Free
  <2>2. \A c \in 0 .. ByteCount - 1 : \A j \in BitNos :
          <<c, j>> \in Cells(g) => (j \in bitBuf'[c] <=> j \in bitBuf[c])
    BY <1>1, <1>3, <2>1, AddsInCells
  <2>3. ASSUME NEW i \in 0 .. g.len - 1
        PROVE  i \in value'[g] <=> IF g.bit + i < 8 THEN g.bit + i \in bitBuf'[g.byte]
                                                    ELSE g.bit + i - 8 \in bitBuf'[g.byte + 1]
    <3>1. g.byte \in 0 .. ByteCount - 1 /\ value'[g] = value[g]
      BY <2>1, <1>4 DEF Field
    <3>2. CASE g.bit + i < 8
      <4>1. g.bit + i \in bitBuf'[g.byte] <=> g.bit + i \in bitBuf[g.byte]
        BY <2>1, <2>2, <3>1, <3>2, ReadsInCells
      <4> QED
        BY <2>1, <3>1, <3>2, <4>1 DEF Holds
    <3>3. CASE ~(g.bit + i < 8)
      <4>1. g.bit + i - 8 \in bitBuf'[g.byte + 1] <=> g.bit + i - 8 \in bitBuf[g.byte + 1]
        BY <2>1, <2>2, <3>1, <3>3, ReadsInCells
      <4> QED
        BY <2>1, <3>1, <3>3, <4>1 DEF Holds
    <3> QED
      BY <3>2, <3>3
  <2> QED
    BY <2>3 DEF Holds
<1>9. ASSUME Whole(f) PROVE Holds(f)'
  <2>1. f.byte \in 0 .. ByteCount - 1 /\ f.bit \in 0 .. 7 /\ f.len \in 1 .. 8
    BY <1>1 DEF Field, BitNos
  <2>2. \A c \in 0 .. ByteCount - 1 : \A j \in BitNos : <<c, j>> \in Cells(f) => j \notin bitBuf[c]
    BY <1>2 DEF PackInv, NoStray, Free
  <2>3. ASSUME NEW i \in 0 .. f.len - 1
        PROVE  i \in src <=> IF f.bit + i < 8 THEN f.bit + i \in bitBuf'[f.byte]
                                              ELSE f.bit + i - 8 \in bitBuf'[f.byte + 1]
    <3>1. CASE f.bit + i < 8
      <4>1. f.bit + i \in BitNos /\ f.bit + i \notin bitBuf[f.byte]
        BY <1>1, <2>1, <2>2, <3>1, ReadsInCells
      <4>2. f.bit + i \in bitBuf'[f.byte] <=> Adds(f, src, f.byte, f.bit + i)
        BY <4>1, <2>1, <1>3
      <4>3. (f.bit + i) - f.bit = i /\ f.byte # f.byte + 1 /\ (Across(f.bit, f.len) => i < f.bit)
        BY <2>1, <3>1, <1>9 DEF Whole
      <4> QED
        BY <3>1, <4>2, <4>3 DEF Adds
    <3>2. CASE ~(f.bit + i < 8)
      <4>1. /\ f.byte + 1 \in 0 .. ByteCount - 1
            /\ f.bit + i - 8 \in BitNos /\ f.bit + i - 8 \notin bitBuf[f.byte + 1]
        BY <1>1, <2>1, <2>2, <3>2, ReadsInCells
      <4>2. f.bit + i - 8 \in bitBuf'[f.byte + 1] <=> Adds(f, src, f.byte + 1, f.bit + i - 8)
        BY <4>1, <2>1, <1>3
      <4>3. /\ (f.bit + i - 8) + 8 - f.bit = i /\ f.byte # f.byte + 1
            /\ Across(f.bit, f.len)
        BY <2>1, <3>2 DEF Across
      <4> QED
        BY <3>2, <4>2, <4>3 DEF Adds
    <3> QED
      BY <3>1, <3>2
  <2> QED
    BY <1>4, <2>3 DEF Holds
<1>10. \A g \in layout' : Whole(g)' => Holds(g)'
  BY <1>4, <1>8, <1>9 DEF Whole
<1> QED
  BY <1>2, <1>5, <1>6, <1>7, <1>10 DEF PackInv

\* No step breaks the round trip invariant.
LEMMA StepPack == PackInv /\ [PackNext]_PackVars => PackInv'
<1> SUFFICES ASSUME PackInv, [PackNext]_PackVars PROVE PackInv'
  OBVIOUS
<1>1. CASE HandOver
  <2>1. /\ bitBuf \in ByteSet /\ wire' = Exchange(bitBuf) /\ bitBuf' = bitBuf
        /\ value' = value /\ delivered' = TRUE
    BY <1>1 DEF HandOver, PackInv, PackTypeOK, ByteSet
  <2>2. wire' \in ByteSet
    BY <2>1, ExchangeTwice
  <2> QED
    BY <2>1, <2>2 DEF PackInv, PackTypeOK, layout, NoStray, Holds, Whole, Cells, ByteSet, Exchange
<1>2. CASE UNCHANGED PackVars
  BY <1>2 DEF PackVars, PackInv, PackTypeOK, layout, NoStray, Holds, Whole, Cells, Exchange
<1> QED
  BY <1>1, <1>2, PackPreserves DEF PackNext

\* The round trip invariant holds for ever.
LEMMA PackAlways == PackSpec => []PackInv
BY InitPack, StepPack, PTL DEF PackSpec

-----------------------------------------------------------------------------

\* gizCompressValue and gizByteOrderExchange leave bytes in the buffer.
THEOREM BytesStayBytes == PackSpec => []PackTypeOK
BY PackAlways, PTL DEF PackInv

\* In a buffer with no stray bits every field reads back as it was packed.
LEMMA RoundTripHolds == PackInv => RoundTrip
<1> SUFFICES ASSUME PackInv, delivered, NEW f \in layout, Whole(f)
             PROVE  Decompress(wire, f) = value[f]
  BY DEF RoundTrip
<1>1. bitBuf \in ByteSet /\ f \in Field /\ wire = Exchange(bitBuf) /\ Holds(f)
      /\ value[f] \subseteq 0 .. f.len - 1
  BY FieldsAreFields DEF PackInv, PackTypeOK, ByteSet
<1> DEFINE d == Decompress(wire, f)
<1>2. /\ d \subseteq 0 .. f.len - 1
      /\ \A i \in 0 .. f.len - 1 :
           i \in d <=> IF f.bit + i < 8 THEN f.bit + i \in bitBuf[f.byte]
                                        ELSE f.bit + i - 8 \in bitBuf[f.byte + 1]
  BY <1>1, DecompressBits
<1> HIDE DEF d
<1>3. \A i \in 0 .. f.len - 1 : i \in d <=> i \in value[f]
  BY <1>1, <1>2 DEF Holds
<1>4. d = value[f]
  BY <1>1, <1>2, <1>3
<1> QED
  BY <1>4 DEF d

\* The cloud takes out of every bit field what the device put in, whatever
\* other fields share its bytes.
THEOREM PackedIsUnpacked == PackSpec => []RoundTrip
BY PackAlways, RoundTripHolds, PTL

-----------------------------------------------------------------------------
(* hw_timer.c                                                              *)

\* Division undoes multiplication.
LEMMA DivOfProduct ==
  ASSUME NEW a \in Nat, NEW b \in Nat \ {0}
  PROVE  (a * b) \div b = a
OBVIOUS

\* A microsecond is a whole number of ticks, and so are four.
LEMMA TicksOfMicros ==
  /\ PerMicro \in Nat \ {0} /\ CLOCK = PerMicro * MICROS
  /\ CLOCK \div (MICROS \div 4) = 4 * PerMicro
<1>1. PICK q \in 1 .. MICROS : MICROS = 4 * q
  BY TimerAssumption
<1>2. PICK k \in 1 .. CLOCK : CLOCK = k * MICROS
  BY TimerAssumption
<1>3. k \in Nat \ {0} /\ q \in Nat \ {0} /\ MICROS \in Nat \ {0}
  BY <1>1, <1>2, TimerAssumption
<1>4. PerMicro = k
  BY <1>2, <1>3, DivOfProduct DEF PerMicro
<1>5. MICROS \div 4 = q
  BY <1>1, <1>3
<1>6. CLOCK = (4 * k) * q
  BY <1>1, <1>2, <1>3
<1>7. CLOCK \div q = 4 * k
  BY <1>3, <1>6, DivOfProduct
<1> QED
  BY <1>2, <1>3, <1>4, <1>5, <1>7

\* US_TO_RTC_TIMER_TICKS is exact on both sides of THRESHOLD.
LEMMA TicksExact ==
  ASSUME NEW t \in DelaysUs
  PROVE  US_TO_RTC_TIMER_TICKS(t) = t * PerMicro
<1>1. /\ t \in Nat /\ WORD \in Nat /\ THRESHOLD \in Nat /\ t * PerMicro < WORD
      /\ t * PerMicro \in Nat
  BY TicksOfMicros, TimerAssumption DEF PerMicro
<1>2. CASE t > THRESHOLD
  <2>1. t \div 4 \in Nat /\ t % 4 \in Nat /\ t = 4 * (t \div 4) + (t % 4)
    BY <1>1
  <2>2. (t \div 4) * (4 * PerMicro) + (t % 4) * PerMicro = t * PerMicro
    BY <2>1, TicksOfMicros
  <2>3. US_TO_RTC_TIMER_TICKS(t) = (t * PerMicro) % WORD
    BY <1>2, <2>2, TicksOfMicros DEF US_TO_RTC_TIMER_TICKS
  <2> QED
    BY <1>1, <2>3
<1>3. CASE t <= THRESHOLD
  <2>1. CLOCK \in Nat /\ THRESHOLD * CLOCK < WORD
    BY TimerAssumption
  <2>2. t * CLOCK <= THRESHOLD * CLOCK /\ t * CLOCK \in Nat
    BY <1>1, <1>3, <2>1
  <2>3. (t * CLOCK) % WORD = t * CLOCK
    BY <1>1, <2>1, <2>2
  <2>4. t * CLOCK = (t * PerMicro) * MICROS
    BY <1>1, TicksOfMicros, TimerAssumption
  <2>5. US_TO_RTC_TIMER_TICKS(t) = ((t * PerMicro) * MICROS) \div MICROS
    BY <1>1, <1>3, <2>3, <2>4 DEF US_TO_RTC_TIMER_TICKS
  <2> QED
    BY <1>1, <2>5, DivOfProduct, TimerAssumption
<1> QED
  BY <1>1, <1>2, <1>3

\* What the load register keeps of a delay whose ticks it can hold is that delay,
\* which is what the counter starts over with in autoload mode.
TimerInv ==
  /\ wanted \in Nat /\ due \in Nat /\ OnTime
  /\ wanted * PerMicro < LOAD => load = wanted * PerMicro

\* Nothing is asked for before the first hw_timer_arm.
LEMMA TimerInitInv == TimerInit => TimerInv
BY TicksOfMicros DEF TimerInit, TimerInv, OnTime

\* Every call, tick and interrupt keeps the count and the delay together.
LEMMA TimerStepInv == TimerInv /\ [TimerNext]_TimerVars => TimerInv'
<1> SUFFICES ASSUME TimerInv, [TimerNext]_TimerVars PROVE TimerInv'
  OBVIOUS
<1>0. PerMicro \in Nat \ {0}
  BY TicksOfMicros
<1>1. ASSUME NEW req \in {0, 1}, hw_timer_init(req) PROVE TimerInv'
  BY <1>1 DEF hw_timer_init, TimerInv, OnTime, PerMicro
<1>2. CASE hw_timer_set_func
  BY <1>2 DEF hw_timer_set_func, TimerInv, OnTime, PerMicro
<1>3. ASSUME NEW val \in DelaysUs, hw_timer_arm(val) PROVE TimerInv'
  <2>1. val \in Nat /\ LOAD \in Nat \ {0} /\ val * PerMicro \in Nat
    BY <1>0, TimerAssumption
  <2>2. val * PerMicro < LOAD => (val * PerMicro) % LOAD = val * PerMicro
    BY <2>1
  <2>3. /\ load' = (val * PerMicro) % LOAD /\ count' = load'
        /\ wanted' = val /\ due' = val
    BY <1>3, TicksExact DEF hw_timer_arm
  <2> QED
    BY <2>1, <2>2, <2>3 DEF TimerInv, OnTime, PerMicro
<1>4. CASE CountDown
  <2>1. /\ count' = count - PerMicro /\ due' = IF due = 0 THEN 0 ELSE due - 1
        /\ load' = load /\ wanted' = wanted /\ count > PerMicro
    BY <1>4 DEF CountDown
  <2>2. wanted * PerMicro < LOAD => count = due * PerMicro /\ due # 0
    BY <1>0, <2>1 DEF TimerInv, OnTime
  <2>3. wanted * PerMicro < LOAD => count' = due' * PerMicro
    BY <1>0, <2>1, <2>2 DEF TimerInv
  <2> QED
    BY <1>0, <2>1, <2>3 DEF TimerInv, OnTime, PerMicro
<1>5. CASE Expire
  <2>1. /\ count' = IF autoload THEN load ELSE 0
        /\ due' = IF autoload THEN wanted ELSE 0
        /\ load' = load /\ wanted' = wanted
    BY <1>5 DEF Expire
  <2> QED
    BY <1>0, <2>1 DEF TimerInv, OnTime, PerMicro
<1>6. CASE UNCHANGED TimerVars
  BY <1>6 DEF TimerVars, TimerInv, OnTime, PerMicro
<1> QED
  BY <1>1, <1>2, <1>3, <1>4, <1>5, <1>6 DEF TimerNext

\* For any clock, any load register and any delay whose ticks it can hold, the
\* interrupt comes when it was asked for, the first time and in autoload mode every time after.
THEOREM InterruptsOnTime == TimerSpec => []OnTime
<1>1. TimerInv => OnTime
  BY DEF TimerInv
<1> QED
  BY <1>1, TimerInitInv, TimerStepInv, PTL DEF TimerSpec

-----------------------------------------------------------------------------
(* hal_motor.c and hal_rgb_led.c                                           *)

Early == {"light", "keys", "motor"}

\* Before the motor is initialised its driver remembers nothing; after that
\* memory, channels and output are one, those of the last speed asked for.
MotorInv ==
  IF boot \in Early THEN cached = Off /\ motor = 0
  ELSE /\ cached = duty /\ running = duty
       /\ duty = [c \in Channels |-> Share(Fractions(motor)[c])]

\* The fractions of a stopped motor.
LEMMA OffIsStopped == Off = [c \in Channels |-> Share(Fractions(0)[c])]
BY DEF Off, Channels, Share, Fractions, MOTOR_SFCT_STA, MOTOR_MAX_DUTY

\* A speed set on channels that are as remembered.
LEMMA ControlSets ==
  ASSUME cached = duty, NEW status,
         motorControl(status)
  PROVE  /\ cached' = duty' /\ running' = duty' /\ motor' = status
         /\ duty' = [c \in Channels |-> Share(Fractions(status)[c])]
<1>1. motor' = status /\ motorPwmControl(Fractions(status))
  BY DEF motorControl
<1> DEFINE part == Fractions(status)
<1>2. motorPwmControl(part)
  BY <1>1
<1> HIDE DEF part
<1>3. /\ running' = duty'
      /\ duty' = [c \in Channels |-> IF Share(part[c]) # cached[c] THEN Share(part[c]) ELSE duty[c]]
      /\ cached' = [c \in Channels |-> IF Share(part[c]) # cached[c] THEN duty'[c] ELSE cached[c]]
  BY <1>2 DEF motorPwmControl
<1>4. duty' = [c \in Channels |-> Share(part[c])]
  BY <1>3
<1>5. cached' = [c \in Channels |-> Share(part[c])]
  BY <1>3, <1>4
<1> QED
  BY <1>1, <1>3, <1>4, <1>5 DEF part

\* Every step keeps memory and channels together.
LEMMA MotorStepInv ==
  ASSUME MotorInv, [BoardNext]_BoardVars
  PROVE  MotorInv'
<1>1. ASSUME UNCHANGED bridge, boot' \in Early <=> boot \in Early PROVE MotorInv'
  BY <1>1 DEF MotorInv, bridge
<1>2. CASE motorInit
  BY <1>2, OffIsStopped DEF motorInit, MotorInv, Boot, Early
<1>3. ASSUME NEW status, motorControl(status), boot \notin Early,
             boot' \notin Early
      PROVE  MotorInv'
  <2>1. cached = duty
    BY <1>3 DEF MotorInv
  <2> QED
    BY <1>3, <2>1, ControlSets DEF MotorInv
<1>4. CASE ResetBoard
  BY <1>4 DEF ResetBoard, MotorInv, Early
<1> USE DEF Early
<1>5. CASE rgbGpioInit \/ keyParaInit
  BY <1>1, <1>5 DEF rgbGpioInit, keyParaInit, Boot
<1>6. CASE dh11Init \/ dh11InitCheck \/ Request \/ Answered
  BY <1>1, <1>6 DEF dh11Init, dh11InitCheck, Request, Answered, dht11Rst, dht11Check, Idle
<1>7. CASE Clock \/ \E c \in Colours : SetLight(c)
  BY <1>1, <1>7 DEF Clock, SetLight
<1>8. CASE DefaultSpeed
  BY <1>3, <1>8 DEF DefaultSpeed, Boot
<1>9. CASE \E status \in Speeds : SetMotor(status)
  BY <1>3, <1>9 DEF SetMotor, Idle
<1>10. CASE UNCHANGED BoardVars
  BY <1>1, <1>10 DEF BoardVars
<1> QED
  BY <1>2, <1>4, <1>5, <1>6, <1>7, <1>8, <1>9, <1>10 DEF BoardNext

\* In the range the driver is made for, the shares are exact to a count.
LEMMA SharesAreClose ==
  ASSUME NEW m \in -MOTOR_SFCT_STA .. MOTOR_SFCT_STA
  PROVE  (Share(Fractions(m)[1]) - Share(Fractions(m)[0])) * MOTOR_SFCT_STA - m * MOTOR_MAX_DUTY
           \in -MOTOR_SFCT_STA .. MOTOR_SFCT_STA
<1>1. MOTOR_MAX_DUTY = 22222 /\ MOTOR_SFCT_STA = 5
  BY DEF MOTOR_MAX_DUTY, MOTOR_SFCT_STA
<1>2. m \in -5 .. 5
  BY <1>1
<1>3. /\ Fractions(m)[0] = IF m >= 0 THEN 0 ELSE 5
      /\ Fractions(m)[1] = IF m >= 0 THEN m ELSE 5 + m
  BY <1>1, <1>2 DEF Fractions, Channels
<1> QED
  BY <1>1, <1>2, <1>3 DEF Share

\* The motor runs as asked, whatever speeds were set before.
THEOREM MotorAlwaysFollows == BoardSpec => []MotorFollows
<1>1. BoardInit => MotorInv
  BY DEF BoardInit, MotorInv, Early
<1>2. MotorInv /\ [BoardNext]_BoardVars => MotorInv'
  BY MotorStepInv
<1>3. MotorInv => MotorFollows
  <2> SUFFICES ASSUME MotorInv, boot \notin {"light", "keys", "motor"} PROVE MotorFollows
    BY DEF MotorFollows
  <2>1. /\ cached = duty /\ running[0] = Share(Fractions(motor)[0])
        /\ running[1] = Share(Fractions(motor)[1])
    BY DEF MotorInv, Early, Channels
  <2>2. motor \in -MOTOR_SFCT_STA .. MOTOR_SFCT_STA =>
          (running[1] - running[0]) * MOTOR_SFCT_STA - motor * MOTOR_MAX_DUTY
             \in -MOTOR_SFCT_STA .. MOTOR_SFCT_STA
    BY <2>1, SharesAreClose
  <2> QED
    BY <2>1, <2>2 DEF MotorFollows
<1> QED
  BY <1>1, <1>2, <1>3, PTL DEF BoardSpec

-----------------------------------------------------------------------------

\* A sequence of n elements.
LEMMA SequenceOf ==
  ASSUME NEW S, NEW n \in Nat, NEW s \in [1 .. n -> S]
  PROVE  s \in Seq(S) /\ Len(s) = n
OBVIOUS

\* An element of a sequence.
LEMMA ElementOf ==
  ASSUME NEW S, NEW s \in Seq(S), NEW i \in 1 .. Len(s)
  PROVE  s[i] \in S
OBVIOUS

\* The bits of a byte, the highest first.
LEMMA DigitsAre ==
  ASSUME NEW n \in 0 .. 255
  PROVE  /\ Digits(n, 8) = [i \in 1 .. 8 |-> Digits(n, 8)[i]]
         /\ Digits(n, 8) \in Seq({0, 1}) /\ Len(Digits(n, 8)) = 8
         /\ Digits(n, 8)[1] = n \div 128 /\ Digits(n, 8)[2] = (n \div 64) % 2
         /\ Digits(n, 8)[3] = (n \div 32) % 2 /\ Digits(n, 8)[4] = (n \div 16) % 2
         /\ Digits(n, 8)[5] = (n \div 8) % 2 /\ Digits(n, 8)[6] = (n \div 4) % 2
         /\ Digits(n, 8)[7] = (n \div 2) % 2 /\ Digits(n, 8)[8] = n % 2
<1>1. /\ 2^0 = 1 /\ 2^1 = 2 /\ 2^2 = 4 /\ 2^3 = 8 /\ 2^4 = 16 /\ 2^5 = 32 /\ 2^6 = 64
      /\ 2^7 = 128 /\ n \div 1 = n
  OBVIOUS
<1>2. Digits(n, 8) = [i \in 1 .. 8 |-> (n \div 2 ^ (8 - i)) % 2]
  BY DEF Digits
<1>3. /\ Digits(n, 8)[1] = (n \div 128) % 2 /\ Digits(n, 8)[2] = (n \div 64) % 2
      /\ Digits(n, 8)[3] = (n \div 32) % 2 /\ Digits(n, 8)[4] = (n \div 16) % 2
      /\ Digits(n, 8)[5] = (n \div 8) % 2 /\ Digits(n, 8)[6] = (n \div 4) % 2
      /\ Digits(n, 8)[7] = (n \div 2) % 2 /\ Digits(n, 8)[8] = n % 2
  BY <1>1, <1>2
<1>4. (n \div 128) % 2 = n \div 128
  OBVIOUS
<1>5. \A i \in 1 .. 8 : Digits(n, 8)[i] \in {0, 1}
  BY <1>3
<1>6. DOMAIN Digits(n, 8) = 1 .. 8 /\ Digits(n, 8) = [i \in 1 .. 8 |-> Digits(n, 8)[i]]
  BY <1>2
<1> DEFINE d == Digits(n, 8)
<1>7. d \in Seq({0, 1}) /\ Len(d) = 8
  <2>1. d = [i \in 1 .. 8 |-> d[i]] /\ \A i \in 1 .. 8 : d[i] \in {0, 1}
    BY <1>5, <1>6
  <2> HIDE DEF d
  <2>2. d \in [1 .. 8 -> {0, 1}]
    BY <2>1
  <2> QED
    BY <2>2, SequenceOf
<1> QED
  BY <1>3, <1>4, <1>6, <1>7

\* The number that eight bits make.
LEMMA NumberOfEight ==
  ASSUME NEW s \in Seq({0, 1}), Len(s) = 8
  PROVE  Number(s) = 128 * s[1] + 64 * s[2] + 32 * s[3] + 16 * s[4]
                     + 8 * s[5] + 4 * s[6] + 2 * s[7] + s[8]
<1> DEFINE is(f) == f = [i \in 0 .. Len(s) |-> IF i = 0 THEN 0 ELSE 2 * f[i - 1] + s[i]]
           a1 == s[1]
           a2 == 2 * a1 + s[2]
           a3 == 2 * a2 + s[3]
           a4 == 2 * a3 + s[4]
           a5 == 2 * a4 + s[5]
           a6 == 2 * a5 + s[6]
           a7 == 2 * a6 + s[7]
           a8 == 2 * a7 + s[8]
           g == [i \in 0 .. 8 |-> CASE i = 0 -> 0 [] i = 1 -> a1 [] i = 2 -> a2 [] i = 3 -> a3
                                    [] i = 4 -> a4 [] i = 5 -> a5 [] i = 6 -> a6 [] i = 7 -> a7
                                    [] i = 8 -> a8]
           f == CHOOSE f : is(f)
<1>1. Number(s) = f[8]
  BY DEF Number
<1>2. is(g)
  OBVIOUS
<1>3. is(f)
  BY <1>2
<1> HIDE DEF f
<1>4. /\ f[0] = 0 /\ f[1] = 2 * f[0] + s[1] /\ f[2] = 2 * f[1] + s[2] /\ f[3] = 2 * f[2] + s[3]
      /\ f[4] = 2 * f[3] + s[4] /\ f[5] = 2 * f[4] + s[5] /\ f[6] = 2 * f[5] + s[6]
      /\ f[7] = 2 * f[6] + s[7] /\ f[8] = 2 * f[7] + s[8]
  BY <1>3
<1>5. \A i \in 1 .. 8 : s[i] \in {0, 1}
  BY ElementOf
<1>6. \A i \in 1 .. 8 : s[i] \in Int
  BY <1>5
<1>7. /\ s[1] \in Int /\ s[2] \in Int /\ s[3] \in Int /\ s[4] \in Int
      /\ s[5] \in Int /\ s[6] \in Int /\ s[7] \in Int /\ s[8] \in Int
  BY <1>6
<1> DEFINE x1 == s[1]
           x2 == s[2]
           x3 == s[3]
           x4 == s[4]
           x5 == s[5]
           x6 == s[6]
           x7 == s[7]
           x8 == s[8]
           y == f[8]
<1>8. \E y1, y2, y3, y4, y5, y6, y7 :
        /\ y1 = 2 * 0 + x1 /\ y2 = 2 * y1 + x2 /\ y3 = 2 * y2 + x3 /\ y4 = 2 * y3 + x4
        /\ y5 = 2 * y4 + x5 /\ y6 = 2 * y5 + x6 /\ y7 = 2 * y6 + x7 /\ y = 2 * y7 + x8
  <2> WITNESS f[1], f[2], f[3], f[4], f[5], f[6], f[7]
  <2> QED
    BY <1>4, Zenon
<1>9. /\ x1 \in Int /\ x2 \in Int /\ x3 \in Int /\ x4 \in Int
      /\ x5 \in Int /\ x6 \in Int /\ x7 \in Int /\ x8 \in Int
  BY <1>7
<1> HIDE DEF x1, x2, x3, x4, x5, x6, x7, x8, y
<1>10. y = 128 * x1 + 64 * x2 + 32 * x3 + 16 * x4 + 8 * x5 + 4 * x6 + 2 * x7 + x8
  BY <1>8, <1>9
<1> QED
  BY <1>1, <1>10, Zenon DEF x1, x2, x3, x4, x5, x6, x7, x8, y

\* A byte read back from its bits.
LEMMA NumberOfDigits ==
  ASSUME NEW n \in 0 .. 255
  PROVE  Number(Digits(n, 8)) = n
<1> DEFINE d == Digits(n, 8)
<1>1. /\ d \in Seq({0, 1}) /\ Len(d) = 8
      /\ d[1] = n \div 128 /\ d[2] = (n \div 64) % 2 /\ d[3] = (n \div 32) % 2
      /\ d[4] = (n \div 16) % 2 /\ d[5] = (n \div 8) % 2 /\ d[6] = (n \div 4) % 2
      /\ d[7] = (n \div 2) % 2 /\ d[8] = n % 2
  BY DigitsAre
<1>2. Number(d) = 128 * d[1] + 64 * d[2] + 32 * d[3] + 16 * d[4]
                     + 8 * d[5] + 4 * d[6] + 2 * d[7] + d[8]
  BY <1>1, NumberOfEight
<1>3. /\ n = 2 * (n \div 2) + (n % 2)
      /\ n \div 2 = 2 * (n \div 4) + ((n \div 2) % 2)
      /\ n \div 4 = 2 * (n \div 8) + ((n \div 4) % 2)
      /\ n \div 8 = 2 * (n \div 16) + ((n \div 8) % 2)
      /\ n \div 16 = 2 * (n \div 32) + ((n \div 16) % 2)
      /\ n \div 32 = 2 * (n \div 64) + ((n \div 32) % 2)
      /\ n \div 64 = 2 * (n \div 128) + ((n \div 64) % 2)
  OBVIOUS
<1>4. Number(d) = 128 * (n \div 128) + 64 * ((n \div 64) % 2) + 32 * ((n \div 32) % 2)
                  + 16 * ((n \div 16) % 2) + 8 * ((n \div 8) % 2) + 4 * ((n \div 4) % 2)
                  + 2 * ((n \div 2) % 2) + (n % 2)
  BY <1>1, <1>2, Zenon
<1> HIDE DEF d
<1>5. 128 * (n \div 128) + 64 * ((n \div 64) % 2) + 32 * ((n \div 32) % 2)
        + 16 * ((n \div 16) % 2) + 8 * ((n \div 8) % 2) + 4 * ((n \div 4) % 2)
        + 2 * ((n \div 2) % 2) + (n % 2) = n
  BY <1>3
<1> QED
  BY <1>4, <1>5, Zenon DEF d

Bit == {0, 1}

\* The check bits of a byte.
LEMMA CheckBits ==
  ASSUME NEW n \in 0 .. 255
  PROVE  Digits(3 - n \div 64, 2) \in Seq(Bit) /\ Len(Digits(3 - n \div 64, 2)) = 2
<1> DEFINE m == 3 - n \div 64
           d == Digits(m, 2)
<1>1. m \in 0 .. 3
  OBVIOUS
<1> HIDE DEF m
<1>2. 2 ^ 0 = 1 /\ 2 ^ 1 = 2 /\ d = [i \in 1 .. 2 |-> (m \div 2 ^ (2 - i)) % 2]
  BY DEF Digits
<1>3. d[1] \in Bit /\ d[2] \in Bit
  BY <1>1, <1>2 DEF Bit
<1>4. d \in [1 .. 2 -> Bit]
  <2>1. d = [i \in 1 .. 2 |-> d[i]]
    BY <1>2
  <2>2. \A i \in 1 .. 2 : d[i] \in Bit
    BY <1>3
  <2> HIDE DEF d
  <2> QED
    BY <2>1, <2>2
<1> HIDE DEF d
<1>5. d \in Seq(Bit) /\ Len(d) = 2
  BY <1>4, SequenceOf
<1> QED
  BY <1>5 DEF d, m

\* Two sequences joined: the length,
LEMMA JoinedLength ==
  ASSUME NEW S, NEW a \in Seq(S), NEW b \in Seq(S), NEW m \in Nat, NEW n \in Nat, NEW k \in Nat,
         Len(a) = m, Len(b) = n, k = m + n
  PROVE  a \o b \in Seq(S) /\ Len(a \o b) = k
OBVIOUS

\* the end
LEMMA JoinedEnd ==
  ASSUME NEW S, NEW a \in Seq(S), NEW b \in Seq(S)
  PROVE  SubSeq(a \o b, Len(a) + 1, Len(a) + Len(b)) = b
OBVIOUS

\* and what comes before.
LEMMA JoinedBefore ==
  ASSUME NEW S, NEW a \in Seq(S), NEW b \in Seq(S), NEW i \in Nat, NEW j \in Nat,
         i >= 1, j <= Len(a)
  PROVE  SubSeq(a \o b, i, j) = SubSeq(a, i, j)
OBVIOUS

\* and the elements of a beginning are those of the whole.
LEMMA Beginning ==
  ASSUME NEW S, NEW s \in Seq(S), NEW n \in Nat, n <= Len(s)
  PROVE  \A i \in 1 .. n : SubSeq(s, 1, n)[i] = s[i]
OBVIOUS

Colour == [r : 0 .. 255, g : 0 .. 255, b : 0 .. 255]

\* A frame carries its colour: a chip reads back what dataDealwithSend wrote.
LEMMA FrameCarries ==
  ASSUME NEW c \in Colour
  PROVE  /\ dataDealwithSend(c) \in Seq(Bit) /\ Len(dataDealwithSend(c)) = 32
         /\ dataDealwithSend(c)[1] = 1 /\ dataDealwithSend(c)[2] = 1
         /\ \A before : Shown(dataDealwithSend(c), before) = c
<1> DEFINE p == <<1, 1>>
           t1 == Digits(3 - c.b \div 64, 2)
           t2 == Digits(3 - c.g \div 64, 2)
           t3 == Digits(3 - c.r \div 64, 2)
           b == Digits(c.b, 8)
           g == Digits(c.g, 8)
           r == Digits(c.r, 8)
           f == ((((((p \o t1) \o t2) \o t3) \o b) \o g) \o r)
<1>1. c.b \in 0 .. 255 /\ c.g \in 0 .. 255 /\ c.r \in 0 .. 255 /\ c = [b |-> c.b, g |-> c.g, r |-> c.r]
  BY DEF Colour
<1>2. dataDealwithSend(c) = f
  BY DEF dataDealwithSend, takeAntiCode
<1>3. /\ p \in Seq(Bit) /\ Len(p) = 2 /\ p[1] = 1 /\ p[2] = 1
      /\ t1 \in Seq(Bit) /\ Len(t1) = 2 /\ t2 \in Seq(Bit) /\ Len(t2) = 2
      /\ t3 \in Seq(Bit) /\ Len(t3) = 2
  <2>1. p \in Seq(Bit) /\ Len(p) = 2 /\ p[1] = 1 /\ p[2] = 1
    BY DEF Bit
  <2> QED
    BY <1>1, <2>1, CheckBits
<1>4. /\ b \in Seq(Bit) /\ Len(b) = 8 /\ g \in Seq(Bit) /\ Len(g) = 8 /\ r \in Seq(Bit) /\ Len(r) = 8
      /\ Number(b) = c.b /\ Number(g) = c.g /\ Number(r) = c.r
  BY <1>1, DigitsAre, NumberOfDigits DEF Bit
<1>5. \A before : Shown(f, before) =
        LET k == [b |-> Number(SubSeq(f, 9, 16)), g |-> Number(SubSeq(f, 17, 24)),
                  r |-> Number(SubSeq(f, 25, 32))]
        IN  IF /\ SubSeq(f, 1, 2) = p
               /\ SubSeq(f, 3, 8) = (Digits(3 - k.b \div 64, 2) \o Digits(3 - k.g \div 64, 2))
                                                               \o Digits(3 - k.r \div 64, 2)
            THEN k ELSE before
  BY DEF Shown
<1>6. t1 = Digits(3 - c.b \div 64, 2) /\ t2 = Digits(3 - c.g \div 64, 2) /\ t3 = Digits(3 - c.r \div 64, 2)
  OBVIOUS
<1> HIDE DEF p, t1, t2, t3, b, g, r
<1> DEFINE n2 == 2 n4 == 4 n6 == 6 n8 == 8 n16 == 16 n24 == 24 n32 == 32
           a1 == p \o t1
           a2 == a1 \o t2
           a3 == a2 \o t3
           a4 == a3 \o b
           a5 == a4 \o g
           u == (t1 \o t2) \o t3
<1>7. /\ n2 \in Nat /\ n4 \in Nat /\ n6 \in Nat /\ n8 \in Nat /\ n16 \in Nat /\ n24 \in Nat
      /\ n32 \in Nat /\ n2 >= 1
      /\ n4 = n2 + n2 /\ n6 = n4 + n2 /\ n6 = n2 + n4 /\ n8 = n6 + n2 /\ n8 = n2 + n6
      /\ n16 = n8 + n8 /\ n24 = n16 + n8 /\ n32 = n24 + n8
  OBVIOUS
<1>8. /\ Len(p) = n2 /\ Len(t1) = n2 /\ Len(t2) = n2 /\ Len(t3) = n2
      /\ Len(b) = n8 /\ Len(g) = n8 /\ Len(r) = n8
  BY <1>3, <1>4, Zenon
<1>9. /\ p \in Seq(Bit) /\ t1 \in Seq(Bit) /\ t2 \in Seq(Bit) /\ t3 \in Seq(Bit)
      /\ b \in Seq(Bit) /\ g \in Seq(Bit) /\ r \in Seq(Bit)
  BY <1>3, <1>4, Zenon
<1> HIDE DEF n2, n4, n6, n8, n16, n24, n32
<1>10. a3 = p \o u /\ u \in Seq(Bit) /\ Len(u) = n6
  <2>1. t1 \o t2 \in Seq(Bit) /\ Len(t1 \o t2) = n4
    BY <1>7, <1>8, <1>9, JoinedLength
  <2>2. u \in Seq(Bit) /\ Len(u) = n6
    <3> DEFINE t == t1 \o t2
    <3>1. t \in Seq(Bit) /\ Len(t) = n4
      BY <2>1
    <3> HIDE DEF t
    <3>2. t \o t3 \in Seq(Bit) /\ Len(t \o t3) = n6
      BY <1>7, <1>8, <1>9, <3>1, JoinedLength
    <3> QED
      BY <3>2 DEF t
  <2>3. (p \o t1) \o t2 = p \o (t1 \o t2)
    <3>1. p \in Seq(Bit) /\ t1 \in Seq(Bit) /\ t2 \in Seq(Bit)
      BY <1>9
    <3> QED
      BY <3>1, ConcatAssociative
  <2>4. (p \o (t1 \o t2)) \o t3 = p \o ((t1 \o t2) \o t3)
    <3> DEFINE t == t1 \o t2
    <3>1. p \in Seq(Bit) /\ t \in Seq(Bit) /\ t3 \in Seq(Bit)
      BY <1>9, <2>1
    <3> HIDE DEF t
    <3>2. (p \o t) \o t3 = p \o (t \o t3)
      BY <3>1, ConcatAssociative
    <3> QED
      BY <3>2 DEF t
  <2> QED
    BY <2>2, <2>3, <2>4, Zenon
<1> HIDE DEF u
<1>11. a1 \in Seq(Bit) /\ Len(a1) = n4
  BY <1>7, <1>8, <1>9, JoinedLength
<1>12. SubSeq(a1, 1, n2) = p
  BY <1>7, <1>8, <1>9
<1> HIDE DEF a1
<1>13. a2 \in Seq(Bit) /\ Len(a2) = n6
  BY <1>7, <1>8, <1>9, <1>11, JoinedLength
<1>14. SubSeq(a2, 1, n2) = p
  BY <1>7, <1>9, <1>11, <1>12
<1> HIDE DEF a2
<1>16. a3 \in Seq(Bit) /\ Len(a3) = n8
  BY <1>7, <1>8, <1>9, <1>13, JoinedLength
<1>17. SubSeq(a3, 1, n2) = p
  BY <1>7, <1>9, <1>13, <1>14
<1>18. SubSeq(a3, n2 + 1, n8) = u
  <2>1. Len(p) + 1 = n2 + 1 /\ Len(p) + Len(u) = n8
    BY <1>7, <1>8, <1>10
  <2>2. SubSeq(p \o u, Len(p) + 1, Len(p) + Len(u)) = u
    BY <1>9, <1>10, JoinedEnd
  <2> QED
    BY <1>10, <2>1, <2>2, Zenon
<1> HIDE DEF a3
<1>19. a4 \in Seq(Bit) /\ Len(a4) = n16
  BY <1>7, <1>8, <1>9, <1>16, JoinedLength
<1>20. SubSeq(a4, 1, n2) = p
  BY <1>7, <1>9, <1>16, <1>17
<1>21. SubSeq(a4, n2 + 1, n8) = u
  BY <1>7, <1>9, <1>16, <1>18
<1>22. SubSeq(a4, n8 + 1, n16) = b
  <2>1. Len(a3) + 1 = n8 + 1 /\ Len(a3) + Len(b) = n16
    BY <1>7, <1>8, <1>16
  <2>2. SubSeq(a4, Len(a3) + 1, Len(a3) + Len(b)) = b
    BY <1>9, <1>16, JoinedEnd
  <2> QED
    BY <2>1, <2>2, Zenon
<1> HIDE DEF a4
<1>23. a5 \in Seq(Bit) /\ Len(a5) = n24
  BY <1>7, <1>8, <1>9, <1>19, JoinedLength
<1>24. SubSeq(a5, 1, n2) = p
  BY <1>7, <1>9, <1>19, <1>20
<1>25. SubSeq(a5, n2 + 1, n8) = u
  BY <1>7, <1>9, <1>19, <1>21
<1>26. SubSeq(a5, n8 + 1, n16) = b
  BY <1>7, <1>9, <1>19, <1>22
<1>27. SubSeq(a5, n16 + 1, n24) = g
  <2>1. Len(a4) + 1 = n16 + 1 /\ Len(a4) + Len(g) = n24
    BY <1>7, <1>8, <1>19
  <2>2. SubSeq(a5, Len(a4) + 1, Len(a4) + Len(g)) = g
    BY <1>9, <1>19, JoinedEnd
  <2> QED
    BY <2>1, <2>2, Zenon
<1> HIDE DEF a5
<1>28. f = a5 \o r
  BY Zenon DEF a5, a4, a3, a2, a1
<1> HIDE DEF f
<1>29. f \in Seq(Bit) /\ Len(f) = n32
  BY <1>7, <1>8, <1>9, <1>23, <1>28, JoinedLength
<1>30. SubSeq(f, 1, n2) = p
  BY <1>7, <1>9, <1>23, <1>24, <1>28
<1>31. SubSeq(f, n2 + 1, n8) = u
  BY <1>7, <1>9, <1>23, <1>25, <1>28
<1>32. SubSeq(f, n8 + 1, n16) = b
  BY <1>7, <1>9, <1>23, <1>26, <1>28
<1>33. SubSeq(f, n16 + 1, n24) = g
  BY <1>7, <1>9, <1>23, <1>27, <1>28
<1>34. SubSeq(f, n24 + 1, n32) = r
  <2>1. Len(a5) + 1 = n24 + 1 /\ Len(a5) + Len(r) = n32
    BY <1>7, <1>8, <1>23
  <2>2. SubSeq(f, Len(a5) + 1, Len(a5) + Len(r)) = r
    BY <1>9, <1>23, <1>28, JoinedEnd
  <2> QED
    BY <2>1, <2>2, Zenon
<1>35. f[1] = 1 /\ f[2] = 1
  <2>1. \A i \in 1 .. n2 : SubSeq(f, 1, n2)[i] = f[i]
    <3>1. n2 \in Nat /\ n2 <= Len(f)
      BY <1>7, <1>29
    <3> QED
      BY <1>29, <3>1, Beginning
  <2>2. 1 \in 1 .. n2 /\ 2 \in 1 .. n2
    BY DEF n2
  <2> QED
    BY <1>3, <1>30, <2>1, <2>2
<1>36. /\ SubSeq(f, 1, 2) = p /\ SubSeq(f, 3, 8) = u /\ SubSeq(f, 9, 16) = b
       /\ SubSeq(f, 17, 24) = g /\ SubSeq(f, 25, 32) = r /\ Len(f) = 32
  <2>1. n2 = 2 /\ n2 + 1 = 3 /\ n8 = 8 /\ n8 + 1 = 9 /\ n16 = 16 /\ n16 + 1 = 17 /\ n24 = 24
        /\ n24 + 1 = 25 /\ n32 = 32
    BY DEF n2, n8, n16, n24, n32
  <2> QED
    BY <1>29, <1>30, <1>31, <1>32, <1>33, <1>34, <2>1, Zenon
<1>37. \A before : Shown(f, before) = c
  <2> DEFINE k == [b |-> Number(SubSeq(f, 9, 16)), g |-> Number(SubSeq(f, 17, 24)),
                   r |-> Number(SubSeq(f, 25, 32))]
  <2>1. k = c
    BY <1>1, <1>4, <1>36
  <2>2. u = (Digits(3 - k.b \div 64, 2) \o Digits(3 - k.g \div 64, 2)) \o Digits(3 - k.r \div 64, 2)
    BY <1>6, <2>1 DEF u
  <2> QED
    BY <1>5, <1>36, <2>1, <2>2
<1> QED
  BY <1>2, <1>29, <1>35, <1>36, <1>37

-----------------------------------------------------------------------------

\* A chip that has counted 32 zeros waits for a frame.
ChipOK(ch) ==
  /\ ch = [zeros |-> ch.zeros, taking |-> ch.taking, frame |-> ch.frame, shows |-> ch.shows]
  /\ ch.zeros \in 0 .. 32
  /\ ch.zeros = 32 => ch.taking = TRUE /\ ch.frame = <<>>

Zeros(ch, bit) == IF bit = 1 THEN 0 ELSE IF ch.zeros = 32 THEN 32 ELSE ch.zeros + 1

\* k bits of the frame d have come in.
Collecting(ch, d, k) ==
  ch.taking = TRUE /\ ch.frame = SubSeq(d, 1, k) /\ ch.zeros \in 0 .. k - 1

\* The chip shows c and has passed on k bits since.
Has(ch, c, k) ==
  /\ ch.taking = FALSE /\ ch.frame = <<>> /\ ch.shows = c
  /\ ch.zeros \in 0 .. IF k = 0 THEN 31 ELSE k - 1

\* The zeros are counted whatever else a chip does.
LEMMA TakesCounts ==
  ASSUME NEW ch, ChipOK(ch), NEW bit \in Bit
  PROVE  /\ ChipOK(Takes(ch, bit)) /\ Takes(ch, bit).zeros = Zeros(ch, bit)
         /\ Zeros(ch, bit) \in 0 .. 32
<1> DEFINE zeros == Zeros(ch, bit)
           frame == IF ch.taking /\ (ch.frame # <<>> \/ bit = 1) THEN Append(ch.frame, bit) ELSE <<>>
           q == Takes(ch, bit)
<1>1. q = IF zeros = 32 THEN [ch EXCEPT !.zeros = 32, !.taking = TRUE, !.frame = <<>>]
          ELSE IF Len(frame) = 32
               THEN [zeros |-> zeros, taking |-> FALSE, frame |-> <<>>, shows |-> Shown(frame, ch.shows)]
          ELSE [ch EXCEPT !.zeros = zeros, !.frame = frame]
  BY Zenon DEF Takes, Zeros
<1>2. zeros \in 0 .. 32
  BY SMTT(60) DEF ChipOK, Zeros
<1> HIDE DEF zeros, frame, q
<1>3. CASE zeros = 32
  <2>1. q = [ch EXCEPT !.zeros = 32, !.taking = TRUE, !.frame = <<>>]
    BY <1>1, <1>3, Zenon
  <2>2. /\ q.zeros = 32 /\ q.taking = TRUE /\ q.frame = <<>>
        /\ q = [zeros |-> q.zeros, taking |-> q.taking, frame |-> q.frame, shows |-> q.shows]
    BY <2>1 DEF ChipOK
  <2>3. ChipOK(q) /\ q.zeros = zeros
    BY <1>2, <1>3, <2>2 DEF ChipOK
  <2> QED
    BY <1>2, <2>3, Zenon DEF zeros, q
<1>4. CASE zeros # 32
  <2>1. q.zeros = zeros /\ q = [zeros |-> q.zeros, taking |-> q.taking, frame |-> q.frame, shows |-> q.shows]
    BY <1>1, <1>4 DEF ChipOK
  <2> QED
    BY <1>2, <1>4, <2>1 DEF ChipOK, zeros, q
<1> QED
  BY <1>3, <1>4

\* A bit that does not end the frame,
LEMMA TakesOn ==
  ASSUME NEW ch, ChipOK(ch), NEW bit \in Bit, ch.taking = TRUE, ch.frame # <<>> \/ bit = 1,
         Len(Append(ch.frame, bit)) # 32, Zeros(ch, bit) # 32
  PROVE  Takes(ch, bit).taking = TRUE /\ Takes(ch, bit).frame = Append(ch.frame, bit)
BY DEF Takes, ChipOK, Zeros

\* one that does,
LEMMA TakesLast ==
  ASSUME NEW ch, ChipOK(ch), NEW bit \in Bit, ch.taking = TRUE, ch.frame # <<>> \/ bit = 1,
         Len(Append(ch.frame, bit)) = 32, Zeros(ch, bit) # 32
  PROVE  /\ Takes(ch, bit).taking = FALSE /\ Takes(ch, bit).frame = <<>>
         /\ Takes(ch, bit).shows = Shown(Append(ch.frame, bit), ch.shows)
BY DEF Takes, ChipOK, Zeros

\* and one that is not the chip's.
LEMMA TakesNothing ==
  ASSUME NEW ch, ChipOK(ch), NEW bit \in Bit, ch.taking = FALSE, Zeros(ch, bit) # 32
  PROVE  /\ Takes(ch, bit).taking = FALSE /\ Takes(ch, bit).frame = <<>>
         /\ Takes(ch, bit).shows = ch.shows
BY DEF Takes, ChipOK, Zeros

\* A frame grows by a bit.
LEMMA FrameGrows ==
  ASSUME NEW S, NEW d \in Seq(S), NEW k \in Nat, k < Len(d)
  PROVE  /\ Append(SubSeq(d, 1, k), d[k + 1]) = SubSeq(d, 1, k + 1)
         /\ Len(SubSeq(d, 1, k + 1)) = k + 1
         /\ k > 0 => SubSeq(d, 1, k) # <<>>
         /\ SubSeq(d, 1, Len(d)) = d /\ d[k + 1] \in S
<1>1. Append(SubSeq(d, 1, k), d[k + 1]) = SubSeq(d, 1, k + 1)
  OBVIOUS
<1>2. Len(SubSeq(d, 1, k + 1)) = k + 1 /\ SubSeq(d, 1, Len(d)) = d /\ d[k + 1] \in S
  OBVIOUS
<1>3. k > 0 => SubSeq(d, 1, k) # <<>>
  <2>1. Len(SubSeq(d, 1, k)) = k /\ Len(<<>>) = 0
    OBVIOUS
  <2> QED
    BY <2>1
<1> QED
  BY <1>1, <1>2, <1>3

\* A frame begins with its first bit.
LEMMA FrameBegins ==
  ASSUME NEW S, NEW d \in Seq(S), Len(d) > 0
  PROVE  SubSeq(d, 1, 1) = Append(<<>>, d[1]) /\ Len(Append(<<>>, d[1])) = 1
<1>1. Append(<<>>, d[1]) = <<d[1]>> /\ Len(<<d[1]>>) = 1
  OBVIOUS
<1>2. \A k \in Nat : k = 0 => Append(SubSeq(d, 1, k), d[k + 1]) = SubSeq(d, 1, k + 1)
  BY FrameGrows
<1>3. Append(SubSeq(d, 1, 0), d[0 + 1]) = SubSeq(d, 1, 0 + 1)
  <2>1. 0 \in Nat
    OBVIOUS
  <2> QED
    BY <1>2, <2>1, Zenon
<1>4. SubSeq(d, 1, 0) = <<>> /\ 0 + 1 = 1
  OBVIOUS
<1> QED
  BY <1>1, <1>3, <1>4, Zenon

\* What a frame must be for a chip to show c.
IsFrameOf(d, c) ==
  d \in Seq(Bit) /\ Len(d) = 32 /\ d[1] = 1 /\ \A before : Shown(d, before) = c

\* The first bit of a frame,
LEMMA StartsFrame ==
  ASSUME NEW ch, ChipOK(ch), ch.zeros = 32, NEW d, NEW c, IsFrameOf(d, c)
  PROVE  Collecting(Takes(ch, d[1]), d, 1)
<1>1. /\ ch.taking = TRUE /\ ch.frame = <<>> /\ d[1] = 1 /\ d \in Seq(Bit) /\ Len(d) = 32
      /\ d[1] \in Bit
  BY DEF ChipOK, IsFrameOf, Bit
<1>2. /\ SubSeq(d, 1, 1) = Append(<<>>, d[1])
      /\ Len(Append(ch.frame, d[1])) = 1 /\ Len(Append(ch.frame, d[1])) # 32
  <2>1. Len(d) > 0
    BY <1>1
  <2>2. SubSeq(d, 1, 1) = Append(<<>>, d[1]) /\ Len(Append(<<>>, d[1])) = 1
    BY <1>1, <2>1, FrameBegins
  <2>3. 1 # 32
    OBVIOUS
  <2> QED
    BY <1>1, <2>2, <2>3, Zenon
<1>3. Zeros(ch, d[1]) = 0 /\ Zeros(ch, d[1]) # 32
  BY <1>1 DEF Zeros
<1>4. Takes(ch, d[1]).taking = TRUE /\ Takes(ch, d[1]).frame = Append(ch.frame, d[1])
  BY <1>1, <1>2, <1>3, TakesOn, Zenon
<1>5. Takes(ch, d[1]).zeros = 0
  BY <1>1, <1>3, TakesCounts
<1> QED
  BY <1>1, <1>2, <1>4, <1>5 DEF Collecting

\* What the bits of a frame add up to.
LEMMA FrameBits ==
  ASSUME NEW ch, ChipOK(ch), NEW d, NEW c, IsFrameOf(d, c), NEW k \in 1 .. 31,
         Collecting(ch, d, k)
  PROVE  /\ d[k + 1] \in Bit /\ ch.taking = TRUE /\ ch.frame # <<>>
         /\ Append(ch.frame, d[k + 1]) = SubSeq(d, 1, k + 1)
         /\ Len(Append(ch.frame, d[k + 1])) = k + 1
         /\ Zeros(ch, d[k + 1]) \in 0 .. k
<1>1. d \in Seq(Bit) /\ k \in Nat /\ k < Len(d) /\ k > 0
  BY DEF IsFrameOf
<1>2. /\ Append(SubSeq(d, 1, k), d[k + 1]) = SubSeq(d, 1, k + 1)
      /\ Len(SubSeq(d, 1, k + 1)) = k + 1
      /\ SubSeq(d, 1, k) # <<>> /\ d[k + 1] \in Bit
  BY <1>1, FrameGrows
<1>3. Zeros(ch, d[k + 1]) \in 0 .. k
  BY DEF Collecting, Zeros
<1> QED
  BY <1>2, <1>3 DEF Collecting

\* the next ones
LEMMA ContinuesFrame ==
  ASSUME NEW ch, ChipOK(ch), NEW d, NEW c, IsFrameOf(d, c), NEW k \in 1 .. 30,
         Collecting(ch, d, k)
  PROVE  Collecting(Takes(ch, d[k + 1]), d, k + 1)
<1>1. k \in 1 .. 31 /\ k + 1 # 32 /\ (k + 1) - 1 = k
  OBVIOUS
<1>2. /\ d[k + 1] \in Bit /\ ch.taking = TRUE /\ ch.frame # <<>>
      /\ Append(ch.frame, d[k + 1]) = SubSeq(d, 1, k + 1)
      /\ Len(Append(ch.frame, d[k + 1])) = k + 1
      /\ Zeros(ch, d[k + 1]) \in 0 .. k
  BY <1>1, FrameBits
<1>3. Len(Append(ch.frame, d[k + 1])) # 32 /\ Zeros(ch, d[k + 1]) # 32
  <2>1. \A z \in 0 .. k : z # 32
    OBVIOUS
  <2> QED
    BY <1>1, <1>2, <2>1, Zenon
<1>4. Takes(ch, d[k + 1]).taking = TRUE /\ Takes(ch, d[k + 1]).frame = Append(ch.frame, d[k + 1])
  BY <1>2, <1>3, TakesOn
<1>5. Takes(ch, d[k + 1]).zeros = Zeros(ch, d[k + 1])
  BY <1>2, TakesCounts
<1> QED
  BY <1>1, <1>2, <1>4, <1>5, Zenon DEF Collecting

\* and the last.
LEMMA EndsFrame ==
  ASSUME NEW ch, ChipOK(ch), NEW d, NEW c, IsFrameOf(d, c), Collecting(ch, d, 31)
  PROVE  Has(Takes(ch, d[32]), c, 0)
<1>1. 31 \in 1 .. 31 /\ 31 + 1 = 32
  OBVIOUS
<1>2. /\ d[31 + 1] \in Bit /\ ch.taking = TRUE /\ ch.frame # <<>>
      /\ Append(ch.frame, d[31 + 1]) = SubSeq(d, 1, 31 + 1)
      /\ Len(Append(ch.frame, d[31 + 1])) = 31 + 1
      /\ Zeros(ch, d[31 + 1]) \in 0 .. 31
  BY <1>1, FrameBits
<1> DEFINE bit == d[32]
<1>3. /\ bit \in Bit /\ Append(ch.frame, bit) = SubSeq(d, 1, 32)
      /\ Len(Append(ch.frame, bit)) = 32 /\ Zeros(ch, bit) \in 0 .. 31
  BY <1>1, <1>2, Zenon
<1>4. SubSeq(d, 1, 32) = d /\ Shown(d, ch.shows) = c
  <2>1. SubSeq(d, 1, Len(d)) = d
    BY DEF IsFrameOf
  <2> QED
    BY <2>1, Zenon DEF IsFrameOf
<1> HIDE DEF bit
<1>5. Zeros(ch, bit) # 32
  <2>1. \A z \in 0 .. 31 : z # 32
    OBVIOUS
  <2> QED
    BY <1>3, <2>1, Zenon
<1>6. /\ Takes(ch, bit).taking = FALSE /\ Takes(ch, bit).frame = <<>>
      /\ Takes(ch, bit).shows = Shown(Append(ch.frame, bit), ch.shows)
  BY <1>2, <1>3, <1>5, TakesLast
<1>7. Takes(ch, bit).zeros = Zeros(ch, bit)
  BY <1>3, TakesCounts
<1> QED
  BY <1>3, <1>4, <1>6, <1>7 DEF Has, bit

\* A chip that has its colour lets the next frame pass.
LEMMA KeepsColour ==
  ASSUME NEW ch, ChipOK(ch), NEW d, NEW c, IsFrameOf(d, c), NEW k \in 0 .. 31, Has(ch, c, k)
  PROVE  Has(Takes(ch, d[k + 1]), c, k + 1) /\ d[k + 1] \in Bit
<1>1. d \in Seq(Bit) /\ k \in Nat /\ k < Len(d) /\ d[1] = 1
  BY DEF IsFrameOf
<1>2. d[k + 1] \in Bit
  BY <1>1, FrameGrows
<1> DEFINE bit == d[k + 1]
<1>3. k = 0 => bit = 1
  BY <1>1
<1>4. bit \in Bit
  BY <1>2
<1> HIDE DEF bit
<1>5. Zeros(ch, bit) \in 0 .. k /\ Zeros(ch, bit) # 32
  BY <1>3 DEF Has, Zeros
<1>6. Takes(ch, bit).taking = FALSE /\ Takes(ch, bit).frame = <<>> /\ Takes(ch, bit).shows = c
  BY <1>4, <1>5, TakesNothing DEF Has
<1>7. Takes(ch, bit).zeros = Zeros(ch, bit)
  BY <1>4, TakesCounts
<1>8. Has(Takes(ch, bit), c, k + 1)
  BY <1>5, <1>6, <1>7 DEF Has
<1> QED
  BY <1>2, <1>8 DEF bit

\* The bits of rgbControl, one by one.
Due(d, j) == IF j <= 32 THEN 0 ELSE IF j <= 64 THEN d[j - 32] ELSE d[j - 64]

\* The two chips after n bits of rgbControl.
ChipsSent(p1, p2, d, c, n) ==
  /\ ChipOK(p1) /\ ChipOK(p2)
  /\ n <= 32 => p1.zeros >= n /\ p2.zeros >= n
  /\ n \in 33 .. 63 => Collecting(p1, d, n - 32)
  /\ n \in 33 .. 64 => p2.zeros = 32
  /\ n >= 64 => Has(p1, c, n - 64)
  /\ n \in 65 .. 95 => Collecting(p2, d, n - 64)
  /\ n = 96 => Has(p2, c, 0)

\* A zero is counted; 32 of them and more are 32.
LEMMA CountsZero ==
  ASSUME NEW ch, ChipOK(ch), NEW n \in 0 .. 32, ch.zeros >= n
  PROVE  /\ n < 32 => Takes(ch, 0).zeros >= n + 1
         /\ n = 32 => Takes(ch, 0).zeros = 32 /\ ch.zeros = 32 /\ ch.taking = TRUE
<1>1. 0 \in Bit
  BY DEF Bit
<1>2. Takes(ch, 0).zeros = Zeros(ch, 0)
  BY <1>1, TakesCounts
<1>3. /\ ch.zeros \in 0 .. 32
      /\ Zeros(ch, 0) = IF ch.zeros = 32 THEN 32 ELSE ch.zeros + 1
  BY DEF ChipOK, Zeros
<1>4. ch.zeros = 32 => ch.taking = TRUE
  BY DEF ChipOK
<1> QED
  BY <1>2, <1>3, <1>4

\* One bit, for both chips.
LEMMA ChipsStep ==
  ASSUME NEW d, NEW c, IsFrameOf(d, c), NEW n \in 0 .. 95, NEW p1, NEW p2,
         ChipsSent(p1, p2, d, c, n)
  PROVE  ChipsSent(Takes(p1, Due(d, n + 1)), Takes(p2, PassesOn(p1, Due(d, n + 1))), d, c, n + 1)
<1> DEFINE bit == Due(d, n + 1)
           q1 == Takes(p1, bit)
           q2 == Takes(p2, PassesOn(p1, bit))
<1>1. ChipOK(p1) /\ ChipOK(p2)
  BY DEF ChipsSent
<1>2. 0 \in Bit
  BY DEF Bit
<1>3. \A k \in 1 .. 32 : d[k] \in Bit
  BY ElementOf DEF IsFrameOf
<1>4. bit \in Bit
  <2>1. CASE n + 1 <= 32
    BY <1>2, <2>1 DEF Due
  <2>2. CASE n + 1 > 32 /\ n + 1 <= 64
    BY <1>3, <2>2 DEF Due
  <2>3. CASE n + 1 > 64
    BY <1>3, <2>3 DEF Due
  <2> QED
    BY <2>1, <2>2, <2>3
<1>5. PassesOn(p1, bit) \in Bit
  BY <1>2, <1>4, Zenon DEF PassesOn
<1>6. ChipOK(q1) /\ ChipOK(q2)
  BY <1>1, <1>4, <1>5, TakesCounts
<1> SUFFICES /\ n + 1 <= 32 => q1.zeros >= n + 1 /\ q2.zeros >= n + 1
             /\ n + 1 \in 33 .. 63 => Collecting(q1, d, (n + 1) - 32)
             /\ n + 1 \in 33 .. 64 => q2.zeros = 32
             /\ n + 1 >= 64 => Has(q1, c, (n + 1) - 64)
             /\ n + 1 \in 65 .. 95 => Collecting(q2, d, (n + 1) - 64)
             /\ n + 1 = 96 => Has(q2, c, 0)
  BY <1>6, Zenon DEF ChipsSent
<1>7. CASE n < 32
  <2>1. bit = 0 /\ PassesOn(p1, bit) = 0 /\ n \in 0 .. 32
    BY <1>7 DEF Due, PassesOn
  <2>2. p1.zeros >= n /\ p2.zeros >= n
    BY <1>7 DEF ChipsSent
  <2> HIDE DEF bit
  <2>3. q1.zeros >= n + 1 /\ q2.zeros >= n + 1
    BY <1>1, <1>7, <2>1, <2>2, CountsZero
  <2> HIDE DEF q1, q2
  <2> QED
    BY <1>7, <2>3
<1>8. CASE n >= 32 /\ n < 64
  <2>1. p2.zeros = 32 /\ p1.taking = TRUE
    <3>1. CASE n = 32
      BY <3>1, CountsZero, SMTT(60) DEF ChipsSent, ChipOK
    <3>2. CASE n # 32
      BY <1>8, <3>2 DEF ChipsSent, Collecting
    <3> QED
      BY <3>1, <3>2
  <2>2. PassesOn(p1, bit) = 0
    BY <2>1 DEF PassesOn
  <2>3. q2.zeros = 32
    <3>1. 32 \in 0 .. 32 /\ p2.zeros >= 32
      BY <2>1
    <3> QED
      BY <1>1, <2>2, <3>1, CountsZero
  <2>4. bit = d[(n - 32) + 1]
    BY <1>8 DEF Due
  <2> HIDE DEF bit
  <2>5. n < 63 => Collecting(q1, d, (n - 32) + 1)
    <3>1. CASE n = 32
      <4>1. p1.zeros = 32
        BY <3>1, SMTT(60) DEF ChipsSent, ChipOK
      <4>2. (n - 32) + 1 = 1
        BY <3>1
      <4> QED
        BY <1>1, <2>4, <4>1, <4>2, StartsFrame
    <3>2. ASSUME n # 32, n < 63 PROVE Collecting(q1, d, (n - 32) + 1)
      <4>1. n - 32 \in 1 .. 30 /\ Collecting(p1, d, n - 32)
        BY <1>8, <3>2 DEF ChipsSent
      <4> QED
        BY <1>1, <2>4, <4>1, ContinuesFrame
    <3> QED
      BY <3>1, <3>2
  <2>6. n = 63 => Has(q1, c, 0)
    <3>1. ASSUME n = 63 PROVE Has(q1, c, 0)
      <4>1. Collecting(p1, d, 31) /\ (n - 32) + 1 = 32
        BY <3>1 DEF ChipsSent
      <4> QED
        BY <1>1, <2>4, <4>1, EndsFrame
    <3> QED
      BY <3>1
  <2>7. (n - 32) + 1 = (n + 1) - 32 /\ (n = 63 => (n + 1) - 64 = 0)
    OBVIOUS
  <2> HIDE DEF q1, q2
  <2> QED
    BY <1>8, <2>3, <2>5, <2>6, <2>7
<1>9. CASE n >= 64
  <2>1. n - 64 \in 0 .. 31 /\ Has(p1, c, n - 64)
    BY <1>9 DEF ChipsSent
  <2>2. bit = d[(n - 64) + 1]
    BY <1>9 DEF Due
  <2>3. PassesOn(p1, bit) = bit
    BY <2>1 DEF PassesOn, Has
  <2> HIDE DEF bit
  <2>4. Has(q1, c, (n - 64) + 1)
    BY <1>1, <2>1, <2>2, KeepsColour
  <2>5. n < 95 => Collecting(q2, d, (n - 64) + 1)
    <3>1. CASE n = 64
      <4>1. p2.zeros = 32
        BY <3>1 DEF ChipsSent
      <4>2. (n - 64) + 1 = 1
        BY <3>1
      <4> QED
        BY <1>1, <2>2, <2>3, <4>1, <4>2, StartsFrame
    <3>2. ASSUME n # 64, n < 95 PROVE Collecting(q2, d, (n - 64) + 1)
      <4>1. n - 64 \in 1 .. 30 /\ Collecting(p2, d, n - 64)
        BY <1>9, <3>2 DEF ChipsSent
      <4> QED
        BY <1>1, <2>2, <2>3, <4>1, ContinuesFrame
    <3> QED
      BY <3>1, <3>2
  <2>6. n = 95 => Has(q2, c, 0)
    <3>1. ASSUME n = 95 PROVE Has(q2, c, 0)
      <4>1. Collecting(p2, d, 31) /\ (n - 64) + 1 = 32
        BY <3>1 DEF ChipsSent
      <4> QED
        BY <1>1, <2>2, <2>3, <4>1, EndsFrame
    <3> QED
      BY <3>1
  <2>7. (n - 64) + 1 = (n + 1) - 64
    OBVIOUS
  <2> HIDE DEF q1, q2
  <2> QED
    BY <1>9, <2>4, <2>5, <2>6, <2>7
<1> QED
  BY <1>7, <1>8, <1>9

-----------------------------------------------------------------------------

\* The elements of two sequences joined.
LEMMA JoinedElements ==
  ASSUME NEW S, NEW a \in Seq(S), NEW b \in Seq(S), NEW m \in Nat, NEW n \in Nat,
         Len(a) = m, Len(b) = n
  PROVE  /\ a \o b \in Seq(S) /\ Len(a \o b) = m + n
         /\ \A i \in 1 .. m : (a \o b)[i] = a[i]
         /\ \A i \in 1 .. n : (a \o b)[m + i] = b[i]
OBVIOUS

\* Three sequences of a length, one after the other.
LEMMA ThreeParts ==
  ASSUME NEW S, NEW z \in Seq(S), NEW d \in Seq(S), NEW m \in Nat, Len(z) = m, Len(d) = m
  PROVE  /\ (z \o d) \o d \in Seq(S) /\ Len((z \o d) \o d) = m + m + m
         /\ \A i \in 1 .. m : /\ ((z \o d) \o d)[i] = z[i]
                              /\ ((z \o d) \o d)[m + i] = d[i]
                              /\ ((z \o d) \o d)[m + m + i] = d[i]
<1> DEFINE a == z \o d
           k == m + m
<1>1. a \in Seq(S) /\ Len(a) = k /\ \A i \in 1 .. m : a[i] = z[i] /\ a[m + i] = d[i]
  BY JoinedElements
<1>2. k \in Nat /\ \A i \in 1 .. m : i \in 1 .. k /\ m + i \in 1 .. k
  OBVIOUS
<1> HIDE DEF a, k
<1>3. /\ a \o d \in Seq(S) /\ Len(a \o d) = k + m
      /\ \A i \in 1 .. k : (a \o d)[i] = a[i]
      /\ \A i \in 1 .. m : (a \o d)[k + i] = d[i]
  BY <1>1, <1>2, JoinedElements, SMTT(60)
<1> QED
  BY <1>1, <1>2, <1>3 DEF a, k

\* What rgbControl sends.
LEMMA ControlBits ==
  ASSUME NEW c \in Colour
  PROVE  /\ rgbControl(c) \in Seq(Bit) /\ Len(rgbControl(c)) = 96
         /\ IsFrameOf(dataDealwithSend(c), c)
         /\ \A j \in 1 .. 96 : rgbControl(c)[j] = Due(dataDealwithSend(c), j)
<1> DEFINE z == send_32zero
           d == dataDealwithSend(c)
           s == rgbControl(c)
           m == 32
<1>1. s = (z \o d) \o d
  BY DEF rgbControl
<1>2. d \in Seq(Bit) /\ Len(d) = m /\ IsFrameOf(d, c)
  BY FrameCarries DEF IsFrameOf
<1>3. m \in Nat /\ z = [i \in 1 .. m |-> 0] /\ 0 \in Bit
  BY DEF send_32zero, Bit
<1> HIDE DEF s, d, z, m
<1>4. z \in [1 .. m -> Bit]
  BY <1>3
<1>5. z \in Seq(Bit) /\ Len(z) = m
  BY <1>3, <1>4, SequenceOf
<1>6. /\ s \in Seq(Bit) /\ Len(s) = m + m + m
      /\ \A i \in 1 .. m : s[i] = z[i] /\ s[m + i] = d[i] /\ s[m + m + i] = d[i]
  <2>1. d \in Seq(Bit) /\ z \in Seq(Bit) /\ m \in Nat /\ Len(z) = m /\ Len(d) = m
    BY <1>2, <1>3, <1>5
  <2>2. /\ (z \o d) \o d \in Seq(Bit) /\ Len((z \o d) \o d) = m + m + m
        /\ \A i \in 1 .. m : /\ ((z \o d) \o d)[i] = z[i]
                             /\ ((z \o d) \o d)[m + i] = d[i]
                             /\ ((z \o d) \o d)[m + m + i] = d[i]
    BY <2>1, ThreeParts
  <2> QED
    BY <1>1, <2>2
<1>7. ASSUME NEW j \in 1 .. 96 PROVE s[j] = Due(d, j)
  <2>1. CASE j <= 32
    <3>1. j \in 1 .. m
      BY <2>1 DEF m
    <3> QED
      BY <1>3, <1>6, <2>1, <3>1 DEF Due
  <2>2. CASE j > 32 /\ j <= 64
    <3>1. j - 32 \in 1 .. m /\ m + (j - 32) = j
      BY <2>2 DEF m
    <3>2. s[m + (j - 32)] = d[j - 32]
      BY <1>6, <3>1
    <3> QED
      BY <2>2, <3>1, <3>2 DEF Due
  <2>3. CASE j > 64
    <3>1. j - 64 \in 1 .. m /\ m + m + (j - 64) = j
      BY <2>3 DEF m
    <3>2. s[m + m + (j - 64)] = d[j - 64]
      BY <1>6, <3>1
    <3> QED
      BY <2>3, <3>1, <3>2 DEF Due
  <2> QED
    BY <2>1, <2>2, <2>3
<1>8. m + m + m = 96
  BY DEF m
<1> QED
  BY <1>2, <1>6, <1>7, <1>8, Zenon DEF s, d

\* What is left of a sequence after n elements.
LEMMA LeftOf ==
  ASSUME NEW S, NEW s \in Seq(S), NEW k \in Nat, Len(s) = k, NEW n \in 0 .. k
  PROVE  /\ SubSeq(s, n + 1, k) = <<>> <=> n = k
         /\ n < k => /\ Head(SubSeq(s, n + 1, k)) = s[n + 1]
                     /\ Tail(SubSeq(s, n + 1, k)) = SubSeq(s, (n + 1) + 1, k)
         /\ SubSeq(s, 0 + 1, k) = s
<1>1. SubSeq(s, n + 1, k) = <<>> <=> n = k
  <2>1. Len(SubSeq(s, n + 1, k)) = k - n /\ SubSeq(s, n + 1, k) \in Seq(S)
    OBVIOUS
  <2>2. k - n = 0 <=> n = k
    OBVIOUS
  <2> DEFINE q == SubSeq(s, n + 1, k)
  <2>3. q \in Seq(S) /\ Len(q) = k - n
    BY <2>1
  <2> HIDE DEF q
  <2>4. q = <<>> <=> Len(q) = 0
    BY <2>3
  <2> QED
    BY <2>2, <2>3, <2>4 DEF q
<1>2. ASSUME n < k
      PROVE  /\ Head(SubSeq(s, n + 1, k)) = s[n + 1]
             /\ Tail(SubSeq(s, n + 1, k)) = SubSeq(s, (n + 1) + 1, k)
  <2>1. n + 1 \in 1 .. Len(s) /\ k \in n + 1 .. Len(s)
    BY <1>2
  <2> QED
    BY <2>1, HeadTailOfSubSeq
<1>3. SubSeq(s, 0 + 1, k) = s
  OBVIOUS
<1> QED
  BY <1>1, <1>2, <1>3

\* Everything of the last colour but its first n bits is still to be sent, and
\* the chips have taken those n as they should, whatever they had before.
Sending(left, p, c) ==
  \E n \in 0 .. 96 : /\ left = SubSeq(rgbControl(c), n + 1, 96)
                     /\ ChipsSent(p[1], p[2], dataDealwithSend(c), c, n)

LightInv ==
  /\ rgb \in Colour
  /\ chips = <<chips[1], chips[2]>> /\ ChipOK(chips[1]) /\ ChipOK(chips[2])
  /\ IF boot = "light" THEN clocked = <<>> ELSE Sending(clocked, chips, rgb)

\* Before the first bit anything goes.
LEMMA NothingSent ==
  ASSUME NEW a, NEW b, NEW d, NEW c, ChipOK(a), ChipOK(b)
  PROVE  ChipsSent(a, b, d, c, 0)
<1>1. a.zeros \in 0 .. 32 /\ b.zeros \in 0 .. 32
  BY Zenon DEF ChipOK
<1> DEFINE az == a.zeros
           bz == b.zeros
<1>2. az >= 0 /\ bz >= 0
  BY <1>1
<1>3. /\ 0 \notin 33 .. 63 /\ 0 \notin 33 .. 64 /\ ~(0 >= 64)
      /\ 0 \notin 65 .. 95 /\ 0 # 96
  OBVIOUS
<1> QED
  BY <1>2, <1>3, Zenon DEF ChipsSent

\* A colour to be sent, to chips in any state.
LEMMA SendStarts ==
  ASSUME NEW c \in Colour, NEW p, ChipOK(p[1]), ChipOK(p[2])
  PROVE  Sending(rgbControl(c), p, c)
<1> DEFINE k == 96
           s == rgbControl(c)
<1>1. s \in Seq(Bit) /\ Len(s) = k /\ k \in Nat /\ 0 \in 0 .. k
  BY ControlBits
<1> HIDE DEF s, k
<1>2. s = SubSeq(s, 0 + 1, k)
  BY <1>1, LeftOf
<1>3. s = SubSeq(s, 0 + 1, 96)
  BY <1>2, Zenon DEF k
<1>4. ChipsSent(p[1], p[2], dataDealwithSend(c), c, 0)
  BY NothingSent
<1>5. 0 \in 0 .. 96
  OBVIOUS
<1> QED
  BY <1>3, <1>4, <1>5, Zenon DEF Sending, s

\* The next of 96 numbers.
LEMMA NextOf96 ==
  ASSUME NEW j \in 0 .. 96, j < 96
  PROVE  j \in 0 .. 95 /\ j + 1 \in 0 .. 96 /\ j + 1 \in 1 .. 96
OBVIOUS

\* The light is only ever asked for colours.
LEMMA AskedColours == Colours \subseteq Colour
BY ColoursAssumption DEF Colour

\* A bit less to be sent.
LEMMA SendContinues ==
  ASSUME NEW c \in Colour, NEW left, NEW p, Sending(left, p, c), left # <<>>,
         p = <<p[1], p[2]>>
  PROVE  Sending(Tail(left), [p EXCEPT ![1] = Takes(@, Head(left)),
                                       ![2] = Takes(@, PassesOn(p[1], Head(left)))], c)
<1> DEFINE k == 96
           s == rgbControl(c)
           d == dataDealwithSend(c)
<1>1. /\ s \in Seq(Bit) /\ Len(s) = k /\ k \in Nat /\ IsFrameOf(d, c)
      /\ \A j \in 1 .. k : s[j] = Due(d, j)
  BY ControlBits
<1>2. PICK n \in 0 .. k : left = SubSeq(s, n + 1, k) /\ ChipsSent(p[1], p[2], d, c, n)
  BY DEF Sending
<1>3. k = 96
  OBVIOUS
<1> HIDE DEF s, d, k
<1>4. n < k /\ Head(left) = s[n + 1] /\ Tail(left) = SubSeq(s, (n + 1) + 1, k)
  <2>1. n # k
    BY <1>1, <1>2, LeftOf
  <2>2. n < k
    BY <1>1, <2>1
  <2>3. /\ Head(SubSeq(s, n + 1, k)) = s[n + 1]
        /\ Tail(SubSeq(s, n + 1, k)) = SubSeq(s, (n + 1) + 1, k)
    BY <1>1, <2>2, LeftOf
  <2> QED
    BY <1>2, <2>2, <2>3, Zenon
<1>5. n \in 0 .. 95 /\ n + 1 \in 0 .. 96 /\ n + 1 \in 1 .. k
  <2>1. n \in 0 .. 96 /\ n < 96
    BY <1>3, <1>4, Zenon
  <2> QED
    BY <1>3, NextOf96, <2>1, Zenon
<1>6. Head(left) = Due(d, n + 1)
  BY <1>1, <1>4, <1>5
<1> DEFINE q1 == Takes(p[1], Head(left))
           q2 == Takes(p[2], PassesOn(p[1], Head(left)))
           q == [p EXCEPT ![1] = q1, ![2] = q2]
<1>7. ChipsSent(q1, q2, d, c, n + 1)
  BY <1>1, <1>2, <1>5, <1>6, ChipsStep
<1> HIDE DEF q1, q2
<1>8. q[1] = q1 /\ q[2] = q2
  OBVIOUS
<1>9. Sending(Tail(left), q, c)
  BY <1>4, <1>5, <1>7, <1>8, Zenon DEF Sending, k, d, s
<1> QED
  BY <1>9 DEF q1, q2

\* Every step sends as it should or leaves what is being sent.
LEMMA LightStepInv ==
  ASSUME LightInv, [BoardNext]_BoardVars
  PROVE  LightInv'
<1>1. /\ rgb \in Colour /\ chips = <<chips[1], chips[2]>>
      /\ ChipOK(chips[1]) /\ ChipOK(chips[2])
  BY DEF LightInv
<1>2. ASSUME UNCHANGED light, boot' = "light" <=> boot = "light" PROVE LightInv'
  BY <1>2, Zenon DEF LightInv, light
<1>3. ASSUME NEW c \in Colour, Send(c), UNCHANGED chips, boot' # "light" PROVE LightInv'
  <2>1. clocked' = rgbControl(c) /\ rgb' = c /\ chips' = chips
    BY <1>3 DEF Send
  <2>2. Sending(rgbControl(c), chips, c)
    BY <1>1, SendStarts
  <2> QED
    BY <1>1, <1>3, <2>1, <2>2, Zenon DEF LightInv
<1>4. CASE rgbGpioInit
  <2>1. Black \in Colour
    BY DEF Black, Colour
  <2> QED
    BY <1>3, <1>4, <2>1 DEF rgbGpioInit, Boot
<1>5. CASE keyParaInit \/ motorInit \/ DefaultSpeed
  BY <1>2, <1>5 DEF keyParaInit, motorInit, DefaultSpeed, Boot
<1>6. CASE dh11Init \/ dh11InitCheck \/ Request \/ Answered
  BY <1>2, <1>6 DEF dh11Init, dh11InitCheck, Request, Answered, dht11Rst, dht11Check, Idle
<1>7. CASE \E status \in Speeds : SetMotor(status)
  BY <1>2, <1>7 DEF SetMotor
<1>8. CASE \E c \in Colours : SetLight(c)
  <2>1. PICK c \in Colours : SetLight(c)
    BY <1>8
  <2>2. c \in Colour
    BY <2>1, AskedColours
  <2> QED
    BY <1>3, <2>1, <2>2 DEF SetLight, Idle
<1>9. CASE ResetBoard
  BY <1>1, <1>9 DEF ResetBoard, LightInv
<1>10. CASE Clock
  <2> DEFINE bit == Head(clocked)
             q == [chips EXCEPT ![1] = Takes(@, bit), ![2] = Takes(@, PassesOn(chips[1], bit))]
  <2>1. /\ clocked # <<>> /\ clocked' = Tail(clocked) /\ chips' = q /\ rgb' = rgb /\ boot' = boot
    BY <1>10 DEF Clock
  <2>2. boot # "light" /\ Sending(clocked, chips, rgb)
    BY <2>1 DEF LightInv
  <2>3. Sending(Tail(clocked), q, rgb)
    BY <1>1, <2>1, <2>2, SendContinues
  <2>4. q = <<q[1], q[2]>>
    BY <1>1
  <2>5. ChipOK(q[1]) /\ ChipOK(q[2])
    BY <2>3 DEF Sending, ChipsSent
  <2> HIDE DEF q
  <2> QED
    BY <1>1, <2>1, <2>2, <2>3, <2>4, <2>5, Zenon DEF LightInv
<1>11. CASE UNCHANGED BoardVars
  BY <1>2, <1>11 DEF BoardVars, light
<1> QED
  BY <1>4, <1>5, <1>6, <1>7, <1>8, <1>9, <1>10, <1>11 DEF BoardNext

\* Once everything is sent both chips have the colour.
LEMMA LightInvShows == LightInv => LightShows
<1> SUFFICES ASSUME LightInv, boot # "light", clocked = <<>> PROVE LightShows
  BY DEF LightShows
<1> DEFINE k == 96
           s == rgbControl(rgb)
<1>1. rgb \in Colour /\ s \in Seq(Bit) /\ Len(s) = k /\ k \in Nat
  BY ControlBits DEF LightInv
<1>2. PICK n \in 0 .. k : /\ <<>> = SubSeq(s, n + 1, k)
                          /\ ChipsSent(chips[1], chips[2], dataDealwithSend(rgb), rgb, n)
  BY DEF LightInv, Sending
<1> HIDE DEF s, k
<1>3. n = k
  BY <1>1, <1>2, LeftOf
<1>4. ChipsSent(chips[1], chips[2], dataDealwithSend(rgb), rgb, 96)
  BY <1>2, <1>3, Zenon DEF k
<1>5. chips[1].shows = rgb /\ chips[2].shows = rgb
  BY <1>4 DEF ChipsSent, Has
<1> QED
  BY <1>5 DEF LightShows

\* Whatever the chips had half received, both show the colour sent last.
THEOREM LightAlwaysShows == BoardSpec => []LightShows
<1>1. BoardInit => LightInv
  BY DEF BoardInit, LightInv, Colour, Black, Chip, ChipOK
<1>2. LightInv /\ [BoardNext]_BoardVars => LightInv'
  BY LightStepInv
<1>3. LightInv => LightShows
  BY LightInvShows
<1> QED
  BY <1>1, <1>2, <1>3, PTL DEF BoardSpec

-----------------------------------------------------------------------------
(* gizTimerMs                                                              *)

\* Until the counter wraps it is what was kept and what has passed since, and
\* a call under way has looked no earlier than that and no later than now.
TimeInv ==
  /\ time \in 0 .. Wrap - 1 /\ lastRpMs \in Nat /\ since \in Nat /\ wrapped \in BOOLEAN
  /\ lastRpMs < Wrap
  /\ ~wrapped => time = lastRpMs * Milli + since
  /\ looked # -1 /\ ~wrapped => looked \in lastRpMs .. gizTimeMs

\* A number is its quotient's multiple and its remainder.
LEMMA Quotient ==
  ASSUME NEW a \in Nat, NEW b \in Nat \ {0}
  PROVE  /\ a \div b \in Nat /\ a % b \in Nat /\ a = (a \div b) * b + (a % b)
         /\ a \div b <= a
OBVIOUS

\* A quotient is at least what goes into the number.
LEMMA QuotientAbove ==
  ASSUME NEW a \in Nat, NEW b \in Nat \ {0}, NEW n \in Nat, NEW m \in Nat, a = n * b + m
  PROVE  n <= a \div b
OBVIOUS

\* What is below the modulus is its own remainder, also after the modulus is
\* added.
LEMMA Remainders ==
  ASSUME NEW m \in Nat \ {0}, NEW x \in 0 .. m - 1
  PROVE  x % m = x /\ (m + x) % m = x
OBVIOUS

\* The time in milliseconds fits, and is no less than what was kept.
LEMMA Milliseconds ==
  ASSUME TimeInv
  PROVE  /\ gizTimeMs \in 0 .. Wrap - 1 /\ time % Milli \in Nat
         /\ time = gizTimeMs * Milli + (time % Milli)
         /\ ~wrapped => lastRpMs <= gizTimeMs
<1>1. time \in Nat /\ time <= Wrap - 1 /\ Milli \in Nat \ {0} /\ Wrap \in Nat
  BY CounterAssumption DEF TimeInv
<1>2. /\ gizTimeMs \in Nat /\ time % Milli \in Nat
      /\ time = gizTimeMs * Milli + (time % Milli) /\ gizTimeMs <= time
  BY <1>1, Quotient DEF gizTimeMs
<1>3. ~wrapped => lastRpMs <= gizTimeMs
  BY <1>1, QuotientAbove DEF gizTimeMs, TimeInv
<1> HIDE DEF gizTimeMs
<1> QED
  BY <1>1, <1>2, <1>3

\* Every step leaves the time, what was kept and what has passed as they should
\* be to each other.
LEMMA TimeStepInv ==
  ASSUME TimeInv, [TimeNext]_TimeVars
  PROVE  TimeInv'
<1>1. CASE Passes
  <2>1. /\ time \in 0 .. Wrap - 1 /\ Wrap \in Nat \ {0} /\ since \in Nat /\ lastRpMs \in Nat
        /\ lastRpMs < Wrap /\ Milli \in Nat \ {0}
    BY CounterAssumption DEF TimeInv
  <2>2. time' = IF time = Wrap - 1 THEN 0 ELSE time + 1
    BY <1>1, <2>1, Remainders DEF Passes
  <2>3. time' \in 0 .. Wrap - 1
    BY <2>1, <2>2
  <2>4. ~wrapped' => time' = lastRpMs' * Milli + since'
    <3> SUFFICES ASSUME ~wrapped' PROVE time' = lastRpMs' * Milli + since'
      OBVIOUS
    <3>1. ~wrapped /\ time' # 0 /\ since' = since + 1 /\ lastRpMs' = lastRpMs
      BY <1>1 DEF Passes
    <3>2. time = lastRpMs * Milli + since
      BY <3>1 DEF TimeInv
    <3>3. time' = time + 1
      BY <2>2, <3>1
    <3> QED
      BY <2>1, <3>1, <3>2, <3>3
  <2>5. looked' # -1 /\ ~wrapped' => looked' \in lastRpMs' .. gizTimeMs'
    <3> SUFFICES ASSUME looked' # -1, ~wrapped' PROVE looked' \in lastRpMs' .. gizTimeMs'
      OBVIOUS
    <3>1. /\ ~wrapped /\ looked' = looked /\ lastRpMs' = lastRpMs /\ time' # 0
      BY <1>1 DEF Passes
    <3>2. looked \in lastRpMs .. gizTimeMs
      BY <3>1 DEF TimeInv
    <3>3. time' = time + 1 /\ time \in Nat
      BY <2>1, <2>2, <3>1
    <3>4. gizTimeMs <= gizTimeMs' /\ gizTimeMs \in Nat /\ gizTimeMs' \in Nat
      <4> DEFINE g == time \div Milli
                 r == time % Milli
      <4>1. g \in Nat /\ r \in Nat /\ time = g * Milli + r
        BY <2>1, <3>3, Quotient
      <4>2. time + 1 = g * Milli + (r + 1) /\ r + 1 \in Nat /\ time + 1 \in Nat
        BY <2>1, <3>3, <4>1
      <4>3. g <= (time + 1) \div Milli /\ (time + 1) \div Milli \in Nat
        BY <2>1, <4>1, <4>2, QuotientAbove, Quotient
      <4> QED
        BY <3>3, <4>1, <4>3 DEF gizTimeMs
    <3> QED
      BY <3>1, <3>2, <3>4
  <2> QED
    BY <1>1, <2>1, <2>3, <2>4, <2>5 DEF Passes, TimeInv
<1>2. CASE Keep
  <2>1. /\ time' = time /\ lastRpMs' = gizTimeMs /\ since' = time % Milli /\ wrapped' = FALSE
        /\ looked' = -1 /\ time \in 0 .. Wrap - 1
    BY <1>2 DEF Keep, TimeInv
  <2>2. /\ gizTimeMs \in 0 .. Wrap - 1 /\ time % Milli \in Nat
        /\ time = gizTimeMs * Milli + (time % Milli)
    BY Milliseconds
  <2>3. /\ time' \in 0 .. Wrap - 1 /\ lastRpMs' \in Nat /\ since' \in Nat /\ lastRpMs' < Wrap
        /\ time' = lastRpMs' * Milli + since'
    BY <2>1, <2>2, CounterAssumption
  <2>4. wrapped' \in BOOLEAN /\ ~(looked' # -1 /\ ~wrapped')
    BY <2>1
  <2> QED
    BY <2>3, <2>4, Zenon DEF TimeInv
<1>3. CASE Look
  <2>1. /\ looked' = gizTimeMs /\ gizTimeMs' = gizTimeMs
        /\ UNCHANGED <<time, lastRpMs, since, wrapped>>
    BY <1>3 DEF Look, gizTimeMs
  <2>2. gizTimeMs \in 0 .. Wrap - 1 /\ (~wrapped => lastRpMs <= gizTimeMs)
    BY Milliseconds
  <2>3. Wrap \in Nat
    BY CounterAssumption
  <2> QED
    BY <2>1, <2>2, <2>3 DEF TimeInv
<1>4. CASE gizGetIntervalsMs
  BY <1>4 DEF gizGetIntervalsMs, TimeInv, gizTimeMs
<1>5. CASE UNCHANGED TimeVars
  BY <1>5 DEF TimeVars, TimeInv, gizTimeMs
<1> QED
  BY <1>1, <1>2, <1>3, <1>4, <1>5 DEF TimeNext

\* What a call returns before the counter has wrapped, in a later millisecond.
LEMMA CallReturns ==
  ASSUME TimeInv, gizGetIntervalsMs, looked # lastRpMs, ~wrapped
  PROVE  interval' = elapsed'
<1> DEFINE g == gizTimeMs
           l == lastRpMs
<1>1. /\ Wrap \in Nat \ {0} /\ Milli \in Nat \ {0} /\ l \in Nat /\ l < Wrap
      /\ g \in 0 .. Wrap - 1 /\ l <= g /\ looked \in l .. g
      /\ time = l * Milli + since
  BY Milliseconds, CounterAssumption DEF TimeInv, gizGetIntervalsMs
<1>2. elapsed' = g - l
  BY <1>1 DEF gizGetIntervalsMs, Begun, gizTimeMs
<1>3. interval' = IF (looked - l) % Wrap > 0 THEN (g - l) % Wrap
                  ELSE (Wrap - 1 - l + g) % Wrap
  BY DEF gizGetIntervalsMs
<1> HIDE DEF g, l
<1>4. (looked - l) % Wrap = looked - l /\ (g - l) % Wrap = g - l
  <2>1. looked - l \in 0 .. Wrap - 1 /\ g - l \in 0 .. Wrap - 1
    BY <1>1
  <2> QED
    BY <1>1, <2>1, Remainders
<1>5. looked - l > 0
  BY <1>1 DEF l
<1> QED
  BY <1>2, <1>3, <1>4, <1>5

\* A call that begins in a later millisecond than the last query returns the
\* interval, whatever the counter does between its two looks, until it wraps.
THEOREM IntervalsRight == TimeSpec => IntervalRight
<1>1. ASSUME TimeInit PROVE TimeInv
  <2>1. Wrap \in Nat /\ Milli \in Nat \ {0} /\ Wrap > Milli
    BY CounterAssumption
  <2>2. time \in 0 .. Wrap - 1
    BY <1>1, <2>1 DEF TimeInit
  <2>3. /\ time \div Milli \in Nat /\ time % Milli \in Nat
        /\ time = (time \div Milli) * Milli + (time % Milli) /\ time \div Milli <= time
    BY <2>1, <2>2, Quotient
  <2>4. /\ lastRpMs \in Nat /\ since \in Nat /\ lastRpMs < Wrap
        /\ time = lastRpMs * Milli + since
    BY <1>1, <2>1, <2>2, <2>3 DEF TimeInit
  <2>5. wrapped \in BOOLEAN /\ ~(looked # -1 /\ ~wrapped)
    BY <1>1 DEF TimeInit
  <2> QED
    BY <2>2, <2>4, <2>5, Zenon DEF TimeInv
<1>2. TimeInv /\ [TimeNext]_TimeVars => TimeInv'
  BY TimeStepInv
<1>3. TimeInv /\ [TimeNext]_TimeVars =>
        [gizGetIntervalsMs /\ looked # lastRpMs /\ ~wrapped => interval' = elapsed']_TimeVars
  BY CallReturns
<1> QED
  BY <1>1, <1>2, <1>3, PTL DEF TimeSpec, IntervalRight

-----------------------------------------------------------------------------
(* user_json.c                                                             *)

Names == Seq(Chars)

\* The children of exactly that name, and the value one step down.
Same(o, part) == {i \in DOMAIN Children[o] : Children[o][i].name = part}

Down(up, part) ==
  IF up \in Objects /\ Same(up, part) # {}
  THEN Children[up][FirstOf(Same(up, part))].value ELSE NoValue

\* What the tree is, as the proofs use it.
LEMMA Tree ==
  /\ Root \in Objects /\ NoValue \notin Values /\ JsonSize \in Nat /\ NoValue \notin Objects
  /\ \A o \in Objects : \A i \in DOMAIN Children[o] :
       /\ i \in Nat /\ Children[o][i].name \in Names /\ Children[o][i].value \in Values
<1>1. ASSUME NEW o \in Objects, NEW i \in DOMAIN Children[o]
      PROVE  i \in Nat /\ Children[o][i].name \in Names /\ Children[o][i].value \in Values
  <2> DEFINE E == [name : Names, value : Values]
             c == Children[o]
  <2>1. c \in Seq(E) /\ i \in DOMAIN c
    BY <1>1, JsonAssumption DEF Names
  <2> HIDE DEF c
  <2>2. c \in [1 .. Len(c) -> E] /\ Len(c) \in Nat
    BY <2>1, LenProperties
  <2>3. i \in Nat /\ c[i] \in E
    BY <2>1, <2>2
  <2> QED
    BY <2>3 DEF c
<1> QED
  BY <1>1, JsonAssumption DEF Values

\* The first of some children is one of them, and none is before it.
LEMMA FirstIs ==
  ASSUME NEW o \in Objects, NEW s, s \subseteq DOMAIN Children[o], s # {}
  PROVE  FirstOf(s) \in s /\ \A j \in s : FirstOf(s) <= j
<1>1. s \subseteq Nat
  BY Tree
<1>2. \E i \in s : \A j \in s : i <= j
  BY <1>1, LeastOf
<1> QED
  BY <1>2, Zenon DEF FirstOf

\* A step down leads to a value or to nothing.
LEMMA DownType ==
  ASSUME NEW up, NEW part
  PROVE  Down(up, part) \in Values \cup {NoValue}
<1>1. CASE up \in Objects /\ Same(up, part) # {}
  <2> DEFINE i == FirstOf(Same(up, part))
  <2>1. i \in DOMAIN Children[up]
    BY <1>1, FirstIs DEF Same
  <2>2. Children[up][i].value \in Values
    BY <1>1, <2>1, Tree
  <2> QED
    BY <1>1, <2>2 DEF Down
<1>2. CASE ~(up \in Objects /\ Same(up, part) # {})
  BY <1>2, Zenon DEF Down
<1> QED
  BY <1>1, <1>2

\* The value a path names is found step by step.
LEMMA NamedWalk ==
  ASSUME NEW p \in Seq(Names)
  PROVE  \E at : /\ at[0] = Root /\ Named(p) = at[Len(p)]
                 /\ \A n \in 1 .. Len(p) : at[n] = Down(at[n - 1], p[n])
<1> DEFINE N == Len(p)
           V == Values \cup {NoValue}
           step == [n \in 1 .. N |-> [x \in V |-> Down(x, p[n])]]
           valueIn(up, s) == Children[up][CHOOSE i \in s : \A j \in s : i <= j].value
           same(up, n) == IF up \in Objects
                          THEN {i \in DOMAIN Children[up] : Children[up][i].name = p[n]} ELSE {}
           is(f) == f = [n \in 0 .. N |->
                           IF n = 0 THEN Root
                           ELSE IF same(f[n - 1], n) = {} THEN NoValue
                                ELSE valueIn(f[n - 1], same(f[n - 1], n))]
           at == CHOOSE f : is(f)
<1>1. Named(p) = at[N]
  BY DEF Named
<1>2. N \in Nat /\ Root \in V
  BY Tree, LenProperties DEF Values
<1>3. ASSUME NEW up, NEW n
      PROVE  Down(up, p[n]) = IF same(up, n) = {} THEN NoValue ELSE valueIn(up, same(up, n))
  <2>1. CASE up \in Objects
    <3>1. same(up, n) = Same(up, p[n])
      BY <2>1, Zenon DEF Same
    <3>2. valueIn(up, Same(up, p[n])) = Children[up][FirstOf(Same(up, p[n]))].value
      BY Zenon DEF FirstOf
    <3> HIDE DEF same, valueIn
    <3> QED
      BY <2>1, <3>1, <3>2, Zenon DEF Down
  <2>2. CASE up \notin Objects
    <3>1. same(up, n) = {}
      BY <2>2, Zenon
    <3> HIDE DEF same, valueIn
    <3> QED
      BY <2>2, <3>1, Zenon DEF Down
  <2> QED
    BY <2>1, <2>2
<1> HIDE DEF same, valueIn, N
<1>4. \E f : is(f)
  <2>1. step \in [1 .. N -> [V -> V]]
    BY DownType
  <2>2. \A n \in 1 .. N : \A x \in V : step[n][x] = Down(x, p[n])
    OBVIOUS
  <2> HIDE DEF V, step
  <2>3. PICK f : Steps(f, N, V, Root, step)
    BY <1>2, <2>1, RecursionExists
  <2>4. f \in [0 .. N -> V] /\ f[0] = Root /\ \A n \in 1 .. N : f[n] = step[n][f[n - 1]]
    BY <2>3 DEF Steps
  <2>5. \A n \in 1 .. N : f[n - 1] \in V
    BY <1>2, <2>4
  <2>6. \A n \in 1 .. N : f[n] = Down(f[n - 1], p[n])
    BY <2>4, <2>2, <2>5
  <2>7. f = [n \in 0 .. N |-> IF n = 0 THEN Root ELSE Down(f[n - 1], p[n])]
    BY <1>2, <2>4, <2>6
  <2>8. is(f)
    BY <1>3, <2>7
  <2> QED
    BY <2>8
<1>5. is(at)
  BY <1>4
<1> HIDE DEF at
<1>6. at[0] = Root
  BY <1>2, <1>5
<1>7. \A n \in 1 .. N : at[n] = Down(at[n - 1], p[n])
  <2> TAKE n \in 1 .. N
  <2>1. n \in 0 .. N /\ n # 0
    BY <1>2
  <2>2. at[n] = IF n = 0 THEN Root
                ELSE IF same(at[n - 1], n) = {} THEN NoValue
                     ELSE valueIn(at[n - 1], same(at[n - 1], n))
    BY <1>5, <2>1, Zenon
  <2> QED
    BY <1>3, <2>1, <2>2, Zenon
<1> QED
  BY <1>1, <1>6, <1>7 DEF N

-----------------------------------------------------------------------------
(* The way down.                                                           *)

\* The n-th step was to the first child whose name begins with the path's part.
Stepped(n) ==
  /\ values[n] \in Objects /\ Found(values[n], path[n]) # {}
  /\ values[n + 1] = Children[values[n]][FirstOf(Found(values[n], path[n]))].value

\* Where find_json_path is after the last step: at the value reached, or at
\* nothing where no child was left to match.
Reached(k) ==
  \/ v = Top /\ rest = SubSeq(path, k + 1, Len(path))
  \/ v = NoValue /\ k < Len(path) /\ (Top \in Objects => Found(Top, path[k + 1]) = {})

WalkInv ==
  /\ path \in Seq(Names) /\ values \in Seq(Values) /\ values[1] = Root
  /\ Len(values) \in 1 .. Len(path) + 1
  /\ \A n \in 1 .. Len(values) - 1 : Stepped(n)
  /\ Reached(Len(values) - 1)
  /\ stage \in {"print", "idle"} => rest = <<>> \/ Head(rest) = <<>> \/ v = NoValue

\* The head and the tail of what is left of a sequence.
LEMMA RestOf ==
  ASSUME NEW S, NEW s \in Seq(S), NEW k \in Nat, k <= Len(s)
  PROVE  /\ SubSeq(s, k + 1, Len(s)) = <<>> <=> k = Len(s)
         /\ k < Len(s) => /\ Head(SubSeq(s, k + 1, Len(s))) = s[k + 1]
                          /\ Tail(SubSeq(s, k + 1, Len(s))) = SubSeq(s, (k + 1) + 1, Len(s))
         /\ SubSeq(s, 0 + 1, Len(s)) = s
OBVIOUS

\* At first nothing has been looked up.
LEMMA WalkInit == JsonInit => WalkInv
<1> SUFFICES ASSUME JsonInit PROVE WalkInv
  OBVIOUS
<1>1. path = <<>> /\ rest = <<>> /\ v = Root /\ values = <<Root>>
  BY DEF JsonInit
<1>2. Root \in Values
  BY Tree DEF Values
<1>3. path \in Seq(Names) /\ values \in Seq(Values) /\ Len(values) = 1 /\ values[1] = Root
  BY <1>1, <1>2
<1>4. rest = SubSeq(path, 0 + 1, Len(path))
  BY <1>1
<1>5. Reached(0)
  BY <1>1, <1>3, <1>4 DEF Reached, Top
<1>6. Len(values) - 1 = 0 /\ 1 .. 0 = {} /\ Len(values) \in 1 .. Len(path) + 1
  BY <1>1, <1>3
<1>7. Reached(Len(values) - 1) /\ 1 .. Len(values) - 1 = {}
  BY <1>5, <1>6, Zenon
<1> QED
  BY <1>1, <1>3, <1>6, <1>7 DEF WalkInv

\* The look-up starts at the root with the whole path.
LEMMA WalkStarts ==
  ASSUME NEW p \in Paths, NEW block \in BOOLEAN, json_ws_send(p, block)
  PROVE  WalkInv'
<1>1. /\ path' = p /\ rest' = p /\ v' = Root /\ values' = <<Root>> /\ stage' = "find"
  BY DEF json_ws_send
<1>2. p \in Seq(Names) /\ Root \in Values /\ Len(p) \in Nat
  BY Tree, JsonAssumption, LenProperties DEF Names, Values
<1>3. values' \in Seq(Values) /\ Len(values') = 1 /\ values'[1] = Root
  BY <1>1, <1>2
<1>4. p = SubSeq(p, 0 + 1, Len(p))
  BY <1>2, RestOf
<1>5. Reached(0)'
  BY <1>1, <1>3, <1>4 DEF Reached, Top
<1>6. Len(values') - 1 = 0
  BY <1>3
<1>7. Reached(Len(values) - 1)'
  BY <1>5, <1>6
<1>8. 1 .. Len(values') - 1 = {}
  <2>1. 1 .. 0 = {}
    OBVIOUS
  <2> QED
    BY <1>6, <2>1, Zenon
<1> QED
  BY <1>1, <1>2, <1>3, <1>7, <1>8 DEF WalkInv

\* A part of the path is gone down or leads to nothing.
LEMMA WalkDescends ==
  ASSUME WalkInv, Descend
  PROVE  WalkInv'
<1>1. /\ stage' \notin {"print", "idle"} /\ path' = path /\ rest # <<>> /\ v # NoValue
      /\ rest' = Tail(rest)
  BY DEF Descend, Goes
<1>0. PICK k : k = Len(values) - 1
  OBVIOUS
<1>2. /\ path \in Seq(Names) /\ values \in Seq(Values) /\ values[1] = Root
      /\ Len(values) \in 1 .. Len(path) + 1
      /\ \A n \in 1 .. k : Stepped(n)
      /\ v = Top /\ rest = SubSeq(path, k + 1, Len(path))
  BY <1>0, <1>1 DEF WalkInv, Reached
<1>3. k \in Nat /\ k <= Len(path) /\ Len(path) \in Nat /\ Len(values) = k + 1
  BY <1>0, <1>2, LenProperties
<1>4. /\ k < Len(path) /\ Head(rest) = path[k + 1]
      /\ Tail(rest) = SubSeq(path, (k + 1) + 1, Len(path))
  <2>1. k # Len(path)
    BY <1>1, <1>2, <1>3, RestOf
  <2>2. k < Len(path)
    BY <1>3, <2>1
  <2> QED
    BY <1>2, <1>3, <2>2, RestOf
<1>5. Top = values[k + 1] /\ k + 1 \in 1 .. Len(values)
  BY <1>3 DEF Top
<1>6. CASE v \in Objects /\ Found(v, Head(rest)) # {}
  <2> DEFINE x == Children[v][FirstOf(Found(v, Head(rest)))].value
  <2>1. v' = x /\ values' = Append(values, x)
    BY <1>6 DEF Descend
  <2>2. x \in Values
    <3>1. Found(v, Head(rest)) \subseteq DOMAIN Children[v]
      BY DEF Found
    <3>2. FirstOf(Found(v, Head(rest))) \in DOMAIN Children[v]
      BY <1>6, <3>1, FirstIs
    <3> QED
      BY <1>6, <3>2, Tree
  <2>3. x = Children[values[k + 1]][FirstOf(Found(values[k + 1], path[k + 1]))].value
    BY <1>2, <1>4, <1>5
  <2> HIDE DEF x
  <2>4. /\ values' \in Seq(Values) /\ Len(values') = k + 2 /\ values'[k + 2] = x
        /\ \A n \in 1 .. k + 1 : values'[n] = values[n]
    <3>1. Len(values) + 1 = k + 2
      BY <1>3
    <3> QED
      BY <1>2, <1>3, <2>1, <2>2, <3>1, AppendProperties
  <2>5. \A n \in 1 .. k + 1 : Stepped(n)'
    <3>1. ASSUME NEW n \in 1 .. k PROVE Stepped(n)'
      <4>1. Stepped(n) /\ n \in 1 .. k + 1 /\ n + 1 \in 1 .. k + 1
        BY <1>2, <1>3
      <4> QED
        BY <1>1, <2>4, <4>1 DEF Stepped, Found
    <3>2. Stepped(k + 1)'
      <4>1. values'[k + 1] = values[k + 1] /\ values'[(k + 1) + 1] = x
        BY <1>3, <2>4
      <4>2. values[k + 1] \in Objects /\ Found(values[k + 1], path[k + 1]) # {}
        BY <1>2, <1>4, <1>5, <1>6
      <4> QED
        BY <1>1, <2>3, <4>1, <4>2 DEF Stepped, Found
    <3> QED
      BY <1>3, <3>1, <3>2
  <2>6. Reached(k + 1)'
    <3>1. Top' = x
      BY <2>4 DEF Top
    <3> QED
      BY <1>1, <1>4, <2>1, <3>1 DEF Reached
  <2>7. /\ Len(values') - 1 = k + 1 /\ Len(values') \in 1 .. Len(path) + 1
        /\ 1 \in 1 .. k + 1
    BY <1>3, <1>4, <2>4
  <2> QED
    <3>1. Reached(Len(values) - 1)'
      BY <2>6, <2>7
    <3>2. \A n \in 1 .. Len(values') - 1 : Stepped(n)'
      BY <2>5, <2>7
    <3>3. values'[1] = Root
      BY <1>2, <2>4, <2>7
    <3> QED
      BY <1>1, <1>2, <2>4, <2>7, <3>1, <3>2, <3>3 DEF WalkInv
<1>7. CASE ~(v \in Objects /\ Found(v, Head(rest)) # {})
  <2>1. v' = NoValue /\ values' = values
    BY <1>7 DEF Descend
  <2>2. Reached(k)'
    <3>1. Top' = Top
      BY <2>1 DEF Top
    <3>2. Top \in Objects => Found(Top, path[k + 1]) = {}
      BY <1>2, <1>4, <1>7
    <3> QED
      BY <1>1, <1>4, <2>1, <3>1, <3>2 DEF Reached, Found
  <2>3. \A n \in 1 .. k : Stepped(n)'
    BY <1>1, <1>2, <2>1 DEF Stepped, Found
  <2> QED
    BY <1>0, <1>1, <1>2, <2>1, <2>2, <2>3 DEF WalkInv
<1> QED
  BY <1>6, <1>7

\* The way down is kept by every step.
LEMMA WalkStepInv ==
  ASSUME WalkInv, [JsonNext]_JsonVars
  PROVE  WalkInv'
<1>1. ASSUME UNCHANGED <<path, rest, v, values>>,
             rest = <<>> \/ Head(rest) = <<>> \/ v = NoValue
      PROVE  WalkInv'
  BY <1>1, ZenonT(60) DEF WalkInv, Stepped, Found, Reached, Top
<1>2. CASE \E p \in Paths, block \in BOOLEAN : json_ws_send(p, block)
  BY <1>2, WalkStarts
<1>3. CASE Descend
  BY <1>3, WalkDescends
<1>4. CASE \E n \in 0 .. TextLen : PrintText(n)
  <2>1. /\ UNCHANGED <<path, rest, v, values>>
        /\ rest = <<>> \/ Head(rest) = <<>> \/ v = NoValue
    BY <1>4 DEF PrintText, Goes
  <2> QED
    BY <1>1, <2>1
<1>5. CASE json_putchar \/ HandOn
  <2>1. UNCHANGED <<path, rest, v, values>> /\ stage = "print"
    BY <1>5 DEF json_putchar, HandOn
  <2>2. rest = <<>> \/ Head(rest) = <<>> \/ v = NoValue
    BY <2>1 DEF WalkInv
  <2> QED
    BY <1>1, <2>1, <2>2
<1>6. CASE UNCHANGED JsonVars
  BY <1>6, ZenonT(60) DEF JsonVars, WalkInv, Stepped, Found, Reached, Top
<1> QED
  BY <1>2, <1>3, <1>4, <1>5, <1>6 DEF JsonNext

\* A name begins with itself.
LEMMA SameIsFound ==
  ASSUME NEW o \in Objects, NEW part
  PROVE  Same(o, part) \subseteq Found(o, part)
<1> SUFFICES ASSUME NEW i \in DOMAIN Children[o], Children[o][i].name = part
             PROVE  Matches(part, Children[o][i].name)
  BY DEF Same, Found
<1>1. part \in Seq(Chars)
  BY Tree DEF Names
<1> QED
  BY <1>1 DEF Matches

\* From nothing there is no way down.
LEMMA NothingBelow == \A part : Down(NoValue, part) = NoValue
BY Tree, Zenon DEF Down

\* Where no longer name comes before, the first child whose name begins with
\* the part is the first of just that name, if there is one.
LEMMA StepIsDown ==
  ASSUME NEW o \in Objects, NEW part, Same(o, part) # {},
         \A i \in Found(o, part), j \in DOMAIN Children[o] : Children[o][j].name = part => j <= i
  PROVE  Down(o, part) = Children[o][FirstOf(Found(o, part))].value
<1>1. Same(o, part) \subseteq Found(o, part) /\ Found(o, part) \subseteq DOMAIN Children[o]
  BY SameIsFound DEF Found
<1>2. /\ FirstOf(Same(o, part)) \in Same(o, part)
      /\ FirstOf(Found(o, part)) \in Found(o, part)
      /\ \A j \in Found(o, part) : FirstOf(Found(o, part)) <= j
  BY <1>1, FirstIs
<1> DEFINE a == FirstOf(Same(o, part))
           b == FirstOf(Found(o, part))
<1>3. a <= b /\ b <= a
  BY <1>1, <1>2 DEF Same
<1>4. a \in Nat /\ b \in Nat
  BY <1>1, <1>2, Tree
<1> HIDE DEF a, b
<1>5. a = b
  BY <1>3, <1>4
<1>6. Down(o, part) = Children[o][a].value
  BY Zenon DEF Down, a
<1> QED
  BY <1>5, <1>6, Zenon DEF b

\* The value printed is the value named.
LEMMA WalkToNamed ==
  ASSUME WalkInv, stage = "idle", Unshadowed,
         <<>> \notin {path[i] : i \in DOMAIN path}, Named(path) # NoValue
  PROVE  Top = Named(path)
<1>0. PICK k : k = Len(values) - 1
  OBVIOUS
<1>1. /\ path \in Seq(Names) /\ values \in Seq(Values) /\ values[1] = Root
      /\ Len(values) \in 1 .. Len(path) + 1
      /\ \A n \in 1 .. k : Stepped(n)
      /\ Reached(k)
      /\ rest = <<>> \/ Head(rest) = <<>> \/ v = NoValue
  BY <1>0 DEF WalkInv
<1>2. PICK N : N = Len(path)
  OBVIOUS
<1>3. k \in Nat /\ N \in Nat /\ k <= N /\ Len(values) = k + 1
  BY <1>0, <1>1, <1>2, LenProperties
<1>4. PICK at : /\ at[0] = Root /\ Named(path) = at[N]
                /\ \A n \in 1 .. N : at[n] = Down(at[n - 1], path[n])
  BY <1>1, <1>2, NamedWalk
\* Once at nothing it would end there.
<1>5. \A n \in 0 .. N : at[n] # NoValue
  <2> DEFINE S == {m \in Nat : m <= N => at[N - m] # NoValue}
  <2>1. 0 \in S
    BY <1>3, <1>4
  <2>2. ASSUME NEW m \in 0 .. N - 1, m \in S PROVE m + 1 \in S
    <3>1. N - m \in 1 .. N /\ at[N - m] # NoValue /\ (N - m) - 1 = N - (m + 1)
      BY <1>3, <2>2
    <3>2. at[N - m] = Down(at[N - (m + 1)], path[N - m])
      BY <1>4, <3>1
    <3>3. at[N - (m + 1)] # NoValue
      BY <3>1, <3>2, NothingBelow
    <3> QED
      BY <3>3
  <2> HIDE DEF S
  <2>3. 0 .. N \subseteq S
    BY <1>3, <2>1, <2>2, BoundedInduction
  <2> TAKE n \in 0 .. N
  <2>4. N - n \in 0 .. N /\ N - (N - n) = n
    BY <1>3
  <2>5. N - n \in S
    BY <2>3, <2>4
  <2> QED
    BY <2>4, <2>5 DEF S
\* So the way down is the way found.
<1>6. ASSUME NEW n \in 1 .. k, at[n - 1] = values[n] PROVE at[n] = values[n + 1]
  <2> DEFINE o == values[n]
             part == path[n]
  <2>1. n \in 1 .. N /\ n \in 0 .. N /\ n \in 1 .. Len(values) - 1
    BY <1>0, <1>3
  <2>2. at[n] = Down(o, part) /\ at[n] # NoValue
    BY <1>4, <1>5, <1>6, <2>1
  <2>3. o \in Objects /\ values[n + 1] = Children[o][FirstOf(Found(o, part))].value
    BY <1>1 DEF Stepped
  <2>4. \A i \in Found(o, part), j \in DOMAIN Children[o] : Children[o][j].name = part => j <= i
    BY <2>1 DEF Unshadowed
  <2> HIDE DEF o, part
  <2>5. Same(o, part) # {}
    BY <2>2, Zenon DEF Down
  <2> QED
    BY <2>2, <2>3, <2>4, <2>5, StepIsDown
<1>7. \A n \in 0 .. k : at[n] = values[n + 1]
  <2> DEFINE S == {n \in Nat : at[n] = values[n + 1]}
  <2>1. 0 \in S
    BY <1>1, <1>4
  <2>2. ASSUME NEW n \in 0 .. k - 1, n \in S PROVE n + 1 \in S
    <3>1. n + 1 \in 1 .. k /\ (n + 1) - 1 = n /\ n + 1 \in Nat
      BY <1>3
    <3>2. at[n] = values[n + 1]
      BY <2>2
    <3> QED
      BY <1>6, <3>1, <3>2
  <2> HIDE DEF S
  <2>3. 0 .. k \subseteq S
    BY <1>3, <2>1, <2>2, BoundedInduction
  <2> QED
    BY <2>3 DEF S
<1>8. Top = at[k]
  <2>1. k \in 0 .. k
    BY <1>3
  <2> QED
    BY <1>3, <1>7, <2>1 DEF Top
<1>9. v = Top /\ rest = SubSeq(path, k + 1, N)
  <2> SUFFICES ASSUME k < N, Top \in Objects => Found(Top, path[k + 1]) = {} PROVE FALSE
    BY <1>1, <1>2 DEF Reached
  <2>1. k + 1 \in 1 .. N /\ (k + 1) - 1 = k /\ k + 1 \in 0 .. N
    BY <1>3
  <2>2. Down(Top, path[k + 1]) # NoValue
    BY <1>4, <1>5, <1>8, <2>1
  <2>3. Top \in Objects /\ Same(Top, path[k + 1]) # {}
    BY <2>2, Zenon DEF Down
  <2> QED
    BY <2>3, SameIsFound
<1>10. k = N
  <2> SUFFICES ASSUME k < N PROVE FALSE
    BY <1>3
  <2>1. Top \in Values
    BY <1>1, <1>3 DEF Top
  <2>2. v # NoValue
    BY <1>9, <2>1, Tree
  <2>3. rest # <<>> /\ Head(rest) = path[k + 1]
    <3>1. k # Len(path) /\ k < Len(path) /\ k <= Len(path)
      BY <1>2, <1>3
    <3> QED
      BY <1>1, <1>2, <1>3, <1>9, <3>1, RestOf
  <2>4. k + 1 \in DOMAIN path
    BY <1>1, <1>2, <1>3
  <2>5. path[k + 1] = <<>>
    BY <1>1, <2>2, <2>3
  <2> QED
    BY <2>4, <2>5
<1> QED
  BY <1>4, <1>8, <1>9, <1>10

-----------------------------------------------------------------------------
(* The text.                                                               *)

\* n characters of the text of x, after the first k.
Part(x, k, n) == [i \in 1 .. n |-> <<x, k + i>>]

\* What fits of k characters.
Fits(k) == IF k <= JsonSize + 1 THEN k ELSE JsonSize + 1

\* The buffer, if there is one, has what fits of the first k characters, and the
\* rest is still to come.
Between(x, k, n) ==
  /\ text = Part(x, k, n) /\ printed = Part(x, 0, k + n)
  /\ allocated => buf = Part(x, 0, Fits(k))

\* So it is while the text is printed, and the caller has the whole of it in the
\* end.
TextInv ==
  /\ stage = "idle" => pbuf = printed /\ \E n \in Nat : printed = Part(Top, 0, n)
  /\ stage = "find" => buf = <<>>
  /\ stage = "print" => \E k, n \in Nat : Between(Top, k, n)

\* A part of a text as a sequence.
LEMMA PartIs ==
  ASSUME NEW x, NEW k \in Nat, NEW n \in Nat
  PROVE  /\ Part(x, k, n) \in Seq({x} \X Nat) /\ Len(Part(x, k, n)) = n
         /\ Part(x, k, n) = <<>> <=> n = 0
         /\ n # 0 => /\ Head(Part(x, k, n)) = <<x, k + 1>>
                     /\ Tail(Part(x, k, n)) = Part(x, k + 1, n - 1)
         /\ Append(Part(x, k, n), <<x, k + n + 1>>) = Part(x, k, n + 1)
<1> DEFINE s == Part(x, k, n)
<1>1. s = [i \in 1 .. n |-> <<x, k + i>>]
  BY DEF Part
<1>2. \A i \in Nat : <<x, k + i>> \in {x} \X Nat
  OBVIOUS
<1>3. s \in Seq({x} \X Nat) /\ Len(s) = n
  BY <1>1, <1>2
<1>4. \A i \in 1 .. n : s[i] = <<x, k + i>>
  BY <1>1
<1> HIDE DEF s
<1>5. s = <<>> <=> n = 0
  BY <1>3
<1>6. ASSUME n # 0 PROVE Head(s) = <<x, k + 1>> /\ Tail(s) = Part(x, k + 1, n - 1)
  <2>1. s # <<>> /\ 1 \in 1 .. n
    BY <1>5, <1>6
  <2>2. Head(s) = s[1]
    BY <1>3, <2>1
  <2>3. Tail(s) = [i \in 1 .. n - 1 |-> s[i + 1]]
    <3> DEFINE T == {x} \X Nat
    <3>1. s \in Seq(T) /\ Len(s) = n /\ s # <<>>
      BY <1>3, <2>1
    <3> HIDE DEF T
    <3>2. /\ Tail(s) \in Seq(T) /\ Len(Tail(s)) = n - 1
          /\ \A i \in 1 .. n - 1 : Tail(s)[i] = s[i + 1]
      BY <3>1, HeadTailProperties
    <3>3. PICK q : q = Tail(s)
      OBVIOUS
    <3>4. q = [i \in 1 .. Len(q) |-> q[i]]
      <4>1. q \in Seq(T)
        BY <3>2, <3>3
      <4> QED
        BY <4>1, LenProperties
    <3>5. q = [i \in 1 .. n - 1 |-> q[i]]
      BY <3>2, <3>3, <3>4, Zenon
    <3>6. \A i \in 1 .. n - 1 : q[i] = s[i + 1]
      BY <3>2, <3>3
    <3> QED
      BY <3>3, <3>5, <3>6
  <2>4. \A i \in 1 .. n - 1 : s[i + 1] = <<x, (k + 1) + i>>
    <3> TAKE i \in 1 .. n - 1
    <3>1. i + 1 \in 1 .. n /\ k + (i + 1) = (k + 1) + i
      OBVIOUS
    <3> QED
      BY <1>4, <3>1, Zenon
  <2>5. Tail(s) = [i \in 1 .. n - 1 |-> <<x, (k + 1) + i>>]
    BY <2>3, <2>4
  <2> QED
    BY <1>4, <2>1, <2>2, <2>5 DEF Part
<1>7. Append(s, <<x, k + n + 1>>) = Part(x, k, n + 1)
  <2> DEFINE e == <<x, k + n + 1>>
             a == Append(s, e)
  <2>1. e \in {x} \X Nat
    OBVIOUS
  <2>2. e = <<x, k + (n + 1)>>
    OBVIOUS
  <2> HIDE DEF e
  <2>3. /\ a \in Seq({x} \X Nat) /\ Len(a) = n + 1 /\ a[n + 1] = e
        /\ \A i \in 1 .. n : a[i] = s[i]
    BY <1>3, <2>1, AppendProperties
  <2> HIDE DEF a
  <2>4. \A i \in 1 .. n + 1 : a[i] = <<x, k + i>>
    <3> TAKE i \in 1 .. n + 1
    <3>1. CASE i = n + 1
      BY <2>2, <2>3, <3>1, Zenon
    <3>2. CASE i # n + 1
      <4>1. i \in 1 .. n
        BY <3>2
      <4> QED
        BY <1>4, <2>3, <4>1, Zenon
    <3> QED
      BY <3>1, <3>2
  <2>5. a = [i \in 1 .. n + 1 |-> a[i]]
    BY <2>3
  <2>6. a = [i \in 1 .. n + 1 |-> <<x, k + i>>]
    BY <2>4, <2>5
  <2> QED
    BY <2>6, Zenon DEF Part, a, e
<1> QED
  BY <1>3, <1>5, <1>6, <1>7 DEF s

\* A text is its part from the beginning.
LEMMA TextIsPart ==
  ASSUME NEW x, NEW n \in Nat
  PROVE  TextOf(x, n) = Part(x, 0, n)
<1>1. \A i \in 1 .. n : 0 + i = i
  OBVIOUS
<1> QED
  BY <1>1 DEF TextOf, Part

\* One character more in the buffer, or as many as before when it is full.
LEMMA PutFits ==
  ASSUME NEW x, NEW k \in Nat
  PROVE  Part(x, 0, Fits(k + 1)) =
           IF Len(Part(x, 0, Fits(k))) <= JsonSize
           THEN Append(Part(x, 0, Fits(k)), <<x, k + 1>>) ELSE Part(x, 0, Fits(k))
<1>1. Fits(k) \in Nat /\ Len(Part(x, 0, Fits(k))) = Fits(k)
  <2>1. Fits(k) \in Nat
    BY Tree DEF Fits
  <2> QED
    BY <2>1, PartIs
<1>2. CASE k <= JsonSize
  <2>1. Fits(k) = k /\ Fits(k + 1) = k + 1
    BY <1>2, Tree DEF Fits
  <2>2. Append(Part(x, 0, k), <<x, k + 1>>) = Part(x, 0, k + 1)
    <3>1. PICK z \in Nat : z = 0
      OBVIOUS
    <3>2. Append(Part(x, z, k), <<x, z + k + 1>>) = Part(x, z, k + 1)
      BY PartIs
    <3>3. z + k + 1 = k + 1
      BY <3>1
    <3> QED
      BY <3>1, <3>2, <3>3, Zenon
  <2> QED
    BY <1>1, <1>2, <2>1, <2>2
<1>3. CASE ~(k <= JsonSize)
  <2>1. Fits(k) = Fits(k + 1) /\ ~(Fits(k) <= JsonSize)
    BY <1>3, Tree DEF Fits
  <2> QED
    BY <1>1, <2>1
<1> QED
  BY <1>2, <1>3

\* Every step keeps buffer and text together.
LEMMA TextStepInv ==
  ASSUME TextInv, [JsonNext]_JsonVars
  PROVE  TextInv'
<1>1. CASE \E p \in Paths, block \in BOOLEAN : json_ws_send(p, block)
  BY <1>1 DEF json_ws_send, TextInv
<1>2. CASE Descend
  <2>1. stage = "find" /\ stage' \in {"find", "corrupt"} /\ UNCHANGED buf
    BY <1>2 DEF Descend
  <2> QED
    BY <2>1 DEF TextInv
<1>3. CASE \E n \in 0 .. TextLen : PrintText(n)
  <2>1. PICK n \in 0 .. TextLen : PrintText(n)
    BY <1>3
  <2>2. /\ stage = "find" /\ stage' = "print" /\ UNCHANGED <<buf, values>>
        /\ text' = TextOf(Top, n) /\ printed' = TextOf(Top, n)
    BY <2>1 DEF PrintText
  <2>3. PICK x : x = Top /\ x = Top'
    BY <2>2 DEF Top
  <2>4. n \in Nat /\ 0 \in Nat /\ 0 + n = n
    BY JsonAssumption
  <2>5. text' = Part(x, 0, n) /\ printed' = Part(x, 0, 0 + n)
    BY <2>2, <2>3, <2>4, TextIsPart
  <2>6. buf' = Part(x, 0, Fits(0))
    <3>1. Fits(0) = 0
      BY Tree DEF Fits
    <3>2. Part(x, 0, 0) = <<>>
      BY <2>4, PartIs
    <3> QED
      BY <2>2, <3>1, <3>2 DEF TextInv
  <2>7. \E k, m \in Nat : Between(x, k, m)'
    <3>1. Between(x, 0, n)'
      BY <2>5, <2>6 DEF Between, Part, Fits
    <3> QED
      BY <2>4, <3>1
  <2>8. (\E k, m \in Nat : Between(Top, k, m))'
    <3>1. PICK k \in Nat, m \in Nat : Between(x, k, m)'
      BY <2>7
    <3>2. Between(Top, k, m)'
      BY <2>3, <3>1 DEF Between, Part, Fits
    <3> QED
      BY <3>2
  <2> QED
    BY <2>2, <2>8 DEF TextInv
<1>4. CASE json_putchar
  <2>1. /\ stage = "print" /\ stage' = "print" /\ text # <<>> /\ text' = Tail(text)
        /\ UNCHANGED <<printed, allocated, values>>
        /\ buf' = IF allocated /\ Len(buf) <= JsonSize THEN Append(buf, Head(text)) ELSE buf
    BY <1>4 DEF json_putchar
  <2>2. PICK x : x = Top /\ x = Top'
    BY <2>1 DEF Top
  <2>3. PICK k \in Nat, n \in Nat :
          /\ text = Part(x, k, n) /\ printed = Part(x, 0, k + n)
          /\ allocated => buf = Part(x, 0, Fits(k))
    BY <2>1, <2>2 DEF TextInv, Between
  <2>4. n # 0 /\ Head(text) = <<x, k + 1>> /\ text' = Part(x, k + 1, n - 1)
    <3>1. text = Part(x, k, n) /\ text # <<>> /\ text' = Tail(text)
      BY <2>1, <2>3, Zenon
    <3>2. /\ Part(x, k, n) = <<>> <=> n = 0
          /\ n # 0 => /\ Head(Part(x, k, n)) = <<x, k + 1>>
                      /\ Tail(Part(x, k, n)) = Part(x, k + 1, n - 1)
      BY PartIs, Zenon
    <3> QED
      BY <3>1, <3>2, Zenon
  <2>5. allocated' => buf' = Part(x, 0, Fits(k + 1))
    <3> SUFFICES ASSUME allocated PROVE buf' = Part(x, 0, Fits(k + 1))
      BY <2>1
    <3>1. buf = Part(x, 0, Fits(k))
      BY <2>3
    <3> QED
      BY <2>1, <2>4, <3>1, PutFits, Zenon
  <2>6. k + 1 \in Nat /\ n - 1 \in Nat /\ (k + 1) + (n - 1) = k + n
    BY <2>4
  <2>7. \E l, m \in Nat : Between(x, l, m)'
    <3>1. Between(x, k + 1, n - 1)'
      BY <2>1, <2>3, <2>4, <2>5, <2>6 DEF Between, Part, Fits
    <3> QED
      BY <2>6, <3>1
  <2>8. (\E l, m \in Nat : Between(Top, l, m))'
    <3>1. PICK l \in Nat, m \in Nat : Between(x, l, m)'
      BY <2>7
    <3>2. Between(Top, l, m)'
      BY <2>2, <3>1 DEF Between, Part, Fits
    <3> QED
      BY <3>2
  <2> QED
    BY <2>1, <2>8 DEF TextInv
<1>5. CASE HandOn
  <2>1. /\ stage = "print" /\ text = <<>> /\ UNCHANGED <<printed, values>>
        /\ stage' \in {"idle", "crashed", "corrupt"}
        /\ stage' = "idle" => allocated /\ pbuf' = buf /\ Len(buf) < JsonSize
    BY <1>5 DEF HandOn
  <2> SUFFICES ASSUME stage' = "idle"
               PROVE  pbuf' = printed' /\ \E n \in Nat : printed' = Part(Top, 0, n)'
    BY <2>1 DEF TextInv
  <2>2. PICK x : x = Top /\ x = Top'
    BY <2>1 DEF Top
  <2>3. PICK k \in Nat, n \in Nat :
          /\ text = Part(x, k, n) /\ printed = Part(x, 0, k + n)
          /\ allocated => buf = Part(x, 0, Fits(k))
    BY <2>1, <2>2 DEF TextInv, Between
  <2>4. n = 0 /\ k + n = k
    <3>1. Part(x, k, n) = <<>>
      BY <2>1, <2>3, Zenon
    <3>2. Part(x, k, n) = <<>> <=> n = 0
      BY PartIs, Zenon
    <3> QED
      BY <3>1, <3>2
  <2>5. Fits(k) \in Nat /\ Fits(k) < JsonSize
    <3>1. Fits(k) \in Nat
      BY Tree DEF Fits
    <3>2. Len(Part(x, 0, Fits(k))) = Fits(k)
      BY <3>1, PartIs
    <3> QED
      BY <2>1, <2>3, <3>1, <3>2
  <2>6. Fits(k) = k
    BY <2>5, Tree DEF Fits
  <2>7. pbuf' = Part(x, 0, k) /\ printed' = Part(x, 0, k)
    BY <2>1, <2>3, <2>4, <2>6
  <2> QED
    BY <2>2, <2>7 DEF Part
<1>6. CASE UNCHANGED JsonVars
  BY <1>6 DEF JsonVars, TextInv, Between, Part, Fits, Top
<1> QED
  BY <1>1, <1>2, <1>3, <1>4, <1>5, <1>6 DEF JsonNext

\* Whatever the tree, the path, its depth, the text and the heap: when
\* json_ws_send returns with all memory but its own as it was, the caller has
\* the whole text, and it is that of the value named.
THEOREM NamedTextSent == JsonSpec => []TextOfNamed
<1>1. JsonInit => WalkInv /\ TextInv
  <2> SUFFICES ASSUME JsonInit PROVE TextInv
    BY WalkInit
  <2>1. stage = "idle" /\ pbuf = <<>> /\ printed = <<>>
    BY DEF JsonInit
  <2>2. Part(Top, 0, 0) = <<>> /\ 0 \in Nat
    BY PartIs
  <2> QED
    BY <2>1, <2>2 DEF TextInv, Between
<1>2. WalkInv /\ TextInv /\ [JsonNext]_JsonVars => WalkInv' /\ TextInv'
  BY WalkStepInv, TextStepInv
<1>3. WalkInv /\ TextInv => TextOfNamed
  <2> SUFFICES ASSUME WalkInv, TextInv, stage = "idle"
               PROVE  /\ pbuf = printed
                      /\ Unshadowed /\ <<>> \notin {path[i] : i \in DOMAIN path}
                           /\ Named(path) # NoValue
                         => printed = TextOf(Named(path), Len(printed))
    BY DEF TextOfNamed
  <2>1. PICK n \in Nat : printed = Part(Top, 0, n)
    BY DEF TextInv
  <2>2. Len(printed) = n /\ printed = TextOf(Top, n)
    BY <2>1, PartIs, TextIsPart
  <2>3. pbuf = printed
    BY DEF TextInv
  <2> QED
    BY <2>2, <2>3, WalkToNamed
<1> QED
  BY <1>1, <1>2, <1>3, PTL DEF JsonSpec
=============================================================================
