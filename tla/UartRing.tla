------------------------------ MODULE UartRing -----------------------------
(***************************************************************************)
(* The two byte rings of uart.c (built with UART_BUFF_EN), seen from the   *)
(* memory they are kept in.  The transmit ring is filled a buffer at a     *)
(* time and emptied a byte at a time, the receive ring the other way       *)
(* round, and the four functions wrap in four different ways.              *)
(*                                                                         *)
(* Positions are relative to pUartBuff.  Memory after the ring belongs to  *)
(* others: it holds Other, and a byte there is a byte out of place.  The   *)
(* rings share nothing, so one is modelled, of either kind; what happens   *)
(* between an interrupt and a task is in Uart.                             *)
(***************************************************************************)
EXTENDS Naturals, Sequences

CONSTANTS
  Bytes,
  Other,         \* what memory holds that is not the ring's
  UartBuffSize,  \* UART_TX_BUFFER_SIZE, UART_RX_BUFFER_SIZE
  FifoLen        \* UART_FIFO_LEN

ASSUME RingAssumption ==
  /\ UartBuffSize \in Nat \ {0} /\ FifoLen \in Nat \ {0}
  /\ Other \notin Bytes

VARIABLES
  kind,    \* "tx" or "rx"
  ring,    \* the struct UartBuffer, with the memory it points to
  handed    \* the bytes the last call handed on

RingVars == <<kind, ring, handed>>

Lesser(a, b) == IF a < b THEN a ELSE b

\* The ring and as much again behind it.
Memory == 0 .. 2 * UartBuffSize - 1

Uart_Buf_Init ==
  [mem |-> [i \in Memory |-> Other], pInPos |-> 0, pOutPos |-> 0,
   Space |-> UartBuffSize]

Waiting(r) == UartBuffSize - r.Space

-----------------------------------------------------------------------------

\* os_memcpy of s to pInPos, and pInPos past it, wrapped.
CopyIn(r, s) ==
  [r EXCEPT
     !.mem = [i \in Memory |-> IF i - r.pInPos + 1 \in DOMAIN s /\ i >= r.pInPos
                               THEN s[i - r.pInPos + 1] ELSE r.mem[i]],
     !.pInPos = (r.pInPos + Len(s)) % UartBuffSize,
     !.Space = @ - Len(s)]

\* A buffer in one part or, across the end of the ring, in two.
Uart_Buf_Cpy(r, s) ==
  LET tail_len == UartBuffSize - r.pInPos IN
  IF tail_len >= Len(s) THEN CopyIn(r, s)
  ELSE CopyIn(CopyIn(r, SubSeq(s, 1, tail_len)), SubSeq(s, tail_len + 1, Len(s)))

\* Bytes one at a time, each wrapped.
StoreEach(r, s) ==
  [r EXCEPT
     !.mem = [i \in Memory |->
                LET n == ((i + UartBuffSize - r.pInPos) % UartBuffSize) + 1
                IN  IF i < UartBuffSize /\ n \in DOMAIN s THEN s[n] ELSE r.mem[i]],
     !.pInPos = (r.pInPos + Len(s)) % UartBuffSize,
     !.Space = @ - Len(s)]

\* n bytes read one at a time, each wrapped.
TakeEach(r, n) == [i \in 1 .. n |-> r.mem[(r.pOutPos + i - 1) % UartBuffSize]]

\* n bytes read by one os_memcpy.
CopyOut(r, n) == [i \in 1 .. n |-> r.mem[r.pOutPos + i - 1]]

\* pOutPos past n bytes.
Release(r, n) ==
  [r EXCEPT !.pOutPos = (r.pOutPos + n) % UartBuffSize, !.Space = @ + n]

\* ... and not wrapped, in the one case that has no %.
ReleaseStraight(r, n) == [r EXCEPT !.pOutPos = r.pOutPos + n, !.Space = @ + n]

-----------------------------------------------------------------------------

RingInit ==
  /\ kind \in {"tx", "rx"} /\ ring = Uart_Buf_Init /\ handed = <<>>

\* Buffers that callers pass, and bursts in the receive FIFO.
Buffers == UNION {[1 .. n -> Bytes] : n \in 0 .. FifoLen}

\* uart_init allocates new rings and forgets the old.
NewRing == ring' = Uart_Buf_Init /\ handed' = <<>>

\* tx_buff_enq: all of the buffer or nothing.
EnqueueTx(s) ==
  /\ kind = "tx" /\ Len(s) <= ring.Space
  /\ ring' = Uart_Buf_Cpy(ring, s) /\ handed' = <<>>

\* tx_start_uart_buffer, tx_fifo_insert: as much as a FIFO with count bytes takes.
StartTx(count) ==
  LET len_tmp == Lesser(Waiting(ring), FifoLen - count) IN
  /\ kind = "tx"
  /\ handed' = TakeEach(ring, len_tmp) /\ ring' = Release(ring, len_tmp)

\* Mutant of EnqueueRx: the ring may become full.
EnqueueRx_Full(s) ==
  /\ kind = "rx" /\ Len(s) <= ring.Space
  /\ ring' = StoreEach(ring, s) /\ handed' = <<>>

\* Uart_rx_buff_enq: the FIFO's bytes, if that leaves some space.
EnqueueRx(s) ==
  /\ kind = "rx" /\ Len(s) < ring.Space
  /\ ring' = StoreEach(ring, s) /\ handed' = <<>>

\* rx_buff_deq: at most data_len bytes.
DequeueRx(data_len) ==
  LET len_tmp == Lesser(data_len, Waiting(ring))
      tail_len == UartBuffSize - ring.pOutPos
  IN
  /\ kind = "rx"
  /\ \/ /\ ring.pOutPos <= ring.pInPos
        /\ handed' = CopyOut(ring, len_tmp) /\ ring' = ReleaseStraight(ring, len_tmp)
     \/ /\ ring.pOutPos > ring.pInPos /\ len_tmp > tail_len
        /\ LET rest == Release(ring, tail_len) IN
           /\ handed' = CopyOut(ring, tail_len) \o CopyOut(rest, len_tmp - tail_len)
           /\ ring' = Release(rest, len_tmp - tail_len)
     \/ /\ ring.pOutPos > ring.pInPos /\ len_tmp <= tail_len
        /\ handed' = CopyOut(ring, len_tmp) /\ ring' = Release(ring, len_tmp)

RingNext ==
  /\ UNCHANGED kind
  /\ \/ NewRing
     \/ \E s \in Buffers : EnqueueTx(s) \/ EnqueueRx(s)
     \/ \E count \in 0 .. FifoLen : StartTx(count)
     \/ \E data_len \in 0 .. FifoLen : DequeueRx(data_len)

RingSpec == RingInit /\ [][RingNext]_RingVars

-----------------------------------------------------------------------------

\* The bytes waiting, from pOutPos on.
Contents(r) == TakeEach(r, Waiting(r))

\* Neither ring is read or written past its end,
InBounds ==
  /\ \A i \in Memory : i >= UartBuffSize => ring.mem[i] = Other
  /\ ring.pInPos < UartBuffSize /\ ring.pOutPos < UartBuffSize

\* and Space tells how far apart the positions are.
SpaceTold ==
  /\ ring.Space \in 0 .. UartBuffSize
  /\ ring.pInPos = (ring.pOutPos + Waiting(ring)) % UartBuffSize

Queue == INSTANCE ByteQueue WITH
           Capacity <- UartBuffSize, queue <- Contents(ring), given <- handed

\* Both rings are queues: nothing is lost, repeated, reordered or read from
\* memory that is not theirs.
RingIsQueue == Queue!Spec /\ [](InBounds /\ SpaceTold)
=============================================================================
