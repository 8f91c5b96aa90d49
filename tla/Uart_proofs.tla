---------------------------- MODULE Uart_proofs -----------------------------
(***************************************************************************)
(* The UART: its driver, tasks and rings for any sizes of the FIFOs and the *)
(* rings; the ring as a queue; the line's settings for every call.         *)
(***************************************************************************)
EXTENDS Uart, UartRing, UartLine, SequenceTheorems, TLAPS

-----------------------------------------------------------------------------
(* The driver, its interrupt handler and its task.                         *)

Places ==
  {"idle", "rings", "char", "put", "mask", "copy", "space", "unmask", "txon", "rxread",
   "enable", "rxon", "rxoff", "finish", "config", "errors", "clear", "cleared", "others",
   "second", "set"}

\* How much the task has to pass on, at every place.
LenOK ==
  /\ pc \in {"idle", "rings", "enable", "unmask", "txon", "rxon", "rxoff", "config", "errors",
             "clear", "cleared", "others", "second", "set"} => len = 0
  /\ pc \in {"char", "put", "mask", "copy", "space"} => len \in 0 .. MaxLen
  /\ pc = "put" => len > 0
  /\ pc \in {"rxread", "finish"} => len \in 0 .. FIFO_LEN

\* Who has rings.
RingsOK ==
  /\ pc = "rxread" => rxSpace # NULL
  /\ pc \in {"rings", "mask", "copy", "space", "unmask"} => buffEn
  /\ ~buffEn => txSpace = NULL

Bounded ==
  /\ UartTypeOK /\ LenOK /\ RingsOK
  /\ pc \in Places /\ owed \in Nat /\ deaf \in BOOLEAN /\ moved \in BOOLEAN

\* While the task changes the transmit ring the handler cannot.
Masked ==
  /\ pc \in {"copy", "space", "unmask"} => "TXFIFO_EMPTY" \notin ena
  /\ pc = "space" => txSpace # NULL /\ seen = {txSpace} /\ len <= txSpace

\* Nothing is owed to a ring that is not there.
Owes == txSpace = NULL => owed = 0

\* The mask the task has read, and will write back, is one it may: the handler
\* adds nothing to the mask that is not already in it, and what it takes away
\* does no harm when it comes back.
SeenGood ==
  /\ pc \in {"mask", "rxon", "rxoff", "txon", "errors", "others", "set"} =>
       /\ seen \subseteq Interrupts
       /\ ~deaf => Receive \subseteq seen
  /\ /\ pc \in {"rxon", "rxoff", "errors", "others", "set"}
     /\ txSpace # NULL /\ txSpace < BUFFER_SIZE
     => "TXFIFO_EMPTY" \in seen

\* On its way through uart_config the task has enabled one receive interrupt, or
\* is about to, and then both.
Enabling ==
  /\ pc = "errors" => "RXFIFO_TOUT" \in seen
  /\ pc \in {"clear", "cleared"} => "RXFIFO_TOUT" \in ena
  /\ pc = "others" => Receive \subseteq seen

\* Room seen is still there, but on UART0 with a ring to fill it.
RoomLasts == pc = "put" /\ ~(buffEn /\ port = 0) => tx[port] < FIFO_LEN

\* An empty FIFO seen is still empty, unless the handler has filled it.
EmptyLasts == pc = "finish" /\ len = 0 => tx[0] = 0 \/ moved

UartInv ==
  /\ Bounded /\ Masked /\ Owes /\ SpaceExact /\ SeenGood /\ TxArmed /\ NeverDeaf
  /\ Enabling /\ RxNeverFull /\ RoomLasts /\ EmptyLasts

-----------------------------------------------------------------------------

\* Before uart_init no interrupt is enabled and there are no rings.
LEMMA UartInitInv == UartInit => UartInv
<1> SUFFICES ASSUME UartInit PROVE UartInv
  OBVIOUS
<1>1. Bounded
  <2> USE UartAssumption DEF UartInit, NULL, UARTs
  <2>1. UartTypeOK
    <3>1. tx \in [UARTs -> 0 .. FIFO_LEN] /\ rx \in 0 .. FIFO_LEN /\ port \in UARTs
      OBVIOUS
    <3>2. txSpace \in NULL .. BUFFER_SIZE /\ rxSpace \in NULL .. BUFFER_SIZE
      OBVIOUS
    <3> QED
      BY <3>1, <3>2 DEF UartTypeOK
  <2>2. LenOK /\ RingsOK
    BY DEF LenOK, RingsOK
  <2> QED
    BY <2>1, <2>2 DEF Bounded, Places
<1>2. Masked /\ Owes /\ SpaceExact /\ SeenGood /\ TxArmed /\ NeverDeaf /\ RxNeverFull
        /\ Enabling /\ RoomLasts /\ EmptyLasts
  BY DEF UartInit, Enabling, RoomLasts, EmptyLasts, Masked, Owes, SpaceExact, SeenGood, TxArmed,
     NeverDeaf, RxNeverFull, NULL
<1> QED
  BY <1>1, <1>2 DEF UartInv

\* The hardware moves bytes and latches interrupts.
LEMMA OutsideInv ==
  ASSUME UartInv, NEW u \in UARTs,
         Arrive \/ Raise \/ Transmit(u)
  PROVE  UartInv'
<1> USE UartAssumption
    DEF UartInv, NULL, registers, fifos, rings, task, history, Goto, Return, UARTs, Interrupts,
     Receive, Arrive, Raise, Transmit
<1>1. Bounded'
  <2>1. UartTypeOK'
    <3>1. buffEn' \in Builds
      BY DEF Bounded, UartTypeOK
    <3>2. ena' \subseteq Interrupts /\ raised' \subseteq Interrupts
      BY DEF Bounded, UartTypeOK
    <3>3. tx' \in [UARTs -> 0 .. FIFO_LEN] /\ rx' \in 0 .. FIFO_LEN
      BY DEF Bounded, UartTypeOK
    <3>4. txSpace' \in NULL .. BUFFER_SIZE /\ rxSpace' \in NULL .. BUFFER_SIZE
      BY DEF Bounded, UartTypeOK
    <3>5. port' \in UARTs /\ len' \in 0 .. FIFO_LEN + BUFFER_SIZE
      BY DEF Bounded, UartTypeOK, LenOK
    <3> QED
      BY <3>1, <3>2, <3>3, <3>4, <3>5 DEF UartTypeOK
  <2>2. LenOK'
    BY DEF Bounded, UartTypeOK, LenOK
  <2>3. RingsOK'
    BY DEF Bounded, RingsOK
  <2>4. pc' \in Places /\ owed' \in Nat
    BY DEF Bounded, Places
  <2>5. deaf' \in BOOLEAN /\ moved' \in BOOLEAN
    BY DEF Bounded
  <2> QED
    BY <2>1, <2>2, <2>3, <2>4, <2>5 DEF Bounded
<1>2. Masked'
  BY DEF Masked
<1>3. Owes'
  BY DEF Owes
<1>4. SpaceExact'
  BY DEF SpaceExact
<1>5. SeenGood'
  BY DEF SeenGood, NeverDeaf, TxArmed, InEnqueue
<1>6. TxArmed'
  BY DEF TxArmed, InEnqueue
<1>7. NeverDeaf'
  BY DEF NeverDeaf
<1>8. RxNeverFull'
  BY DEF RxNeverFull
<1>9. RoomLasts'
  BY DEF RoomLasts, Bounded, UartTypeOK, LenOK, RingsOK, Places
<1>10. EmptyLasts'
  BY DEF EmptyLasts, Bounded, UartTypeOK, LenOK, RingsOK, Places
<1>11. Enabling'
  BY DEF Enabling
<1> QED
  BY <1>1, <1>2, <1>3, <1>4, <1>5, <1>6, <1>7, <1>8, <1>9, <1>10, <1>11

\* The handler prints on UART1, or discards what was received.
LEMMA HandledInv ==
  ASSUME UartInv, FrameError \/ Discard \/ Overflow
  PROVE  UartInv'
<1> USE UartAssumption
    DEF UartInv, NULL, registers, fifos, rings, task, history, Goto, Return, UARTs, Interrupts,
     Receive, FrameError, Discard, Overflow, Debug, HasRoom
<1>1. Bounded'
  <2>1. UartTypeOK'
    <3>1. buffEn' \in Builds
      BY DEF Bounded, UartTypeOK
    <3>2. ena' \subseteq Interrupts /\ raised' \subseteq Interrupts
      BY DEF Bounded, UartTypeOK
    <3>3. tx' \in [UARTs -> 0 .. FIFO_LEN] /\ rx' \in 0 .. FIFO_LEN
      BY DEF Bounded, UartTypeOK
    <3>4. txSpace' \in NULL .. BUFFER_SIZE /\ rxSpace' \in NULL .. BUFFER_SIZE
      BY DEF Bounded, UartTypeOK
    <3>5. port' \in UARTs /\ len' \in 0 .. FIFO_LEN + BUFFER_SIZE
      BY DEF Bounded, UartTypeOK, LenOK
    <3> QED
      BY <3>1, <3>2, <3>3, <3>4, <3>5 DEF UartTypeOK
  <2>2. LenOK'
    BY DEF Bounded, UartTypeOK, LenOK
  <2>3. RingsOK'
    BY DEF Bounded, RingsOK
  <2>4. pc' \in Places /\ owed' \in Nat
    BY DEF Bounded, Places
  <2>5. deaf' \in BOOLEAN /\ moved' \in BOOLEAN
    BY DEF Bounded
  <2> QED
    BY <2>1, <2>2, <2>3, <2>4, <2>5 DEF Bounded
<1>2. Masked'
  BY DEF Masked
<1>3. Owes'
  BY DEF Owes
<1>4. SpaceExact'
  BY DEF SpaceExact
<1>5. SeenGood'
  BY DEF SeenGood, NeverDeaf, TxArmed, InEnqueue
<1>6. TxArmed'
  BY DEF TxArmed, InEnqueue
<1>7. NeverDeaf'
  BY DEF NeverDeaf
<1>8. RxNeverFull'
  BY DEF RxNeverFull
<1>9. RoomLasts'
  BY DEF RoomLasts, Bounded, UartTypeOK, LenOK, RingsOK, Places
<1>10. EmptyLasts'
  BY DEF EmptyLasts, Bounded, UartTypeOK, LenOK, RingsOK, Places
<1>11. Enabling'
  BY DEF Enabling
<1> QED
  BY <1>1, <1>2, <1>3, <1>4, <1>5, <1>6, <1>7, <1>8, <1>9, <1>10, <1>11

\* It moves bytes from the ring to the FIFO: not while the task is at the ring.
LEMMA EmptiedInv ==
  ASSUME UartInv, FifoEmpty
  PROVE  UartInv'
<1> USE UartAssumption
    DEF UartInv, NULL, registers, fifos, rings, task, history, Goto, Return, UARTs, Interrupts,
     Receive, FifoEmpty, StartBuffer, Pending, MinOf, Debug, HasRoom
<1>1. Bounded'
  <2>1. UartTypeOK'
    <3>1. buffEn' \in Builds
      BY DEF Bounded, UartTypeOK
    <3>2. ena' \subseteq Interrupts /\ raised' \subseteq Interrupts
      BY DEF Bounded, UartTypeOK
    <3>3. tx' \in [UARTs -> 0 .. FIFO_LEN] /\ rx' \in 0 .. FIFO_LEN
      BY DEF Bounded, UartTypeOK
    <3>4. txSpace' \in NULL .. BUFFER_SIZE /\ rxSpace' \in NULL .. BUFFER_SIZE
      BY DEF Bounded, UartTypeOK
    <3>5. port' \in UARTs /\ len' \in 0 .. FIFO_LEN + BUFFER_SIZE
      BY DEF Bounded, UartTypeOK, LenOK
    <3> QED
      BY <3>1, <3>2, <3>3, <3>4, <3>5 DEF UartTypeOK
  <2>2. LenOK'
    BY DEF Bounded, UartTypeOK, LenOK
  <2>3. RingsOK'
    BY DEF Bounded, RingsOK
  <2>4. pc' \in Places /\ owed' \in Nat
    BY DEF Bounded, UartTypeOK, LenOK, RingsOK, Places, Masked, SpaceExact
  <2>5. deaf' \in BOOLEAN /\ moved' \in BOOLEAN
    BY DEF Bounded
  <2> QED
    BY <2>1, <2>2, <2>3, <2>4, <2>5 DEF Bounded
<1>2. Masked'
  BY DEF Masked
<1>3. Owes'
  BY DEF Owes, Masked, Bounded, UartTypeOK, LenOK, RingsOK, Places
<1>4. SpaceExact'
  BY DEF SpaceExact, Masked, Owes, Bounded, UartTypeOK, LenOK, RingsOK, Places
<1>5. SeenGood'
  BY DEF SeenGood, NeverDeaf, TxArmed, InEnqueue, Bounded, UartTypeOK, LenOK, RingsOK,
     Places
<1>6. TxArmed'
  BY DEF TxArmed, InEnqueue, SeenGood, Masked, Bounded, UartTypeOK, LenOK, RingsOK,
     Places
<1>7. NeverDeaf'
  BY DEF NeverDeaf
<1>8. RxNeverFull'
  BY DEF RxNeverFull
<1>9. RoomLasts'
  BY DEF RoomLasts, Bounded, UartTypeOK, LenOK, RingsOK, Places
<1>10. EmptyLasts'
  BY DEF EmptyLasts
<1>11. Enabling'
  BY DEF Enabling
<1> QED
  BY <1>1, <1>2, <1>3, <1>4, <1>5, <1>6, <1>7, <1>8, <1>9, <1>10, <1>11

\* The UARTs are configured, and get new rings.
LEMMA MadeInv ==
  ASSUME UartInv,
         uart_config \/ ReadMask \/ WriteMask \/ ClearAll \/ uart_init \/ NewRings
  PROVE  UartInv'
<1> USE UartAssumption
    DEF UartInv, NULL, registers, fifos, rings, task, history, Goto, Return, UARTs, Interrupts,
     Receive, uart_config, ReadMask, WriteMask, ClearAll, uart_init, NewRings
<1>1. Bounded'
  <2>1. UartTypeOK'
    <3>1. buffEn' \in Builds
      BY DEF Bounded, UartTypeOK
    <3>2. ena' \subseteq Interrupts /\ raised' \subseteq Interrupts
      BY DEF Bounded, UartTypeOK, SeenGood
    <3>3. tx' \in [UARTs -> 0 .. FIFO_LEN] /\ rx' \in 0 .. FIFO_LEN
      BY DEF Bounded, UartTypeOK
    <3>4. txSpace' \in NULL .. BUFFER_SIZE /\ rxSpace' \in NULL .. BUFFER_SIZE
      BY DEF Bounded, UartTypeOK
    <3>5. port' \in UARTs /\ len' \in 0 .. FIFO_LEN + BUFFER_SIZE
      BY DEF Bounded, UartTypeOK, LenOK
    <3> QED
      BY <3>1, <3>2, <3>3, <3>4, <3>5 DEF UartTypeOK
  <2>2. LenOK'
    BY DEF Bounded, UartTypeOK, LenOK
  <2>3. RingsOK'
    BY DEF Bounded, RingsOK
  <2>4. pc' \in Places /\ owed' \in Nat
    BY DEF Bounded, Places
  <2>5. deaf' \in BOOLEAN /\ moved' \in BOOLEAN
    BY DEF Bounded
  <2> QED
    BY <2>1, <2>2, <2>3, <2>4, <2>5 DEF Bounded
<1>2. Masked'
  BY DEF Masked
<1>3. Owes'
  BY DEF Owes
<1>4. SpaceExact'
  BY DEF SpaceExact
<1>5. SeenGood'
  BY DEF SeenGood, NeverDeaf, TxArmed, InEnqueue, Bounded, UartTypeOK
<1>6. TxArmed'
  BY DEF TxArmed, InEnqueue, SeenGood
<1>7. NeverDeaf'
  BY DEF NeverDeaf, SeenGood, Enabling
<1>8. RxNeverFull'
  BY DEF RxNeverFull
<1>9. RoomLasts'
  BY DEF RoomLasts
<1>10. EmptyLasts'
  BY DEF EmptyLasts
<1>11. Enabling'
  BY DEF Enabling
<1> QED
  BY <1>1, <1>2, <1>3, <1>4, <1>5, <1>6, <1>7, <1>8, <1>9, <1>10, <1>11

\* Characters are written.
LEMMA WrittenInv ==
  ASSUME UartInv, NEW u \in UARTs,
         NEW n \in 1 .. MaxLen,
         WriteChars(u,
         n) \/ CheckRoom \/ PutChar
  PROVE  UartInv'
<1> USE UartAssumption
    DEF UartInv, NULL, registers, fifos, rings, task, history, Goto, Return, UARTs, Interrupts,
     Receive, WriteChars, CheckRoom, PutChar, HasRoom, MinOf
<1>1. Bounded'
  <2>1. UartTypeOK'
    <3>1. buffEn' \in Builds
      BY DEF Bounded, UartTypeOK
    <3>2. ena' \subseteq Interrupts /\ raised' \subseteq Interrupts
      BY DEF Bounded, UartTypeOK
    <3>3. tx' \in [UARTs -> 0 .. FIFO_LEN] /\ rx' \in 0 .. FIFO_LEN
      BY DEF Bounded, UartTypeOK
    <3>4. txSpace' \in NULL .. BUFFER_SIZE /\ rxSpace' \in NULL .. BUFFER_SIZE
      BY DEF Bounded, UartTypeOK
    <3>5. port' \in UARTs /\ len' \in 0 .. FIFO_LEN + BUFFER_SIZE
      BY DEF Bounded, UartTypeOK, LenOK
    <3> QED
      BY <3>1, <3>2, <3>3, <3>4, <3>5 DEF UartTypeOK
  <2>2. LenOK'
    BY DEF Bounded, UartTypeOK, LenOK
  <2>3. RingsOK'
    BY DEF Bounded, RingsOK
  <2>4. pc' \in Places /\ owed' \in Nat
    BY DEF Bounded, Places
  <2>5. deaf' \in BOOLEAN /\ moved' \in BOOLEAN
    BY DEF Bounded
  <2> QED
    BY <2>1, <2>2, <2>3, <2>4, <2>5 DEF Bounded
<1>2. Masked'
  BY DEF Masked
<1>3. Owes'
  BY DEF Owes
<1>4. SpaceExact'
  BY DEF SpaceExact
<1>5. SeenGood'
  BY DEF SeenGood, NeverDeaf, TxArmed, InEnqueue
<1>6. TxArmed'
  BY DEF TxArmed, InEnqueue
<1>7. NeverDeaf'
  BY DEF NeverDeaf
<1>8. RxNeverFull'
  BY DEF RxNeverFull
<1>9. RoomLasts'
  BY DEF RoomLasts, Bounded, UartTypeOK, LenOK, RingsOK, Places
<1>10. EmptyLasts'
  BY DEF EmptyLasts
<1>11. Enabling'
  BY DEF Enabling
<1> QED
  BY <1>1, <1>2, <1>3, <1>4, <1>5, <1>6, <1>7, <1>8, <1>9, <1>10, <1>11

\* A buffer is put into the transmit ring.
LEMMA EnqueuedInv ==
  ASSUME UartInv, NEW n \in 1 .. MaxLen,
         tx_buff_enq(n) \/ Mask \/ StoreSpace \/ Unmask
  PROVE  UartInv'
<1> USE UartAssumption
    DEF UartInv, NULL, registers, fifos, rings, task, history, Goto, Return, UARTs, Interrupts,
     Receive, tx_buff_enq, Mask, StoreSpace, Unmask
<1>1. Bounded'
  <2>1. UartTypeOK'
    <3>1. buffEn' \in Builds
      BY DEF Bounded, UartTypeOK
    <3>2. ena' \subseteq Interrupts /\ raised' \subseteq Interrupts
      BY DEF Bounded, UartTypeOK, SeenGood
    <3>3. tx' \in [UARTs -> 0 .. FIFO_LEN] /\ rx' \in 0 .. FIFO_LEN
      BY DEF Bounded, UartTypeOK
    <3>4. txSpace' \in NULL .. BUFFER_SIZE /\ rxSpace' \in NULL .. BUFFER_SIZE
      BY DEF Bounded, UartTypeOK, LenOK, RingsOK, Masked, SpaceExact
    <3>5. port' \in UARTs /\ len' \in 0 .. FIFO_LEN + BUFFER_SIZE
      BY DEF Bounded, UartTypeOK, LenOK
    <3> QED
      BY <3>1, <3>2, <3>3, <3>4, <3>5 DEF UartTypeOK
  <2>2. LenOK'
    BY DEF Bounded, UartTypeOK, LenOK
  <2>3. RingsOK'
    BY DEF Bounded, RingsOK
  <2>4. pc' \in Places /\ owed' \in Nat
    BY DEF Bounded, Places
  <2>5. deaf' \in BOOLEAN /\ moved' \in BOOLEAN
    BY DEF Bounded
  <2> QED
    BY <2>1, <2>2, <2>3, <2>4, <2>5 DEF Bounded
<1>2. Masked'
  BY DEF Masked
<1>3. Owes'
  BY DEF Owes, Masked, Bounded, UartTypeOK, LenOK, RingsOK, Places
<1>4. SpaceExact'
  BY DEF SpaceExact, Masked, Owes, Bounded, UartTypeOK, LenOK, RingsOK, Places
<1>5. SeenGood'
  BY DEF SeenGood, NeverDeaf, TxArmed, InEnqueue, Bounded, UartTypeOK, LenOK, RingsOK,
     Places
<1>6. TxArmed'
  BY DEF TxArmed, InEnqueue
<1>7. NeverDeaf'
  BY DEF NeverDeaf, SeenGood, Bounded, UartTypeOK, LenOK, RingsOK, Places
<1>8. RxNeverFull'
  BY DEF RxNeverFull
<1>9. RoomLasts'
  BY DEF RoomLasts
<1>10. EmptyLasts'
  BY DEF EmptyLasts
<1>11. Enabling'
  BY DEF Enabling
<1> QED
  BY <1>1, <1>2, <1>3, <1>4, <1>5, <1>6, <1>7, <1>8, <1>9, <1>10, <1>11

\* It is copied.
LEMMA CopiedInv ==
  ASSUME UartInv, Copy
  PROVE  UartInv'
<1> USE UartAssumption
    DEF UartInv, NULL, registers, fifos, rings, task, history, Goto, Return, UARTs, Interrupts,
     Receive, Copy, Debug, HasRoom
<1>1. Bounded'
  <2>1. UartTypeOK'
    <3>1. buffEn' \in Builds
      BY DEF Bounded, UartTypeOK
    <3>2. ena' \subseteq Interrupts /\ raised' \subseteq Interrupts
      BY DEF Bounded, UartTypeOK
    <3>3. tx' \in [UARTs -> 0 .. FIFO_LEN] /\ rx' \in 0 .. FIFO_LEN
      BY DEF Bounded, UartTypeOK
    <3>4. txSpace' \in NULL .. BUFFER_SIZE /\ rxSpace' \in NULL .. BUFFER_SIZE
      BY DEF Bounded, UartTypeOK
    <3>5. port' \in UARTs /\ len' \in 0 .. FIFO_LEN + BUFFER_SIZE
      BY DEF Bounded, UartTypeOK, LenOK
    <3> QED
      BY <3>1, <3>2, <3>3, <3>4, <3>5 DEF UartTypeOK
  <2>2. LenOK'
    BY DEF Bounded, UartTypeOK, LenOK
  <2>3. RingsOK'
    BY DEF Bounded, RingsOK
  <2>4. pc' \in Places /\ owed' \in Nat
    BY DEF Bounded, UartTypeOK, LenOK, RingsOK, Places, Masked, SpaceExact
  <2>5. deaf' \in BOOLEAN /\ moved' \in BOOLEAN
    BY DEF Bounded
  <2> QED
    BY <2>1, <2>2, <2>3, <2>4, <2>5 DEF Bounded
<1>2. Masked'
  BY DEF Masked, Bounded, UartTypeOK, LenOK, RingsOK, Places
<1>3. Owes'
  BY DEF Owes
<1>4. SpaceExact'
  BY DEF SpaceExact, Masked, Owes, Bounded, UartTypeOK, LenOK, RingsOK, Places
<1>5. SeenGood'
  BY DEF SeenGood, NeverDeaf, TxArmed, InEnqueue
<1>6. TxArmed'
  BY DEF TxArmed, InEnqueue
<1>7. NeverDeaf'
  BY DEF NeverDeaf
<1>8. RxNeverFull'
  BY DEF RxNeverFull
<1>9. RoomLasts'
  BY DEF RoomLasts
<1>10. EmptyLasts'
  BY DEF EmptyLasts
<1>11. Enabling'
  BY DEF Enabling
<1> QED
  BY <1>1, <1>2, <1>3, <1>4, <1>5, <1>6, <1>7, <1>8, <1>9, <1>10, <1>11

\* Bytes are put into the receive ring and taken out.
LEMMA ReceivedInv ==
  ASSUME UartInv, NEW n \in 1 .. MaxLen,
         Uart_rx_buff_enq \/ ReadFifo \/ rx_buff_deq(n)
  PROVE  UartInv'
<1> USE UartAssumption
    DEF UartInv, NULL, registers, fifos, rings, task, history, Goto, Return, UARTs, Interrupts,
     Receive, Uart_rx_buff_enq, ReadFifo, rx_buff_deq, EnableIfRoom, MinOf
<1>1. Bounded'
  <2>1. UartTypeOK'
    <3>1. buffEn' \in Builds
      BY DEF Bounded, UartTypeOK
    <3>2. ena' \subseteq Interrupts /\ raised' \subseteq Interrupts
      BY DEF Bounded, UartTypeOK
    <3>3. tx' \in [UARTs -> 0 .. FIFO_LEN] /\ rx' \in 0 .. FIFO_LEN
      BY DEF Bounded, UartTypeOK
    <3>4. txSpace' \in NULL .. BUFFER_SIZE /\ rxSpace' \in NULL .. BUFFER_SIZE
      BY DEF Bounded, UartTypeOK
    <3>5. port' \in UARTs /\ len' \in 0 .. FIFO_LEN + BUFFER_SIZE
      BY DEF Bounded, UartTypeOK, LenOK
    <3> QED
      BY <3>1, <3>2, <3>3, <3>4, <3>5 DEF UartTypeOK
  <2>2. LenOK'
    BY DEF Bounded, UartTypeOK, LenOK
  <2>3. RingsOK'
    BY DEF Bounded, RingsOK
  <2>4. pc' \in Places /\ owed' \in Nat
    BY DEF Bounded, Places
  <2>5. deaf' \in BOOLEAN /\ moved' \in BOOLEAN
    BY DEF Bounded
  <2> QED
    BY <2>1, <2>2, <2>3, <2>4, <2>5 DEF Bounded
<1>2. Masked'
  BY DEF Masked
<1>3. Owes'
  BY DEF Owes
<1>4. SpaceExact'
  BY DEF SpaceExact
<1>5. SeenGood'
  BY DEF SeenGood, NeverDeaf, TxArmed, InEnqueue
<1>6. TxArmed'
  BY DEF TxArmed, InEnqueue
<1>7. NeverDeaf'
  BY DEF NeverDeaf
<1>8. RxNeverFull'
  BY DEF RxNeverFull, Bounded, UartTypeOK, LenOK, RingsOK, Places
<1>9. RoomLasts'
  BY DEF RoomLasts
<1>10. EmptyLasts'
  BY DEF EmptyLasts
<1>11. Enabling'
  BY DEF Enabling
<1> QED
  BY <1>1, <1>2, <1>3, <1>4, <1>5, <1>6, <1>7, <1>8, <1>9, <1>10, <1>11

\* The task reads the mask of interrupts and writes it back.
LEMMA EnabledInv ==
  ASSUME UartInv, NEW place \in {"rxon", "rxoff"}, NEW mask \in SUBSET Interrupts,
         ChangeReceive(place) \/ EnableSeen \/ UART_SetIntrEna(mask) \/ MaskSet
  PROVE  UartInv'
<1> USE UartAssumption
    DEF UartInv, NULL, registers, fifos, rings, task, history, Goto, Return, UARTs, Interrupts,
     Receive, ChangeReceive, EnableSeen, UART_SetIntrEna, MaskSet
<1>1. Bounded'
  <2>1. UartTypeOK'
    <3>1. buffEn' \in Builds
      BY DEF Bounded, UartTypeOK
    <3>2. ena' \subseteq Interrupts /\ raised' \subseteq Interrupts
      BY DEF Bounded, UartTypeOK, SeenGood
    <3>3. tx' \in [UARTs -> 0 .. FIFO_LEN] /\ rx' \in 0 .. FIFO_LEN
      BY DEF Bounded, UartTypeOK
    <3>4. txSpace' \in NULL .. BUFFER_SIZE /\ rxSpace' \in NULL .. BUFFER_SIZE
      BY DEF Bounded, UartTypeOK
    <3>5. port' \in UARTs /\ len' \in 0 .. FIFO_LEN + BUFFER_SIZE
      BY DEF Bounded, UartTypeOK, LenOK
    <3> QED
      BY <3>1, <3>2, <3>3, <3>4, <3>5 DEF UartTypeOK
  <2>2. LenOK'
    BY DEF Bounded, UartTypeOK, LenOK
  <2>3. RingsOK'
    BY DEF Bounded, RingsOK
  <2>4. pc' \in Places /\ owed' \in Nat
    BY DEF Bounded, Places
  <2>5. deaf' \in BOOLEAN /\ moved' \in BOOLEAN
    BY DEF Bounded
  <2> QED
    BY <2>1, <2>2, <2>3, <2>4, <2>5 DEF Bounded
<1>2. Masked'
  BY DEF Masked
<1>3. Owes'
  BY DEF Owes
<1>4. SpaceExact'
  BY DEF SpaceExact
<1>5. SeenGood'
  BY DEF SeenGood, NeverDeaf, TxArmed, InEnqueue, Bounded, UartTypeOK, LenOK, RingsOK,
     Places
<1>6. TxArmed'
  BY DEF TxArmed, InEnqueue, SeenGood, Masked, Bounded, UartTypeOK, LenOK, RingsOK,
     Places
<1>7. NeverDeaf'
  BY DEF NeverDeaf, SeenGood, Bounded, UartTypeOK, LenOK, RingsOK, Places
<1>8. RxNeverFull'
  BY DEF RxNeverFull
<1>9. RoomLasts'
  BY DEF RoomLasts
<1>10. EmptyLasts'
  BY DEF EmptyLasts
<1>11. Enabling'
  BY DEF Enabling
<1> QED
  BY <1>1, <1>2, <1>3, <1>4, <1>5, <1>6, <1>7, <1>8, <1>9, <1>10, <1>11

\* The application resets FIFOs and clears interrupts.
LEMMA ResetInv ==
  ASSUME UartInv, NEW u \in UARTs,
         NEW mask,
         UART_ClearIntrStatus(mask) \/ UART_ResetFifo(u)
  PROVE  UartInv'
<1> USE UartAssumption
    DEF UartInv, NULL, registers, fifos, rings, task, history, Goto, Return, UARTs, Interrupts,
     Receive, UART_ClearIntrStatus, UART_ResetFifo
<1>1. Bounded'
  <2>1. UartTypeOK'
    <3>1. buffEn' \in Builds
      BY DEF Bounded, UartTypeOK
    <3>2. ena' \subseteq Interrupts /\ raised' \subseteq Interrupts
      BY DEF Bounded, UartTypeOK
    <3>3. tx' \in [UARTs -> 0 .. FIFO_LEN] /\ rx' \in 0 .. FIFO_LEN
      BY DEF Bounded, UartTypeOK
    <3>4. txSpace' \in NULL .. BUFFER_SIZE /\ rxSpace' \in NULL .. BUFFER_SIZE
      BY DEF Bounded, UartTypeOK
    <3>5. port' \in UARTs /\ len' \in 0 .. FIFO_LEN + BUFFER_SIZE
      BY DEF Bounded, UartTypeOK, LenOK
    <3> QED
      BY <3>1, <3>2, <3>3, <3>4, <3>5 DEF UartTypeOK
  <2>2. LenOK'
    BY DEF Bounded, UartTypeOK, LenOK
  <2>3. RingsOK'
    BY DEF Bounded, RingsOK
  <2>4. pc' \in Places /\ owed' \in Nat
    BY DEF Bounded, Places
  <2>5. deaf' \in BOOLEAN /\ moved' \in BOOLEAN
    BY DEF Bounded
  <2> QED
    BY <2>1, <2>2, <2>3, <2>4, <2>5 DEF Bounded
<1>2. Masked'
  BY DEF Masked
<1>3. Owes'
  BY DEF Owes
<1>4. SpaceExact'
  BY DEF SpaceExact
<1>5. SeenGood'
  BY DEF SeenGood, NeverDeaf, TxArmed, InEnqueue
<1>6. TxArmed'
  BY DEF TxArmed, InEnqueue
<1>7. NeverDeaf'
  BY DEF NeverDeaf
<1>8. RxNeverFull'
  BY DEF RxNeverFull
<1>9. RoomLasts'
  BY DEF RoomLasts
<1>10. EmptyLasts'
  BY DEF EmptyLasts
<1>11. Enabling'
  BY DEF Enabling
<1> QED
  BY <1>1, <1>2, <1>3, <1>4, <1>5, <1>6, <1>7, <1>8, <1>9, <1>10, <1>11

\* It asks whether output is finished.
LEMMA AskedInv ==
  ASSUME UartInv, CheckFifo \/ Finished \/ NotFinished
  PROVE  UartInv'
<1> USE UartAssumption
    DEF UartInv, NULL, registers, fifos, rings, task, history, Goto, Return, UARTs, Interrupts,
     Receive, CheckFifo, Finished, NotFinished
<1>1. Bounded'
  <2>1. UartTypeOK'
    <3>1. buffEn' \in Builds
      BY DEF Bounded, UartTypeOK
    <3>2. ena' \subseteq Interrupts /\ raised' \subseteq Interrupts
      BY DEF Bounded, UartTypeOK
    <3>3. tx' \in [UARTs -> 0 .. FIFO_LEN] /\ rx' \in 0 .. FIFO_LEN
      BY DEF Bounded, UartTypeOK
    <3>4. txSpace' \in NULL .. BUFFER_SIZE /\ rxSpace' \in NULL .. BUFFER_SIZE
      BY DEF Bounded, UartTypeOK
    <3>5. port' \in UARTs /\ len' \in 0 .. FIFO_LEN + BUFFER_SIZE
      BY DEF Bounded, UartTypeOK, LenOK
    <3> QED
      BY <3>1, <3>2, <3>3, <3>4, <3>5 DEF UartTypeOK
  <2>2. LenOK'
    BY DEF Bounded, UartTypeOK, LenOK
  <2>3. RingsOK'
    BY DEF Bounded, RingsOK
  <2>4. pc' \in Places /\ owed' \in Nat
    BY DEF Bounded, Places
  <2>5. deaf' \in BOOLEAN /\ moved' \in BOOLEAN
    BY DEF Bounded
  <2> QED
    BY <2>1, <2>2, <2>3, <2>4, <2>5 DEF Bounded
<1>2. Masked'
  BY DEF Masked
<1>3. Owes'
  BY DEF Owes
<1>4. SpaceExact'
  BY DEF SpaceExact
<1>5. SeenGood'
  BY DEF SeenGood, NeverDeaf, TxArmed, InEnqueue
<1>6. TxArmed'
  BY DEF TxArmed, InEnqueue
<1>7. NeverDeaf'
  BY DEF NeverDeaf
<1>8. RxNeverFull'
  BY DEF RxNeverFull
<1>9. RoomLasts'
  BY DEF RoomLasts
<1>10. EmptyLasts'
  BY DEF EmptyLasts
<1>11. Enabling'
  BY DEF Enabling
<1> QED
  BY <1>1, <1>2, <1>3, <1>4, <1>5, <1>6, <1>7, <1>8, <1>9, <1>10, <1>11

\* Every step of the task, the handler and the wire keeps the invariant.
LEMMA UartStepInv == UartInv /\ [UartNext]_UartVars => UartInv'
<1> SUFFICES ASSUME UartInv, [UartNext]_UartVars PROVE UartInv'
  OBVIOUS
<1>1. CASE Arrive \/ Raise \/ \E u \in UARTs : Transmit(u)
  BY <1>1, OutsideInv DEF UARTs
<1>2. CASE uart0_rx_intr_handler
  BY <1>2, HandledInv, EmptiedInv DEF uart0_rx_intr_handler
<1>3. CASE Call
  <2>1. CASE uart_config
    BY <2>1, MadeInv
  <2>2. CASE Uart_rx_buff_enq \/ \E n \in 1 .. MaxLen : tx_buff_enq(n) \/ rx_buff_deq(n)
    BY <2>2, EnqueuedInv, ReceivedInv, UartAssumption
  <2>3. CASE \E u \in UARTs, n \in 1 .. MaxLen : WriteChars(u, n)
    BY <2>3, WrittenInv
  <2>4. CASE \/ \E mask \in Masks : UART_SetIntrEna(mask)
             \/ \E place \in {"rxon", "rxoff"} : ChangeReceive(place)
    <3>1. "rxon" \in {"rxon", "rxoff"} /\ {} \in SUBSET Interrupts
      OBVIOUS
    <3> QED
      BY <2>4, <3>1, MaskAssumption, EnabledInv
  <2>5. CASE \E mask \in SUBSET {"FRM_ERR", "RXFIFO_TOUT", "RXFIFO_OVF"} :
               UART_ClearIntrStatus(mask)
    BY <2>5, ResetInv DEF UARTs
  <2>6. CASE \E u \in UARTs : UART_ResetFifo(u)
    BY <2>6, ResetInv
  <2>7. CASE CheckFifo
    BY <2>7, AskedInv
  <2> QED
    BY <1>3, <2>1, <2>2, <2>3, <2>4, <2>5, <2>6, <2>7 DEF Call
<1>4. CASE Continue
  <2>1. 1 \in 1 .. MaxLen /\ {} \in SUBSET Interrupts
    BY UartAssumption
  <2> QED
    BY <1>4, <2>1, MadeInv, WrittenInv, EnqueuedInv, CopiedInv, ReceivedInv, EnabledInv, AskedInv
    DEF Continue, UARTs
<1>5. CASE UNCHANGED UartVars
  BY <1>5 DEF UartVars, registers, fifos, rings, task, history, UartInv, Bounded, UartTypeOK,
     LenOK, RingsOK, Masked, Owes, SpaceExact, SeenGood, TxArmed, InEnqueue, NeverDeaf,
     Enabling, RxNeverFull, RoomLasts, EmptyLasts
<1> QED
  BY <1>1, <1>2, <1>3, <1>4, <1>5 DEF UartNext

\* The invariant holds for ever.
LEMMA UartInvariant == UartSpec => []UartInv
<1> QED
  BY UartInitInv, UartStepInv, PTL DEF UartSpec

-----------------------------------------------------------------------------

\* FIFOs and rings hold no more than they can, and Space is never negative
\* (uart.c:235-257, 558-660).
THEOREM UartTypeCorrect == UartSpec => []UartTypeOK
<1>1. UartInv => UartTypeOK
  BY DEF UartInv, Bounded
<1> QED
  BY <1>1, UartInvariant, PTL

\* Whatever the handler does between the steps of tx_buff_enq, the interrupt
\* that empties the transmit ring is on when there is something in it
\* (uart.c:587-660).
THEOREM TxRingArmed == UartSpec => []TxArmed
<1>1. UartInv => TxArmed
  BY DEF UartInv
<1> QED
  BY <1>1, UartInvariant, PTL

\* Masking the interrupt makes the update of Space atomic (uart.c:587-614).
THEOREM SpaceAccounted == UartSpec => []SpaceExact
<1>1. UartInv => SpaceExact
  BY DEF UartInv
<1> QED
  BY <1>1, UartInvariant, PTL

\* The handler and the task, each of which reads and writes back the mask,
\* never leave reception off (uart.c:245-277, 520-583, 665-681).
THEOREM ReceptionGoesOn == UartSpec => []NeverDeaf
<1>1. UartInv => NeverDeaf
  BY DEF UartInv
<1> QED
  BY <1>1, UartInvariant, PTL

\* The receive ring always has some space left (uart.c:558-583).
THEOREM RxRingNeverFull == UartSpec => []RxNeverFull
<1>1. UartInv => RxNeverFull
  BY DEF UartInv, Bounded
<1> QED
  BY <1>1, UartInvariant, PTL

\* A character finds room in the FIFO, but on UART0 when a ring is emptied into
\* it too (uart.c:111-121, 639-660).
THEOREM CharactersKept == UartSpec => CharsKept
<1>1. UartInv => [PutChar => tx[port] < FIFO_LEN \/ (buffEn /\ port = 0)]_UartVars
  BY DEF UartInv, RoomLasts, PutChar
<1> QED
  BY <1>1, UartInvariant, PTL DEF CharsKept

\* UART_CheckOutputFinished tells the truth (uart.c:765-787).
THEOREM FinishedTruly == UartSpec => FinishedIsFinished
<1>1. ASSUME UartInv, Finished
      PROVE  (txSpace # NULL => owed = 0) /\ (tx[0] = 0 \/ moved)
  <2>1. tx[0] = 0 \/ moved
    BY <1>1 DEF UartInv, EmptyLasts, Finished
  <2>2. ASSUME txSpace # NULL PROVE owed = 0
    BY <1>1, <2>2, UartAssumption DEF UartInv, Bounded, SpaceExact, Finished
  <2> QED
    BY <2>1, <2>2
<1>2. UartInv =>
        [Finished => /\ txSpace # NULL => owed = 0
                     /\ tx[0] = 0 \/ moved]_UartVars
  BY <1>1
<1> QED
  BY <1>2, UartInvariant, PTL DEF FinishedIsFinished

-----------------------------------------------------------------------------
(* The rings.                                                              *)

\* A position past the end of the ring, wrapped.
Wrap(x) == IF x < UartBuffSize THEN x ELSE x - UartBuffSize

RingType ==
  [mem : [Memory -> Bytes \cup {Other}], pInPos : 0 .. UartBuffSize - 1,
   pOutPos : 0 .. UartBuffSize - 1, Space : 0 .. UartBuffSize]

\* Where the i-th byte waiting is.
Slot(r, i) == Wrap(r.pOutPos + i - 1)

Sound(r) ==
  /\ r \in RingType
  /\ r.pInPos = Wrap(r.pOutPos + Waiting(r))
  /\ \A i \in Memory : i >= UartBuffSize => r.mem[i] = Other
  /\ \A i \in 1 .. Waiting(r) : r.mem[Slot(r, i)] \in Bytes

\* The receive ring is never filled: with pOutPos = pInPos it is empty.
RingInv == kind \in {"tx", "rx"} /\ Sound(ring) /\ (kind = "rx" => ring.Space > 0)

\* s has been added to r, and q is the result.
Stored(r, s, q) ==
  /\ q \in RingType
  /\ q.pOutPos = r.pOutPos /\ q.Space = r.Space - Len(s) /\ q.pInPos = Wrap(r.pInPos + Len(s))
  /\ \A i \in Memory : i >= UartBuffSize => q.mem[i] = Other
  /\ \A i \in 1 .. Waiting(r) : q.mem[Slot(r, i)] = r.mem[Slot(r, i)]
  /\ \A j \in 1 .. Len(s) : q.mem[Slot(r, Waiting(r) + j)] = s[j]

\* The first n bytes have been taken from r, and q is the result.
Taken(r, n, q) ==
  /\ q \in RingType
  /\ q.pOutPos = Wrap(r.pOutPos + n) /\ q.Space = r.Space + n /\ q.pInPos = r.pInPos
  /\ q.mem = r.mem

-----------------------------------------------------------------------------

\* Positions go at most once past the end.
LEMMA Wrapped ==
  ASSUME NEW x \in 0 .. 2 * UartBuffSize - 1
  PROVE  x % UartBuffSize = Wrap(x) /\ Wrap(x) \in 0 .. UartBuffSize - 1
BY RingAssumption DEF Wrap

\* Where the bytes waiting are, and where those that come next will be.
LEMMA SlotsOf ==
  ASSUME NEW r, Sound(r)
  PROVE  /\ \A i \in 1 .. Waiting(r) :
              /\ Slot(r, i) \in 0 .. UartBuffSize - 1
              /\ Slot(r, i) < r.pInPos \/ Slot(r, i) >= r.pInPos + r.Space
              /\ Wrap(Slot(r, i) + UartBuffSize - r.pInPos) \in r.Space .. UartBuffSize
         /\ \A j \in 1 .. r.Space :
              /\ Slot(r, Waiting(r) + j) = Wrap(r.pInPos + j - 1)
              /\ Slot(r, Waiting(r) + j) \in 0 .. UartBuffSize - 1
              /\ Wrap(Slot(r, Waiting(r) + j) + UartBuffSize - r.pInPos) = j - 1
<1> DEFINE out == r.pOutPos
           in == r.pInPos
           space == r.Space
           w == Waiting(r)
<1>1. /\ out \in 0 .. UartBuffSize - 1 /\ in \in 0 .. UartBuffSize - 1
      /\ space \in 0 .. UartBuffSize /\ w = UartBuffSize - space /\ in = Wrap(out + w)
      /\ UartBuffSize \in Nat \ {0}
  BY RingAssumption DEF Sound, RingType, Waiting
<1> HIDE DEF out, in, space, w
<1>2. \A i \in 1 .. w :
        /\ Wrap(out + i - 1) \in 0 .. UartBuffSize - 1
        /\ Wrap(out + i - 1) < in \/ Wrap(out + i - 1) >= in + space
        /\ Wrap(Wrap(out + i - 1) + UartBuffSize - in) \in space .. UartBuffSize
  BY <1>1 DEF Wrap
<1>3. \A j \in 1 .. space :
        /\ Wrap(out + (w + j) - 1) = Wrap(in + j - 1)
        /\ Wrap(out + (w + j) - 1) \in 0 .. UartBuffSize - 1
        /\ Wrap(Wrap(out + (w + j) - 1) + UartBuffSize - in) = j - 1
  BY <1>1 DEF Wrap
<1> QED
  BY <1>2, <1>3, Zenon DEF out, in, space, w, Slot

\* What waits in a sound ring.
LEMMA ContentsAre ==
  ASSUME NEW r, Sound(r)
  PROVE  /\ Waiting(r) \in 0 .. UartBuffSize
         /\ Contents(r) = [i \in 1 .. Waiting(r) |-> r.mem[Slot(r, i)]]
         /\ Contents(r) \in Seq(Bytes) /\ Len(Contents(r)) = Waiting(r)
<1>1. Waiting(r) \in 0 .. UartBuffSize /\ r.pOutPos \in 0 .. UartBuffSize - 1
  BY RingAssumption DEF Sound, RingType, Waiting
<1>2. ASSUME NEW i \in 1 .. Waiting(r)
      PROVE  (r.pOutPos + i - 1) % UartBuffSize = Slot(r, i)
  BY <1>1, Wrapped, RingAssumption DEF Slot
<1>3. Contents(r) = [i \in 1 .. Waiting(r) |-> r.mem[Slot(r, i)]]
  BY <1>2 DEF Contents, TakeEach
<1>4. \A i \in 1 .. Waiting(r) : r.mem[Slot(r, i)] \in Bytes
  BY DEF Sound
<1> QED
  BY <1>1, <1>3, <1>4, RingAssumption

\* The buffers are sequences of bytes.
LEMMA BuffersAre ==
  ASSUME NEW s \in Buffers
  PROVE  s \in Seq(Bytes) /\ Len(s) \in Nat
<1>1. PICK n \in 0 .. FifoLen : s \in [1 .. n -> Bytes]
  BY DEF Buffers
<1> QED
  BY <1>1

\* What is added comes after what waits.
LEMMA StoredPuts ==
  ASSUME NEW r, Sound(r), NEW s \in Seq(Bytes), Len(s) <= r.Space, NEW q, Stored(r, s, q)
  PROVE  Sound(q) /\ Contents(q) = Contents(r) \o s
<1>1. /\ Waiting(r) \in 0 .. UartBuffSize /\ r.pOutPos \in 0 .. UartBuffSize - 1
      /\ Waiting(q) = Waiting(r) + Len(s) /\ Waiting(q) \in 0 .. UartBuffSize
      /\ Len(s) \in Nat /\ q.pOutPos = r.pOutPos /\ UartBuffSize \in Nat \ {0}
  BY RingAssumption DEF Sound, RingType, Waiting, Stored
<1>2. ASSUME NEW i \in 1 .. Waiting(q)
      PROVE  q.mem[Slot(q, i)] = IF i <= Waiting(r) THEN r.mem[Slot(r, i)] ELSE s[i - Waiting(r)]
  <2>1. Slot(q, i) = Slot(r, i)
    BY <1>1 DEF Slot
  <2>2. CASE i <= Waiting(r)
    BY <1>1, <2>1, <2>2 DEF Stored
  <2>3. CASE i > Waiting(r)
    <3>1. i - Waiting(r) \in 1 .. Len(s) /\ Waiting(r) + (i - Waiting(r)) = i
      BY <1>1, <2>3
    <3> QED
      BY <1>1, <2>1, <2>3, <3>1 DEF Stored
  <2> QED
    BY <1>1, <2>2, <2>3
<1>3. ASSUME NEW i \in 1 .. Waiting(q) PROVE q.mem[Slot(q, i)] \in Bytes
  <2>1. CASE i <= Waiting(r)
    BY <1>1, <1>2, <2>1, SMTT(60) DEF Sound
  <2>2. CASE i > Waiting(r)
    <3>1. i - Waiting(r) \in 1 .. Len(s)
      BY <1>1, <2>2
    <3> QED
      BY <1>1, <1>2, <2>2, <3>1
  <2> QED
    BY <1>1, <2>1, <2>2
<1>4. q.pInPos = Wrap(q.pOutPos + Waiting(q))
  BY <1>1 DEF Sound, Stored, Wrap
<1>5. Sound(q)
  BY <1>3, <1>4 DEF Sound, Stored
<1>6. Contents(q) = [i \in 1 .. Waiting(q) |-> q.mem[Slot(q, i)]]
  BY <1>5, ContentsAre
<1>7. /\ Contents(r) = [i \in 1 .. Waiting(r) |-> r.mem[Slot(r, i)]]
      /\ Contents(r) \in Seq(Bytes) /\ Len(Contents(r)) = Waiting(r)
  BY ContentsAre
<1>8. Contents(r) \o s
        = [i \in 1 .. Waiting(q) |-> IF i <= Waiting(r) THEN r.mem[Slot(r, i)] ELSE s[i - Waiting(r)]]
  BY <1>1, <1>7
<1> QED
  BY <1>2, <1>5, <1>6, <1>8

\* What is taken comes from the front of what waits.
LEMMA TakenGets ==
  ASSUME NEW r, Sound(r), NEW n \in 0 .. Waiting(r), NEW q, Taken(r, n, q)
  PROVE  /\ Sound(q)
         /\ Contents(q) = SubSeq(Contents(r), n + 1, Waiting(r))
<1>1. /\ Waiting(r) \in 0 .. UartBuffSize /\ r.pOutPos \in 0 .. UartBuffSize - 1
      /\ Waiting(q) = Waiting(r) - n /\ Waiting(q) \in 0 .. UartBuffSize
      /\ UartBuffSize \in Nat \ {0}
  BY RingAssumption DEF Sound, RingType, Waiting, Taken
<1>2. ASSUME NEW i \in 1 .. Waiting(q)
      PROVE  Slot(q, i) = Slot(r, n + i)
  BY <1>1 DEF Slot, Taken, Wrap
<1>3. \A i \in 1 .. Waiting(q) : n + i \in 1 .. Waiting(r) /\ q.mem[Slot(q, i)] = r.mem[Slot(r, n + i)]
  BY <1>1, <1>2 DEF Taken
<1>4. \A i \in 1 .. Waiting(q) : q.mem[Slot(q, i)] \in Bytes
  BY <1>3 DEF Sound
<1>5. q.pInPos = Wrap(q.pOutPos + Waiting(q))
  BY <1>1 DEF Sound, Taken, Wrap
<1>6. Sound(q)
  BY <1>4, <1>5 DEF Sound, Taken
<1>7. Contents(q) = [i \in 1 .. Waiting(q) |-> q.mem[Slot(q, i)]]
  BY <1>6, ContentsAre
<1>8. /\ Contents(r) = [i \in 1 .. Waiting(r) |-> r.mem[Slot(r, i)]]
      /\ Contents(r) \in Seq(Bytes) /\ Len(Contents(r)) = Waiting(r)
  BY ContentsAre
<1>9. SubSeq(Contents(r), n + 1, Waiting(r)) = [i \in 1 .. Waiting(q) |-> r.mem[Slot(r, n + i)]]
  BY <1>1, <1>8
<1> QED
  BY <1>3, <1>6, <1>7, <1>9

\* os_memcpy, where it does not reach the end.
LEMMA CopyInStores ==
  ASSUME NEW r, Sound(r), NEW s \in Seq(Bytes), Len(s) <= r.Space,
         Len(s) <= UartBuffSize - r.pInPos
  PROVE  Stored(r, s, CopyIn(r, s))
<1> DEFINE q == CopyIn(r, s)
<1>1. /\ Waiting(r) \in 0 .. UartBuffSize /\ r.pOutPos \in 0 .. UartBuffSize - 1
      /\ r.pInPos \in 0 .. UartBuffSize - 1 /\ r.Space \in 0 .. UartBuffSize
      /\ Waiting(r) = UartBuffSize - r.Space /\ r.pInPos = Wrap(r.pOutPos + Waiting(r))
      /\ Len(s) \in Nat /\ UartBuffSize \in Nat \ {0}
      /\ r.mem \in [Memory -> Bytes \cup {Other}] /\ 0 .. UartBuffSize - 1 \subseteq Memory
  BY RingAssumption DEF Sound, RingType, Waiting, Memory
<1>2. /\ q.pOutPos = r.pOutPos /\ q.Space = r.Space - Len(s)
      /\ q.pInPos = (r.pInPos + Len(s)) % UartBuffSize
      /\ q.mem = [i \in Memory |-> IF i - r.pInPos + 1 \in DOMAIN s /\ i >= r.pInPos
                                   THEN s[i - r.pInPos + 1] ELSE r.mem[i]]
  BY DEF CopyIn, Sound, RingType
<1>3. q \in RingType <=> /\ q.mem \in [Memory -> Bytes \cup {Other}]
                        /\ q.pInPos \in 0 .. UartBuffSize - 1
                        /\ q.Space \in 0 .. UartBuffSize
  BY DEF CopyIn, Sound, RingType
<1> HIDE DEF q
<1>4. q.pInPos = Wrap(r.pInPos + Len(s)) /\ q.pInPos \in 0 .. UartBuffSize - 1
  <2>1. r.pInPos + Len(s) \in 0 .. 2 * UartBuffSize - 1
    BY <1>1
  <2> QED
    BY <1>2, <2>1, Wrapped
<1>5. q \in RingType
  <2>1. q.mem \in [Memory -> Bytes \cup {Other}]
    BY <1>1, <1>2
  <2>2. q.Space \in 0 .. UartBuffSize
    BY <1>1, <1>2
  <2> QED
    BY <1>3, <1>4, <2>1, <2>2
<1>6. ASSUME NEW i \in Memory, i >= UartBuffSize PROVE q.mem[i] = Other
  <2>1. r.mem[i] = Other
    BY <1>6 DEF Sound
  <2> QED
    BY <1>1, <1>2, <1>6, <2>1 DEF Memory
<1>7. ASSUME NEW i \in 1 .. Waiting(r) PROVE q.mem[Slot(r, i)] = r.mem[Slot(r, i)]
  <2> DEFINE k == Slot(r, i)
  <2>1. k \in 0 .. UartBuffSize - 1 /\ (k < r.pInPos \/ k >= r.pInPos + r.Space)
    BY <1>1, SlotsOf
  <2> HIDE DEF k
  <2>2. k \in Memory /\ ~(k - r.pInPos + 1 \in 1 .. Len(s) /\ k >= r.pInPos)
    BY <1>1, <2>1
  <2>3. q.mem[k] = r.mem[k]
    BY <1>1, <1>2, <2>2
  <2> QED
    BY <2>3 DEF k
<1>8. ASSUME NEW j \in 1 .. Len(s) PROVE q.mem[Slot(r, Waiting(r) + j)] = s[j]
  <2>1. Slot(r, Waiting(r) + j) = Wrap(r.pInPos + j - 1)
    BY <1>1, SlotsOf
  <2>2. Wrap(r.pInPos + j - 1) = r.pInPos + j - 1
    BY <1>1 DEF Wrap
  <2>3. /\ r.pInPos + j - 1 \in Memory /\ (r.pInPos + j - 1) - r.pInPos + 1 = j
        /\ r.pInPos + j - 1 >= r.pInPos /\ j \in DOMAIN s
    BY <1>1
  <2> QED
    BY <1>2, <2>1, <2>2, <2>3
<1> QED
  BY <1>2, <1>4, <1>5, <1>6, <1>7, <1>8, Zenon DEF Stored, q

\* Bytes stored one by one, each wrapped.
LEMMA StoreEachStores ==
  ASSUME NEW r, Sound(r), NEW s \in Seq(Bytes), Len(s) <= r.Space
  PROVE  Stored(r, s, StoreEach(r, s))
<1> DEFINE q == StoreEach(r, s)
<1>1. /\ Waiting(r) \in 0 .. UartBuffSize /\ r.pOutPos \in 0 .. UartBuffSize - 1
      /\ r.pInPos \in 0 .. UartBuffSize - 1 /\ r.Space \in 0 .. UartBuffSize
      /\ Waiting(r) = UartBuffSize - r.Space /\ r.pInPos = Wrap(r.pOutPos + Waiting(r))
      /\ Len(s) \in Nat /\ UartBuffSize \in Nat \ {0}
      /\ r.mem \in [Memory -> Bytes \cup {Other}] /\ 0 .. UartBuffSize - 1 \subseteq Memory
  BY RingAssumption DEF Sound, RingType, Waiting, Memory
<1>2. /\ q.pOutPos = r.pOutPos /\ q.Space = r.Space - Len(s)
      /\ q.pInPos = (r.pInPos + Len(s)) % UartBuffSize
      /\ q.mem = [i \in Memory |->
                    IF i < UartBuffSize /\ ((i + UartBuffSize - r.pInPos) % UartBuffSize) + 1 \in DOMAIN s
                    THEN s[((i + UartBuffSize - r.pInPos) % UartBuffSize) + 1] ELSE r.mem[i]]
  BY DEF StoreEach, Sound, RingType
<1>3. q \in RingType <=> /\ q.mem \in [Memory -> Bytes \cup {Other}]
                        /\ q.pInPos \in 0 .. UartBuffSize - 1
                        /\ q.Space \in 0 .. UartBuffSize
  BY DEF StoreEach, Sound, RingType
<1> HIDE DEF q
<1>4. q.pInPos = Wrap(r.pInPos + Len(s)) /\ q.pInPos \in 0 .. UartBuffSize - 1
  <2>1. r.pInPos + Len(s) \in 0 .. 2 * UartBuffSize - 1
    BY <1>1
  <2> QED
    BY <1>2, <2>1, Wrapped
<1>5. q \in RingType
  <2>1. q.mem \in [Memory -> Bytes \cup {Other}]
    BY <1>1, <1>2
  <2>2. q.Space \in 0 .. UartBuffSize
    BY <1>1, <1>2
  <2> QED
    BY <1>3, <1>4, <2>1, <2>2
<1>6. ASSUME NEW i \in Memory, i >= UartBuffSize PROVE q.mem[i] = Other
  <2>1. r.mem[i] = Other
    BY <1>6 DEF Sound
  <2> QED
    BY <1>1, <1>2, <1>6, <2>1 DEF Memory
<1> DEFINE n(i) == Wrap(i + UartBuffSize - r.pInPos) + 1
<1>7. ASSUME NEW k \in 0 .. UartBuffSize - 1
      PROVE  q.mem[k] = IF n(k) \in 1 .. Len(s) THEN s[n(k)] ELSE r.mem[k]
  <2>1. k + UartBuffSize - r.pInPos \in 0 .. 2 * UartBuffSize - 1 /\ k \in Memory /\ k < UartBuffSize
    BY <1>1
  <2>2. ((k + UartBuffSize - r.pInPos) % UartBuffSize) + 1 = n(k)
    BY <2>1, Wrapped
  <2> HIDE DEF n
  <2> QED
    BY <1>2, <2>1, <2>2
<1>8. ASSUME NEW i \in 1 .. Waiting(r) PROVE q.mem[Slot(r, i)] = r.mem[Slot(r, i)]
  <2>1. /\ Slot(r, i) \in 0 .. UartBuffSize - 1
        /\ Wrap(Slot(r, i) + UartBuffSize - r.pInPos) \in r.Space .. UartBuffSize
    BY SlotsOf
  <2>2. ~(n(Slot(r, i)) \in 1 .. Len(s))
    BY <1>1, <2>1
  <2> HIDE DEF n
  <2> QED
    BY <1>7, <2>1, <2>2
<1>9. ASSUME NEW j \in 1 .. Len(s) PROVE q.mem[Slot(r, Waiting(r) + j)] = s[j]
  <2>0. j \in 1 .. r.Space
    BY <1>1
  <2>1. /\ Slot(r, Waiting(r) + j) \in 0 .. UartBuffSize - 1
        /\ Wrap(Slot(r, Waiting(r) + j) + UartBuffSize - r.pInPos) = j - 1
    BY <2>0, SlotsOf
  <2>2. n(Slot(r, Waiting(r) + j)) = j
    BY <2>1
  <2> HIDE DEF n
  <2> QED
    BY <1>7, <2>1, <2>2
<1> QED
  BY <1>2, <1>4, <1>5, <1>6, <1>8, <1>9, Zenon DEF Stored, q

\* A buffer copied in one part or two.
LEMMA BufCpyPuts ==
  ASSUME NEW r, Sound(r), NEW s \in Seq(Bytes), Len(s) <= r.Space
  PROVE  /\ Sound(Uart_Buf_Cpy(r, s)) /\ Contents(Uart_Buf_Cpy(r, s)) = Contents(r) \o s
         /\ Uart_Buf_Cpy(r, s).Space = r.Space - Len(s)
<1> DEFINE tail_len == UartBuffSize - r.pInPos
<1>1. /\ r.pInPos \in 0 .. UartBuffSize - 1 /\ r.Space \in 0 .. UartBuffSize
      /\ tail_len \in 1 .. UartBuffSize /\ Len(s) \in Nat /\ UartBuffSize \in Nat \ {0}
  BY RingAssumption DEF Sound, RingType
<1>2. CASE tail_len >= Len(s)
  <2>1. Uart_Buf_Cpy(r, s) = CopyIn(r, s)
    BY <1>2 DEF Uart_Buf_Cpy
  <2>2. Stored(r, s, CopyIn(r, s))
    BY <1>1, <1>2, CopyInStores
  <2> QED
    BY <2>1, <2>2, StoredPuts DEF Stored
<1>3. CASE tail_len < Len(s)
  <2> DEFINE t == SubSeq(s, 1, tail_len)
             u == SubSeq(s, tail_len + 1, Len(s))
             r1 == CopyIn(r, t)
             q == CopyIn(r1, u)
  <2>1. Uart_Buf_Cpy(r, s) = q
    BY <1>1, <1>3 DEF Uart_Buf_Cpy
  <2> HIDE DEF tail_len
  <2>2. /\ t \in Seq(Bytes) /\ Len(t) = tail_len /\ u \in Seq(Bytes)
        /\ Len(u) = Len(s) - tail_len /\ t \o u = s
    BY <1>1, <1>3
  <2> HIDE DEF t, u
  <2>3. Stored(r, t, r1)
    BY <1>1, <1>3, <2>2, CopyInStores, SMTT(60) DEF tail_len
  <2> HIDE DEF r1
  <2>4. Sound(r1) /\ Contents(r1) = Contents(r) \o t
    <3>1. Len(t) <= r.Space
      BY <1>1, <1>3, <2>2
    <3> QED
      BY <2>2, <2>3, <3>1, StoredPuts
  <2>5. r1.Space = r.Space - tail_len /\ r1.pInPos = Wrap(r.pInPos + tail_len)
    BY <2>2, <2>3 DEF Stored
  <2>6. Wrap(r.pInPos + tail_len) = 0
    BY <1>1 DEF Wrap, tail_len
  <2>7. Len(u) <= r1.Space /\ Len(u) <= UartBuffSize - r1.pInPos
    BY <1>1, <1>3, <2>2, <2>5, <2>6
  <2>8. Stored(r1, u, q)
    BY <2>2, <2>4, <2>7, CopyInStores
  <2> HIDE DEF q
  <2>9. Sound(q) /\ Contents(q) = Contents(r1) \o u
    BY <2>2, <2>4, <2>7, <2>8, StoredPuts
  <2>10. q.Space = r.Space - Len(s)
    BY <1>1, <2>2, <2>5, <2>8 DEF Stored
  <2> DEFINE c == Contents(r)
  <2>11. c \in Seq(Bytes) /\ t \in Seq(Bytes) /\ u \in Seq(Bytes)
    BY <2>2, ContentsAre
  <2> HIDE DEF c
  <2>12. (c \o t) \o u = c \o (t \o u)
    BY <2>11, ConcatAssociative
  <2> QED
    BY <2>1, <2>2, <2>4, <2>9, <2>10, <2>12 DEF c
<1> QED
  BY <1>1, <1>2, <1>3

\* Reading without wrapping is right where it does not reach the end.
LEMMA CopyOutIs ==
  ASSUME NEW r, Sound(r), NEW n \in 0 .. Waiting(r), n <= UartBuffSize - r.pOutPos
  PROVE  CopyOut(r, n) = SubSeq(Contents(r), 1, n)
<1>1. /\ Waiting(r) \in 0 .. UartBuffSize /\ Contents(r) \in Seq(Bytes)
      /\ Len(Contents(r)) = Waiting(r)
      /\ Contents(r) = [i \in 1 .. Waiting(r) |-> r.mem[Slot(r, i)]]
  BY ContentsAre
<1>2. r.pOutPos \in 0 .. UartBuffSize - 1 /\ UartBuffSize \in Nat
  BY RingAssumption DEF Sound, RingType
<1>3. \A i \in 1 .. n : i \in 1 .. Waiting(r) /\ Slot(r, i) = r.pOutPos + i - 1
  BY <1>1, <1>2 DEF Slot, Wrap
<1>4. SubSeq(Contents(r), 1, n) = [i \in 1 .. n |-> r.mem[Slot(r, i)]]
  BY <1>1
<1> QED
  BY <1>3, <1>4 DEF CopyOut

\* Reading byte by byte is right everywhere.
LEMMA TakeEachIs ==
  ASSUME NEW r, Sound(r), NEW n \in 0 .. Waiting(r)
  PROVE  TakeEach(r, n) = SubSeq(Contents(r), 1, n)
<1>1. /\ Waiting(r) \in 0 .. UartBuffSize /\ Contents(r) \in Seq(Bytes)
      /\ Len(Contents(r)) = Waiting(r)
      /\ Contents(r) = [i \in 1 .. Waiting(r) |-> r.mem[(r.pOutPos + i - 1) % UartBuffSize]]
  BY ContentsAre DEF Contents, TakeEach
<1>2. SubSeq(Contents(r), 1, n)
        = [i \in 1 .. n |-> r.mem[(r.pOutPos + i - 1) % UartBuffSize]]
  BY <1>1, RingAssumption
<1> QED
  BY <1>2 DEF TakeEach

\* Both ways to move pOutPos on; the one without % does not reach the end.
LEMMA ReleaseTakes ==
  ASSUME NEW r, Sound(r), NEW n \in 0 .. Waiting(r)
  PROVE  /\ Taken(r, n, Release(r, n))
         /\ r.pOutPos + n < UartBuffSize => Taken(r, n, ReleaseStraight(r, n))
<1>1. /\ r \in RingType /\ Waiting(r) = UartBuffSize - r.Space
      /\ r.pOutPos \in 0 .. UartBuffSize - 1 /\ r.Space \in 0 .. UartBuffSize
      /\ UartBuffSize \in Nat \ {0}
  BY RingAssumption DEF Sound, RingType, Waiting
<1>2. /\ r.pOutPos + n \in 0 .. 2 * UartBuffSize - 1 /\ r.Space + n \in 0 .. UartBuffSize
  BY <1>1
<1>3. /\ (r.pOutPos + n) % UartBuffSize = Wrap(r.pOutPos + n)
      /\ Wrap(r.pOutPos + n) \in 0 .. UartBuffSize - 1
  BY <1>2, Wrapped
<1>4. Taken(r, n, Release(r, n))
  BY <1>1, <1>2, <1>3 DEF Release, Taken, RingType
<1>5. ASSUME r.pOutPos + n < UartBuffSize PROVE Taken(r, n, ReleaseStraight(r, n))
  <2>1. Wrap(r.pOutPos + n) = r.pOutPos + n
    BY <1>2, <1>5 DEF Wrap
  <2> QED
    BY <1>1, <1>2, <1>3, <2>1 DEF ReleaseStraight, Taken, RingType
<1> QED
  BY <1>4, <1>5

\* A part of what is left.
LEMMA SubSeqTwice ==
  ASSUME NEW S, NEW c \in Seq(S), NEW a \in 0 .. Len(c), NEW i \in 1 .. Len(c) - a + 1,
         NEW j \in 0 .. Len(c) - a
  PROVE  SubSeq(SubSeq(c, a + 1, Len(c)), i, j) = SubSeq(c, a + i, a + j)
<1> DEFINE d == SubSeq(c, a + 1, Len(c))
<1>1. /\ d \in Seq(S) /\ Len(d) = Len(c) - a /\ Len(c) \in Nat
      /\ \A k \in 1 .. Len(c) - a : d[k] = c[a + k]
  OBVIOUS
<1> HIDE DEF d
<1>2. SubSeq(d, i, j) = [k \in 1 .. j - i + 1 |-> d[i + k - 1]]
  BY <1>1
<1>3. SubSeq(c, a + i, a + j) = [k \in 1 .. j - i + 1 |-> c[a + (i + k - 1)]]
  BY <1>1
<1>4. \A k \in 1 .. j - i + 1 : i + k - 1 \in 1 .. Len(c) - a
  BY <1>1
<1> QED
  BY <1>1, <1>2, <1>3, <1>4 DEF d
\* A part and what follows it.
LEMMA SubSeqJoin ==
  ASSUME NEW S, NEW c \in Seq(S), NEW a \in 0 .. Len(c), NEW n \in a .. Len(c)
  PROVE  SubSeq(c, 1, a) \o SubSeq(c, a + 1, n) = SubSeq(c, 1, n)
OBVIOUS

\* q is r without the n bytes handed on.
GetsFrom(r, n, h, q) ==
  /\ Sound(q) /\ q.Space = r.Space + n
  /\ h = SubSeq(Contents(r), 1, n)
  /\ Contents(q) = SubSeq(Contents(r), n + 1, Waiting(r))

\* tx_fifo_insert takes what waits first.
LEMMA TakeEachGets ==
  ASSUME NEW r, Sound(r), NEW n \in 0 .. Waiting(r)
  PROVE  GetsFrom(r, n, TakeEach(r, n), Release(r, n))
<1>1. Taken(r, n, Release(r, n))
  BY ReleaseTakes
<1>2. Sound(Release(r, n)) /\ Contents(Release(r, n)) = SubSeq(Contents(r), n + 1, Waiting(r))
  BY <1>1, TakenGets
<1>3. TakeEach(r, n) = SubSeq(Contents(r), 1, n)
  BY TakeEachIs
<1> QED
  BY <1>1, <1>2, <1>3, Zenon DEF GetsFrom, Taken

\* rx_buff_deq, with the write position ahead: no wrap is needed.
LEMMA AheadGets ==
  ASSUME NEW r, Sound(r), r.Space > 0, r.pOutPos <= r.pInPos, NEW n \in 0 .. Waiting(r)
  PROVE  GetsFrom(r, n, CopyOut(r, n), ReleaseStraight(r, n))
<1>1. /\ r.pOutPos \in 0 .. UartBuffSize - 1 /\ r.Space \in 0 .. UartBuffSize
      /\ Waiting(r) = UartBuffSize - r.Space /\ r.pInPos = Wrap(r.pOutPos + Waiting(r))
      /\ UartBuffSize \in Nat \ {0}
  BY RingAssumption DEF Sound, RingType, Waiting
<1>2. r.pOutPos + n < UartBuffSize /\ n <= UartBuffSize - r.pOutPos
  BY <1>1 DEF Wrap
<1>3. Taken(r, n, ReleaseStraight(r, n))
  BY <1>2, ReleaseTakes
<1>4. /\ Sound(ReleaseStraight(r, n))
      /\ Contents(ReleaseStraight(r, n)) = SubSeq(Contents(r), n + 1, Waiting(r))
  BY <1>3, TakenGets
<1>5. CopyOut(r, n) = SubSeq(Contents(r), 1, n)
  BY <1>2, CopyOutIs
<1> QED
  BY <1>3, <1>4, <1>5, Zenon DEF GetsFrom, Taken

\* rx_buff_deq, in one part up to the end of the ring.
LEMMA OnePartGets ==
  ASSUME NEW r, Sound(r), NEW n \in 0 .. Waiting(r), n <= UartBuffSize - r.pOutPos
  PROVE  GetsFrom(r, n, CopyOut(r, n), Release(r, n))
<1>1. Taken(r, n, Release(r, n))
  BY ReleaseTakes
<1>2. Sound(Release(r, n)) /\ Contents(Release(r, n)) = SubSeq(Contents(r), n + 1, Waiting(r))
  BY <1>1, TakenGets
<1>3. CopyOut(r, n) = SubSeq(Contents(r), 1, n)
  BY CopyOutIs
<1> QED
  BY <1>1, <1>2, <1>3, Zenon DEF GetsFrom, Taken

\* rx_buff_deq, in two parts.
LEMMA TwoPartsGet ==
  ASSUME NEW r, Sound(r), NEW n \in 0 .. Waiting(r), n > UartBuffSize - r.pOutPos
  PROVE  LET tail_len == UartBuffSize - r.pOutPos
             rest == Release(r, tail_len)
         IN  GetsFrom(r, n, CopyOut(r, tail_len) \o CopyOut(rest, n - tail_len),
                      Release(rest, n - tail_len))
<1> DEFINE tail_len == UartBuffSize - r.pOutPos
           rest == Release(r, tail_len)
           m == n - tail_len
           q == Release(rest, m)
           c == Contents(r)
           w == Waiting(r)
<1>1. /\ r.pOutPos \in 0 .. UartBuffSize - 1 /\ r.Space \in 0 .. UartBuffSize
      /\ w = UartBuffSize - r.Space /\ UartBuffSize \in Nat \ {0}
  BY RingAssumption DEF Sound, RingType, Waiting
<1>2. /\ tail_len \in 1 .. w /\ tail_len <= UartBuffSize - r.pOutPos
      /\ m \in 1 .. w - tail_len /\ Wrap(r.pOutPos + tail_len) = 0
      /\ n \in 1 .. w /\ tail_len + m = n
  BY <1>1 DEF Wrap
<1>3. c \in Seq(Bytes) /\ Len(c) = w
  BY ContentsAre
<1>4. GetsFrom(r, tail_len, CopyOut(r, tail_len), rest) /\ rest.pOutPos = 0
  <2>1. tail_len \in 0 .. Waiting(r)
    BY <1>2
  <2>2. Taken(r, tail_len, rest)
    BY <2>1, ReleaseTakes
  <2> QED
    BY <1>2, <2>1, <2>2, OnePartGets DEF Taken
<1> HIDE DEF rest, q, c, tail_len, m, w
<1>5. rest.Space = r.Space + tail_len /\ Sound(rest) /\ Waiting(rest) = w - tail_len
  <2>1. rest.Space = r.Space + tail_len /\ Sound(rest)
    BY <1>4 DEF GetsFrom
  <2>2. Waiting(rest) = UartBuffSize - rest.Space
    BY DEF Waiting
  <2> QED
    BY <1>1, <1>2, <2>1, <2>2
<1>6. GetsFrom(rest, m, CopyOut(rest, m), q)
  <2>1. m \in 0 .. Waiting(rest) /\ m <= UartBuffSize - rest.pOutPos
    BY <1>1, <1>2, <1>4, <1>5
  <2> QED
    BY <1>5, <2>1, OnePartGets DEF q
<1>7. Contents(rest) = SubSeq(c, tail_len + 1, w)
  BY <1>4 DEF GetsFrom, c, w
<1>8. /\ w \in Nat /\ tail_len \in Nat /\ m \in Nat /\ n \in Nat
       /\ 1 <= m /\ m <= w - tail_len /\ 1 <= tail_len /\ tail_len <= w
       /\ n <= w /\ tail_len + m = n
  BY <1>1, <1>2
<1>9. SubSeq(c, 1, tail_len) \o SubSeq(Contents(rest), 1, m) = SubSeq(c, 1, n)
  <2>1. /\ tail_len \in 0 .. Len(c) /\ 1 \in 1 .. Len(c) - tail_len + 1
        /\ m \in 0 .. Len(c) - tail_len /\ n \in tail_len .. Len(c)
    <3>1. /\ tail_len \in 0 .. w /\ 1 \in 1 .. w - tail_len + 1
          /\ m \in 0 .. w - tail_len /\ n \in tail_len .. w
      BY <1>8
    <3> QED
      BY <3>1, <1>3, Zenon
  <2>2. SubSeq(SubSeq(c, tail_len + 1, Len(c)), 1, m) = SubSeq(c, tail_len + 1, tail_len + m)
    BY <1>3, <2>1, SubSeqTwice
  <2>3. SubSeq(c, 1, tail_len) \o SubSeq(c, tail_len + 1, n) = SubSeq(c, 1, n)
    BY <1>3, <2>1, SubSeqJoin
  <2> QED
    BY <1>2, <1>3, <1>7, <2>2, <2>3, Zenon
<1>10. SubSeq(Contents(rest), m + 1, Waiting(rest)) = SubSeq(c, n + 1, w)
  <2>1. /\ tail_len \in 0 .. Len(c) /\ m + 1 \in 1 .. Len(c) - tail_len + 1
        /\ w - tail_len \in 0 .. Len(c) - tail_len
        /\ tail_len + (m + 1) = n + 1 /\ tail_len + (w - tail_len) = w
    <3>1. m + 1 \in 1 .. w - tail_len + 1
      BY <1>8
    <3>2. tail_len \in 0 .. w /\ w - tail_len \in 0 .. w - tail_len
      BY <1>8
    <3>3. tail_len + (m + 1) = n + 1
      BY <1>8
    <3>4. tail_len + (w - tail_len) = w
      BY <1>8
    <3> QED
      BY <3>1, <3>2, <3>3, <3>4, <1>3, Zenon
  <2>2. SubSeq(SubSeq(c, tail_len + 1, Len(c)), m + 1, w - tail_len) = SubSeq(c, n + 1, w)
    BY <1>3, <2>1, SubSeqTwice
  <2> QED
    BY <1>3, <1>5, <1>7, <2>2, Zenon
<1>11. q.Space = r.Space + n
  <2>1. q.Space = rest.Space + m
    BY <1>6 DEF GetsFrom
  <2> QED
    BY <1>1, <1>2, <1>5, <2>1
<1>12. CopyOut(r, tail_len) = SubSeq(c, 1, tail_len) /\ CopyOut(rest, m) = SubSeq(Contents(rest), 1, m)
  BY <1>4, <1>6, Zenon DEF GetsFrom, c
<1>13. Sound(q) /\ Contents(q) = SubSeq(Contents(rest), m + 1, Waiting(rest))
  BY <1>6, Zenon DEF GetsFrom
<1>14. GetsFrom(r, n, CopyOut(r, tail_len) \o CopyOut(rest, m), q)
  BY <1>9, <1>10, <1>11, <1>12, <1>13, Zenon DEF GetsFrom, c, w
<1> QED
  BY <1>14, Zenon DEF tail_len, rest, m, q

-----------------------------------------------------------------------------

\* The new ring of uart_init is empty and sound.
LEMMA NewRingSound == Sound(Uart_Buf_Init) /\ Contents(Uart_Buf_Init) = <<>> /\ Uart_Buf_Init.Space > 0
<1>1. UartBuffSize \in Nat \ {0} /\ Waiting(Uart_Buf_Init) = 0
  BY RingAssumption DEF Uart_Buf_Init, Waiting
<1>2. Sound(Uart_Buf_Init)
  BY <1>1 DEF Sound, RingType, Uart_Buf_Init, Wrap, Memory
<1> QED
  BY <1>1, <1>2, ContentsAre DEF Uart_Buf_Init

\* What a step does to the contents, as ByteQueue has it: bytes put in,
LEMMA PutsAreQueues ==
  ASSUME Sound(ring), Sound(ring'), NEW s \in Seq(Bytes), Contents(ring') = Contents(ring) \o s,
         handed' = <<>>
  PROVE  Queue!Put
<1>1. /\ Contents(ring) \in Seq(Bytes) /\ Len(Contents(ring)) = Waiting(ring)
      /\ Contents(ring') \in Seq(Bytes) /\ Len(Contents(ring')) = Waiting(ring')
      /\ Waiting(ring') \in 0 .. UartBuffSize
  BY ContentsAre
<1> DEFINE c == Contents(ring)
           d == Contents(ring')
<1>2. Len(d) = Len(c) + Len(s) /\ SubSeq(d, Len(c) + 1, Len(d)) = s
  BY <1>1
<1>3. Len(d) >= Len(c) /\ Len(d) <= UartBuffSize
  BY <1>1, <1>2, RingAssumption
<1> HIDE DEF c, d
<1>4. d = c \o SubSeq(d, Len(c) + 1, Len(d))
  BY <1>2 DEF c, d
<1> QED
  BY <1>1, <1>3, <1>4 DEF Queue!Put, c, d

\* and bytes taken out.
LEMMA GetsAreQueues ==
  ASSUME Sound(ring), NEW n \in 0 .. Waiting(ring), GetsFrom(ring, n, handed', ring')
  PROVE  Queue!Get
<1>1. Len(Contents(ring)) = Waiting(ring)
  BY ContentsAre
<1> QED
  BY <1>1 DEF Queue!Get, GetsFrom

\* Every step leaves the ring sound and is a step of the queue.
LEMMA RingStep ==
  ASSUME RingInv, [RingNext]_RingVars
  PROVE  RingInv' /\ [Queue!Next]_(Queue!vars)
<1>1. /\ kind \in {"tx", "rx"} /\ Sound(ring) /\ (kind = "rx" => ring.Space > 0)
  BY DEF RingInv
<1>2. /\ Waiting(ring) \in 0 .. UartBuffSize /\ Waiting(ring) = UartBuffSize - ring.Space
      /\ ring.Space \in 0 .. UartBuffSize /\ UartBuffSize \in Nat \ {0} /\ FifoLen \in Nat
  BY <1>1, RingAssumption DEF Sound, RingType, Waiting
<1>3. CASE UNCHANGED RingVars
  BY <1>1, <1>3 DEF RingVars, RingInv, Queue!vars
<1>4. CASE UNCHANGED kind /\ NewRing
  <2>1. Sound(ring') /\ Contents(ring') = <<>> /\ ring'.Space > 0 /\ handed' = <<>>
    BY <1>4, NewRingSound DEF NewRing
  <2> QED
    BY <1>1, <1>4, <2>1, Zenon DEF RingInv, Queue!Next, Queue!Clear
<1>5. ASSUME NEW s \in Buffers, UNCHANGED kind, EnqueueTx(s)
      PROVE  RingInv' /\ Queue!Next
  <2>1. /\ Sound(ring') /\ Contents(ring') = Contents(ring) \o s /\ s \in Seq(Bytes)
        /\ handed' = <<>> /\ kind = "tx"
    BY <1>1, <1>5, BufCpyPuts, BuffersAre DEF EnqueueTx
  <2>2. Queue!Put
    BY <1>1, <2>1, PutsAreQueues
  <2> QED
    BY <1>5, <2>1, <2>2 DEF RingInv, Queue!Next
<1>6. ASSUME NEW s \in Buffers, UNCHANGED kind, EnqueueRx(s)
      PROVE  RingInv' /\ Queue!Next
  <2>1. s \in Seq(Bytes) /\ Len(s) \in Nat /\ Len(s) < ring.Space
    BY <1>6, BuffersAre DEF EnqueueRx
  <2>2. Stored(ring, s, ring') /\ handed' = <<>>
    BY <1>1, <1>2, <1>6, <2>1, StoreEachStores DEF EnqueueRx
  <2>3. Sound(ring') /\ Contents(ring') = Contents(ring) \o s
    BY <1>1, <1>2, <2>1, <2>2, StoredPuts
  <2>4. ring'.Space > 0
    BY <1>2, <2>1, <2>2 DEF Stored
  <2>5. Queue!Put
    BY <1>1, <2>1, <2>2, <2>3, PutsAreQueues
  <2> QED
    BY <1>1, <1>6, <2>3, <2>4, <2>5 DEF RingInv, Queue!Next
<1>7. ASSUME NEW n \in 0 .. Waiting(ring), UNCHANGED kind, GetsFrom(ring, n, handed', ring')
      PROVE  RingInv' /\ Queue!Next
  <2>1. Queue!Get
    BY <1>1, <1>7, GetsAreQueues
  <2>2. Sound(ring') /\ ring'.Space = ring.Space + n
    BY <1>7 DEF GetsFrom
  <2>3. kind' = "rx" => ring'.Space > 0
    BY <1>1, <1>2, <1>7, <2>2
  <2> QED
    BY <1>1, <1>7, <2>1, <2>2, <2>3 DEF RingInv, Queue!Next
<1>8. ASSUME NEW count \in 0 .. FifoLen, UNCHANGED kind, StartTx(count)
      PROVE  RingInv' /\ Queue!Next
  <2> DEFINE n == Lesser(Waiting(ring), FifoLen - count)
  <2>1. n \in 0 .. Waiting(ring)
    BY <1>2 DEF Lesser
  <2>2. handed' = TakeEach(ring, n) /\ ring' = Release(ring, n)
    BY <1>8 DEF StartTx
  <2> HIDE DEF n
  <2>3. GetsFrom(ring, n, handed', ring')
    BY <1>1, <2>1, <2>2, TakeEachGets
  <2> QED
    BY <1>7, <1>8, <2>1, <2>3
<1>9. ASSUME NEW data_len \in 0 .. FifoLen, UNCHANGED kind, DequeueRx(data_len)
      PROVE  RingInv' /\ Queue!Next
  <2> DEFINE n == Lesser(data_len, Waiting(ring))
             tail_len == UartBuffSize - ring.pOutPos
  <2>1. n \in 0 .. Waiting(ring) /\ kind = "rx" /\ ring.Space > 0 /\ tail_len \in Int /\ n \in Int
    BY <1>1, <1>2, <1>9 DEF Lesser, DequeueRx, Sound, RingType
  <2>2. \/ /\ ring.pOutPos <= ring.pInPos
           /\ handed' = CopyOut(ring, n) /\ ring' = ReleaseStraight(ring, n)
        \/ /\ n > tail_len
           /\ LET rest == Release(ring, tail_len) IN
              /\ handed' = CopyOut(ring, tail_len) \o CopyOut(rest, n - tail_len)
              /\ ring' = Release(rest, n - tail_len)
        \/ /\ n <= tail_len
           /\ handed' = CopyOut(ring, n) /\ ring' = Release(ring, n)
    BY <1>9, Zenon DEF DequeueRx
  <2> HIDE DEF n
  <2>3. GetsFrom(ring, n, handed', ring')
    <3>1. CASE /\ ring.pOutPos <= ring.pInPos
               /\ handed' = CopyOut(ring, n) /\ ring' = ReleaseStraight(ring, n)
      BY <1>1, <2>1, <3>1, AheadGets
    <3>2. CASE /\ n > tail_len
               /\ LET rest == Release(ring, tail_len) IN
                  /\ handed' = CopyOut(ring, tail_len) \o CopyOut(rest, n - tail_len)
                  /\ ring' = Release(rest, n - tail_len)
      BY <1>1, <2>1, <3>2, TwoPartsGet, Zenon
    <3>3. CASE /\ n <= tail_len
               /\ handed' = CopyOut(ring, n) /\ ring' = Release(ring, n)
      BY <1>1, <2>1, <3>3, OnePartGets
    <3> QED
      BY <2>2, <3>1, <3>2, <3>3, Zenon
  <2> QED
    BY <1>7, <1>9, <2>1, <2>3
<1> QED
  BY <1>3, <1>4, <1>5, <1>6, <1>8, <1>9 DEF RingNext

\* A sound ring is inside its memory, and Space tells the truth.
LEMMA RingInvImplies == RingInv => InBounds /\ SpaceTold
<1> SUFFICES ASSUME RingInv PROVE InBounds /\ SpaceTold
  OBVIOUS
<1>1. /\ ring.pInPos \in 0 .. UartBuffSize - 1 /\ ring.pOutPos \in 0 .. UartBuffSize - 1
      /\ ring.Space \in 0 .. UartBuffSize /\ ring.pInPos = Wrap(ring.pOutPos + Waiting(ring))
      /\ UartBuffSize \in Nat \ {0} /\ Waiting(ring) = UartBuffSize - ring.Space
      /\ \A i \in Memory : i >= UartBuffSize => ring.mem[i] = Other
  BY RingAssumption DEF RingInv, Sound, RingType, Waiting
<1>2. ring.pOutPos + Waiting(ring) \in 0 .. 2 * UartBuffSize - 1
  BY <1>1
<1>3. (ring.pOutPos + Waiting(ring)) % UartBuffSize = Wrap(ring.pOutPos + Waiting(ring))
  BY <1>2, Wrapped
<1> QED
  BY <1>1, <1>3 DEF InBounds, SpaceTold

\* The four functions of the rings, with their four ways to wrap, keep a queue
\* whatever the sizes: nothing is lost, repeated, reordered or read outside.
THEOREM RingImplementsQueue == RingSpec => RingIsQueue
<1>1. RingInit => RingInv /\ Queue!Init
  BY NewRingSound DEF RingInit, RingInv, Queue!Init
<1>2. RingInv /\ [RingNext]_RingVars => RingInv' /\ [Queue!Next]_(Queue!vars)
  BY RingStep
<1>3. RingInv => InBounds /\ SpaceTold
  BY RingInvImplies
<1> QED
  BY <1>1, <1>2, <1>3, PTL DEF RingSpec, RingIsQueue, Queue!Spec

-----------------------------------------------------------------------------
(* The registers of the line.                                              *)

Formats ==
  [exist_parity : {0, 1}, parity : 0 .. 2, stop_bits : StopBits, data_bits : WordLengths]

AskedType ==
  [baud : Nat \ {0}, bits : WordLengths, stop : StopBits, parity : Parities,
   inverse : Inversions, rts : BOOLEAN, cts : BOOLEAN, thresh : 0 .. 127,
   print : {"rom", "uart0_write_char", "uart1_write_char"}]

LineTypeOK ==
  /\ uart_no \in {0, 1} /\ UartDev \in Formats
  /\ asked.print \in {"rom", "uart0_write_char", "uart1_write_char"}
  /\ Configured => asked \in AskedType

\* LineAsAsked, a bit at a time: what CONF0 and
Conf0Holds(reg, a) ==
  /\ \A b \in {0, 1} : b + UART_BIT_NUM_S \in reg <=> b \in BitsOf(a.bits)
  /\ \A b \in {0, 1} : b + UART_STOP_BIT_NUM_S \in reg <=> b \in BitsOf(a.stop)
  /\ UART_PARITY_EN \in reg <=> a.parity # NONE_BITS
  /\ a.parity # NONE_BITS => (UART_PARITY \in reg <=> a.parity = 1)
  /\ reg \cap UART_LINE_INV_MASK = a.inverse
  /\ UART_TX_FLOW_EN \in reg <=> a.cts

\* what CONF1 holds.
Conf1Holds(reg, a) ==
  /\ UART_RX_FLOW_EN \in reg <=> a.rts
  /\ \A b \in 0 .. 6 : b + UART_RX_FLOW_THRHD_S \in reg <=> b \in BitsOf(a.thresh)
  /\ uart_no = 0 => \A b \in 0 .. 6 : b \in reg <=> b \in BitsOf(100)

LineInv ==
  /\ LineTypeOK
  /\ Configured => /\ Conf0Holds(CONF0, asked) /\ Conf1Holds(CONF1, asked)
                   /\ CLKDIV = UART_CLK_FREQ \div asked.baud

-----------------------------------------------------------------------------

\* The bits of a number of 8 bits.
LEMMA BitsAre ==
  ASSUME NEW n \in 0 .. 255
  PROVE  /\ BitsOf(n) \subseteq 0 .. 7
         /\ 0 \in BitsOf(n) <=> n % 2 = 1
         /\ 1 \in BitsOf(n) <=> (n \div 2) % 2 = 1
         /\ 2 \in BitsOf(n) <=> (n \div 4) % 2 = 1
         /\ 3 \in BitsOf(n) <=> (n \div 8) % 2 = 1
         /\ 4 \in BitsOf(n) <=> (n \div 16) % 2 = 1
         /\ 5 \in BitsOf(n) <=> (n \div 32) % 2 = 1
         /\ 6 \in BitsOf(n) <=> (n \div 64) % 2 = 1
         /\ 7 \in BitsOf(n) <=> (n \div 128) % 2 = 1
<1>1. /\ 2^0 = 1 /\ 2^1 = 2 /\ 2^2 = 4 /\ 2^3 = 8 /\ 2^4 = 16 /\ 2^5 = 32 /\ 2^6 = 64
      /\ 2^7 = 128 /\ n \div 1 = n
  OBVIOUS
<1> QED
  BY <1>1 DEF BitsOf

\* The fields of two bits are wide enough.
LEMMA TwoBits ==
  ASSUME NEW n \in 0 .. 3
  PROVE  BitsOf(n) \subseteq {0, 1}
<1>1. /\ ~(2 \in BitsOf(n)) /\ ~(3 \in BitsOf(n)) /\ ~(4 \in BitsOf(n)) /\ ~(5 \in BitsOf(n))
      /\ ~(6 \in BitsOf(n)) /\ ~(7 \in BitsOf(n))
  BY BitsAre
<1>2. BitsOf(n) \subseteq 0 .. 7
  BY DEF BitsOf
<1> QED
  BY <1>1, <1>2

\* The bits of UART_SetParity's mode and of the constants of uart_config.
LEMMA BitsOfConstants ==
  /\ BitsOf(0) = {} /\ BitsOf(1) = {0} /\ BitsOf(2) = {1} /\ BitsOf(16) = {4}
  /\ BitsOf(100) = {2, 5, 6}
BY BitsAre

\* Cut to 7 bits, the threshold keeps its low bits; the eighth is apart.
LEMMA SevenBits ==
  ASSUME NEW t \in 0 .. 255
  PROVE  /\ t % 128 \in 0 .. 127 /\ BitsOf(t % 128) \subseteq 0 .. 6
         /\ \A b \in 0 .. 6 : b \in BitsOf(t) <=> b \in BitsOf(t % 128)
<1>1. t % 128 = IF t < 128 THEN t ELSE t - 128
  OBVIOUS
<1>2. t % 128 \in 0 .. 127 /\ t % 128 \in 0 .. 255
  BY <1>1
<1>3. ~(7 \in BitsOf(t % 128)) /\ BitsOf(t % 128) \subseteq 0 .. 7
  BY <1>2, BitsAre
<1>4. ASSUME NEW b \in 0 .. 6 PROVE b \in BitsOf(t) <=> b \in BitsOf(t % 128)
  <2>1. CASE t < 128
    BY <1>1, <2>1
  <2>2. CASE t >= 128
    <3>1. PICK u \in 0 .. 127 : t = u + 128 /\ t % 128 = u
      BY <1>1, <2>2
    <3>2. /\ (u + 128) % 2 = u % 2
          /\ ((u + 128) \div 2) % 2 = (u \div 2) % 2
          /\ ((u + 128) \div 4) % 2 = (u \div 4) % 2
          /\ ((u + 128) \div 8) % 2 = (u \div 8) % 2
          /\ ((u + 128) \div 16) % 2 = (u \div 16) % 2
          /\ ((u + 128) \div 32) % 2 = (u \div 32) % 2
          /\ ((u + 128) \div 64) % 2 = (u \div 64) % 2
      OBVIOUS
    <3>3. t \in 0 .. 255 /\ u \in 0 .. 255
      OBVIOUS
    <3>4. b \in BitsOf(t) <=> b \in BitsOf(u)
      BY <3>1, <3>2, <3>3, BitsAre
    <3> QED
      BY <3>1, <3>4
  <2> QED
    BY <2>1, <2>2
<1> QED
  BY <1>2, <1>3, <1>4

\* A bit of a field in its place.
LEMMA ShiftIs ==
  ASSUME NEW S, S \subseteq Int, NEW s \in Int, NEW x \in Int
  PROVE  x \in Shift(S, s) <=> x - s \in S
BY DEF Shift

-----------------------------------------------------------------------------

\* Initially no setting is asked for.
LEMMA LineInitInv == LineInit => LineInv
<1> SUFFICES ASSUME LineInit PROVE LineInv
  OBVIOUS
<1>1. ~Configured
  BY DEF LineInit, Configured
<1> QED
  BY <1>1 DEF LineInit, LineInv, LineTypeOK, Formats, StopBits, WordLengths, EightN1, NONE_BITS

\* uart_config writes whole registers.
LEMMA ConfigHolds ==
  ASSUME LineInv, NEW dev \in Formats, NEW rate \in Nat \ {0}, uart_config_line(dev, rate),
         UartDev' \in Formats, UNCHANGED uart_no
  PROVE  LineInv'
<1> USE DEF UART_PARITY, UART_PARITY_EN, UART_BIT_NUM_S, UART_STOP_BIT_NUM_S
<1>1. /\ dev.exist_parity \in {0, 1} /\ dev.parity \in 0 .. 2 /\ dev.stop_bits \in 1 .. 3
      /\ dev.data_bits \in 0 .. 3 /\ DevParity(dev) \in {2, 1, 0}
      /\ DevParity(dev) # 2 <=> dev.exist_parity = 1
      /\ DevParity(dev) # 2 => DevParity(dev) = dev.parity % 2
  BY DEF Formats, StopBits, WordLengths, DevParity, NONE_BITS
<1>2. /\ asked'.baud = rate /\ asked'.bits = dev.data_bits /\ asked'.stop = dev.stop_bits
      /\ asked'.parity = DevParity(dev) /\ asked'.inverse = {} /\ asked'.rts = FALSE
      /\ asked'.cts = FALSE /\ asked'.thresh = 0 /\ asked'.print = asked.print
      /\ asked' \in AskedType
  BY <1>1 DEF uart_config_line, LineInv, LineTypeOK, AskedType, WordLengths, StopBits,
     Parities, Inversions, NONE_BITS
<1>3. CLKDIV' = UART_CLK_FREQ \div asked'.baud
  BY <1>2 DEF uart_config_line
<1>4. /\ BitsOf(dev.data_bits) \subseteq {0, 1} /\ BitsOf(dev.stop_bits) \subseteq {0, 1}
  BY <1>1, TwoBits
<1>5. ASSUME NEW x \in Int
      PROVE  x \in CONF0' <=> \/ dev.exist_parity = 1 /\ x = 1
                              \/ dev.parity % 2 = 1 /\ x = 0
                              \/ x - 4 \in BitsOf(dev.stop_bits)
                              \/ x - 2 \in BitsOf(dev.data_bits)
  <2>1. /\ x \in Shift(BitsOf(dev.stop_bits), 4) <=> x - 4 \in BitsOf(dev.stop_bits)
        /\ x \in Shift(BitsOf(dev.data_bits), 2) <=> x - 2 \in BitsOf(dev.data_bits)
    BY <1>4, ShiftIs
  <2> QED
    BY <2>1 DEF uart_config_line
<1>6. Conf0Holds(CONF0', asked')
  <2>1. \A x \in 15 .. 24 : x \notin CONF0'
    BY <1>4, <1>5
  <2>2. CONF0' \cap UART_LINE_INV_MASK = {} /\ UART_TX_FLOW_EN \notin CONF0'
    BY <2>1 DEF UART_LINE_INV_MASK, UART_TX_FLOW_EN
  <2>3. /\ \A b \in {0, 1} : b + 2 \in CONF0' <=> b \in BitsOf(dev.data_bits)
        /\ \A b \in {0, 1} : b + 4 \in CONF0' <=> b \in BitsOf(dev.stop_bits)
    BY <1>4, <1>5
  <2>4. /\ 1 \in CONF0' <=> dev.exist_parity = 1
        /\ 0 \in CONF0' <=> dev.parity % 2 = 1
    BY <1>4, <1>5
  <2>5. DevParity(dev) # 2 => (0 \in CONF0' <=> DevParity(dev) = 1)
    BY <1>1, <2>4
  <2> QED
    BY <1>1, <1>2, <2>2, <2>3, <2>4, <2>5 DEF Conf0Holds, NONE_BITS
<1>7. \A x \in Int : x \in CONF1' <=>
        IF uart_no = 0 THEN x \in {2, 5, 6} \/ x = 25 \/ x = 31 \/ x = 12 ELSE x = 0
  <2>1. /\ \A x \in Int : x \in Shift(BitsOf(2), 24) <=> x = 25
        /\ \A x \in Int : x \in Shift(BitsOf(16), 8) <=> x = 12
    BY BitsOfConstants DEF Shift
  <2> QED
    BY <2>1, BitsOfConstants DEF uart_config_line
<1>8. Conf1Holds(CONF1, asked)'
  <2>1. 23 \notin CONF1' /\ \A x \in 16 .. 22 : x \notin CONF1'
    BY <1>7
  <2>2. uart_no = 0 => \A b \in 0 .. 6 : b \in CONF1' <=> b \in {2, 5, 6}
    BY <1>7
  <2> QED
    BY <1>2, <2>1, <2>2, BitsOfConstants
    DEF Conf1Holds, UART_RX_FLOW_EN, UART_RX_FLOW_THRHD_S
<1>9. LineTypeOK'
  BY <1>2 DEF LineInv, LineTypeOK
<1> QED
  BY <1>3, <1>6, <1>8, <1>9 DEF LineInv

\* Changing CONF0 and what is asked of it leaves the rest as it was.
LEMMA Conf0Changes ==
  ASSUME LineInv, Configured, asked' \in AskedType, asked'.print = asked.print,
         asked'.rts = asked.rts, asked'.thresh = asked.thresh, asked'.baud = asked.baud,
         UNCHANGED <<uart_no, UartDev, CONF1, CLKDIV>>, Conf0Holds(CONF0', asked')
  PROVE  LineInv'
<1>1. LineTypeOK'
  BY DEF LineInv, LineTypeOK
<1>2. Conf1Holds(CONF1, asked)'
  BY DEF LineInv, Conf1Holds
<1>3. (CLKDIV = UART_CLK_FREQ \div asked.baud)'
  BY DEF LineInv
<1> QED
  BY <1>1, <1>2, <1>3 DEF LineInv

\* UART_SetWordLength disturbs no other field.
LEMMA WordLengthHolds ==
  ASSUME LineInv, Configured, NEW n \in WordLengths, UART_SetWordLength(n)
  PROVE  LineInv'
<1>1. asked \in AskedType /\ Conf0Holds(CONF0, asked) /\ BitsOf(n) \subseteq {0, 1} /\ n \in 0 .. 3
  BY TwoBits DEF LineInv, LineTypeOK, WordLengths
<1>2. /\ asked' \in AskedType /\ asked'.bits = n
      /\ asked'.stop = asked.stop /\ asked'.parity = asked.parity
      /\ asked'.inverse = asked.inverse /\ asked'.cts = asked.cts /\ asked'.print = asked.print
      /\ asked'.rts = asked.rts /\ asked'.thresh = asked.thresh /\ asked'.baud = asked.baud
  BY <1>1 DEF UART_SetWordLength, AskedType
<1>3. \A x \in Int : x \in CONF0' <=> IF x \in {2, 3} THEN x - 2 \in BitsOf(n) ELSE x \in CONF0
  <2>1. \A x \in Int : /\ x \in Shift(BitsOf(n), 2) <=> x - 2 \in BitsOf(n)
                       /\ x \in Shift({0, 1}, 2) <=> x - 2 \in {0, 1}
    BY <1>1, ShiftIs
  <2> QED
    BY <1>1, <2>1 DEF UART_SetWordLength, SetBits, UART_BIT_NUM_S
<1>4. Conf0Holds(CONF0', asked')
  BY <1>1, <1>2, <1>3 DEF Conf0Holds, UART_BIT_NUM_S, UART_STOP_BIT_NUM_S, UART_PARITY,
     UART_PARITY_EN, UART_LINE_INV_MASK, UART_TX_FLOW_EN
<1> QED
  BY <1>2, <1>4, Conf0Changes DEF UART_SetWordLength

\* Nor does UART_SetStopBits,
LEMMA StopBitsHold ==
  ASSUME LineInv, Configured, NEW n \in StopBits, UART_SetStopBits(n)
  PROVE  LineInv'
<1>1. asked \in AskedType /\ Conf0Holds(CONF0, asked) /\ BitsOf(n) \subseteq {0, 1} /\ n \in 0 .. 3
  BY TwoBits DEF LineInv, LineTypeOK, StopBits
<1>2. /\ asked' \in AskedType /\ asked'.stop = n
      /\ asked'.bits = asked.bits /\ asked'.parity = asked.parity
      /\ asked'.inverse = asked.inverse /\ asked'.cts = asked.cts /\ asked'.print = asked.print
      /\ asked'.rts = asked.rts /\ asked'.thresh = asked.thresh /\ asked'.baud = asked.baud
  BY <1>1 DEF UART_SetStopBits, AskedType
<1>3. \A x \in Int : x \in CONF0' <=> IF x \in {4, 5} THEN x - 4 \in BitsOf(n) ELSE x \in CONF0
  <2>1. \A x \in Int : /\ x \in Shift(BitsOf(n), 4) <=> x - 4 \in BitsOf(n)
                       /\ x \in Shift({0, 1}, 4) <=> x - 4 \in {0, 1}
    BY <1>1, ShiftIs
  <2> QED
    BY <1>1, <2>1 DEF UART_SetStopBits, SetBits, UART_STOP_BIT_NUM_S
<1>4. Conf0Holds(CONF0', asked')
  BY <1>1, <1>2, <1>3 DEF Conf0Holds, UART_BIT_NUM_S, UART_STOP_BIT_NUM_S, UART_PARITY,
     UART_PARITY_EN, UART_LINE_INV_MASK, UART_TX_FLOW_EN
<1> QED
  BY <1>2, <1>4, Conf0Changes DEF UART_SetStopBits

\* UART_SetLineInverse
LEMMA InverseHolds ==
  ASSUME LineInv, Configured, NEW mask \in Inversions, UART_SetLineInverse(mask)
  PROVE  LineInv'
<1>1. asked \in AskedType /\ Conf0Holds(CONF0, asked) /\ mask \subseteq 19 .. 24
  BY DEF LineInv, LineTypeOK, Inversions
<1>2. /\ asked' \in AskedType /\ asked'.inverse = mask
      /\ asked'.bits = asked.bits /\ asked'.parity = asked.parity
      /\ asked'.stop = asked.stop /\ asked'.cts = asked.cts /\ asked'.print = asked.print
      /\ asked'.rts = asked.rts /\ asked'.thresh = asked.thresh /\ asked'.baud = asked.baud
  BY <1>1 DEF UART_SetLineInverse, AskedType
<1>3. \A x \in 0 .. 18 : x \in CONF0' <=> x \in CONF0
  BY <1>1 DEF UART_SetLineInverse, UART_LINE_INV_MASK
<1>4. CONF0' \cap UART_LINE_INV_MASK = mask
  BY <1>1 DEF UART_SetLineInverse, UART_LINE_INV_MASK
<1>5. Conf0Holds(CONF0', asked')
  BY <1>1, <1>2, <1>3, <1>4 DEF Conf0Holds, UART_BIT_NUM_S, UART_STOP_BIT_NUM_S, UART_PARITY,
     UART_PARITY_EN, UART_TX_FLOW_EN
<1> QED
  BY <1>2, <1>5, Conf0Changes DEF UART_SetLineInverse

\* and UART_SetParity, whose mode is one bit or none.
LEMMA ParityHolds ==
  ASSUME LineInv, Configured, NEW mode \in Parities, UART_SetParity(mode)
  PROVE  LineInv'
<1>1. asked \in AskedType /\ Conf0Holds(CONF0, asked) /\ mode \in {2, 1, 0}
  BY DEF LineInv, LineTypeOK, Parities, NONE_BITS
<1>2. /\ asked' \in AskedType /\ asked'.parity = mode
      /\ asked'.bits = asked.bits /\ asked'.inverse = asked.inverse
      /\ asked'.stop = asked.stop /\ asked'.cts = asked.cts /\ asked'.print = asked.print
      /\ asked'.rts = asked.rts /\ asked'.thresh = asked.thresh /\ asked'.baud = asked.baud
  BY <1>1 DEF UART_SetParity, AskedType
<1>3. \A x \in Int : x \in CONF0' <=> \/ x \in CONF0 /\ x # 0 /\ x # 1
                                      \/ x = 0 /\ mode = 1
                                      \/ x = 1 /\ mode # 2
  BY <1>1, BitsOfConstants DEF UART_SetParity, NONE_BITS, UART_PARITY, UART_PARITY_EN
<1>4. Conf0Holds(CONF0', asked')
  BY <1>1, <1>2, <1>3 DEF Conf0Holds, UART_BIT_NUM_S, UART_STOP_BIT_NUM_S, UART_PARITY,
     UART_PARITY_EN, UART_LINE_INV_MASK, UART_TX_FLOW_EN, NONE_BITS
<1> QED
  BY <1>2, <1>4, Conf0Changes DEF UART_SetParity

\* The threshold's eighth bit falls on UART_RX_FLOW_EN, which is set anyway.
LEMMA FlowCtrlHolds ==
  ASSUME LineInv, Configured, NEW rts \in BOOLEAN, NEW cts \in BOOLEAN, NEW t \in Thresholds,
         UART_SetFlowCtrl(rts, cts, t)
  PROVE  LineInv'
<1>1. /\ asked \in AskedType /\ Conf0Holds(CONF0, asked) /\ Conf1Holds(CONF1, asked)
      /\ t \in 0 .. 255 /\ BitsOf(t) \subseteq 0 .. 7
  BY UartLineAssumption, BitsAre DEF LineInv, LineTypeOK
<1>2. /\ t % 128 \in 0 .. 127 /\ BitsOf(t % 128) \subseteq 0 .. 6
      /\ \A b \in 0 .. 6 : b \in BitsOf(t) <=> b \in BitsOf(t % 128)
  BY <1>1, SevenBits
<1>3. /\ asked' \in AskedType /\ asked'.parity = asked.parity
      /\ asked'.bits = asked.bits /\ asked'.inverse = asked.inverse
      /\ asked'.stop = asked.stop /\ asked'.cts = cts /\ asked'.print = asked.print
      /\ asked'.rts = rts /\ asked'.thresh = (IF rts THEN t % 128 ELSE asked.thresh)
      /\ asked'.baud = asked.baud
  BY <1>1, <1>2, ZenonT(60) DEF UART_SetFlowCtrl, AskedType
<1>4. Conf0Holds(CONF0, asked)'
  <2>1. \A x \in Int : x \in CONF0' <=> IF x = 15 THEN cts ELSE x \in CONF0
    BY DEF UART_SetFlowCtrl, UART_TX_FLOW_EN
  <2> QED
    BY <1>1, <1>3, <2>1 DEF Conf0Holds, UART_BIT_NUM_S, UART_STOP_BIT_NUM_S, UART_PARITY,
       UART_PARITY_EN, UART_LINE_INV_MASK, UART_TX_FLOW_EN
<1>5. Conf1Holds(CONF1, asked)'
  <2>1. CASE rts
    <3>1. \A x \in Int : /\ x \in Shift(BitsOf(t), 16) <=> x - 16 \in BitsOf(t)
                         /\ x \in Shift(0 .. 6, 16) <=> x - 16 \in 0 .. 6
      BY <1>1, ShiftIs
    <3>2. \A x \in Int : x \in CONF1' <=> \/ x \in CONF1 /\ x \notin 16 .. 22
                                          \/ x - 16 \in BitsOf(t) \/ x = 23
      BY <2>1, <3>1
      DEF UART_SetFlowCtrl, SetBits, UART_RX_FLOW_THRHD, UART_RX_FLOW_THRHD_S, UART_RX_FLOW_EN
    <3>3. /\ 23 \in CONF1' /\ \A b \in 0 .. 6 : b + 16 \in CONF1' <=> b \in BitsOf(t)
          /\ \A b \in 0 .. 6 : b \in CONF1' <=> b \in CONF1
      BY <1>1, <3>2
    <3>4. uart_no' = uart_no
      BY DEF UART_SetFlowCtrl
    <3> QED
      BY <1>1, <1>2, <1>3, <2>1, <3>3, <3>4
      DEF Conf1Holds, UART_RX_FLOW_THRHD_S, UART_RX_FLOW_EN
  <2>2. CASE ~rts
    <3>1. \A x \in Int : x \in CONF1' <=> x \in CONF1 /\ x # 23
      BY <2>2 DEF UART_SetFlowCtrl, UART_RX_FLOW_EN
    <3>2. uart_no' = uart_no
      BY DEF UART_SetFlowCtrl
    <3> QED
      BY <1>1, <1>3, <2>2, <3>1, <3>2 DEF Conf1Holds, UART_RX_FLOW_THRHD_S, UART_RX_FLOW_EN
  <2> QED
    BY <2>1, <2>2
<1>6. LineTypeOK' /\ (CLKDIV = UART_CLK_FREQ \div asked.baud)'
  BY <1>3 DEF LineInv, LineTypeOK, UART_SetFlowCtrl
<1> QED
  BY <1>4, <1>5, <1>6 DEF LineInv

\* Every call keeps the registers as asked.
LEMMA LineStepInv ==
  ASSUME LineInv, [LineNext]_LineVars
  PROVE  LineInv'
<1>1. /\ UartDev \in Formats /\ EightN1 \in Formats /\ BaudRates \subseteq Nat \ {0}
      /\ 115200 \in Nat \ {0}
  BY UartLineAssumption
  DEF LineInv, LineTypeOK, Formats, EightN1, StopBits, WordLengths, NONE_BITS
<1>2. CASE UNCHANGED LineVars
  BY <1>2 DEF LineVars, LineInv, LineTypeOK, Configured, Conf0Holds, Conf1Holds
<1>3. ASSUME NEW rate \in Nat \ {0}, uart_init_line(rate) PROVE LineInv'
  <2>1. uart_config_line(UartDev, rate) /\ UartDev' = UartDev /\ UNCHANGED uart_no
    BY <1>3 DEF uart_init_line
  <2> QED
    BY <1>1, <2>1, ConfigHolds
<1>4. ASSUME NEW rate \in BaudRates, uart_init_3_line(rate) PROVE LineInv'
  <2>1. uart_config_line(EightN1, rate) /\ UartDev' = EightN1 /\ UNCHANGED uart_no
    BY <1>4 DEF uart_init_3_line
  <2> QED
    BY <1>1, <2>1, ConfigHolds
<1>5. ASSUME Configured, NEW rate \in BaudRates, UART_SetBaudrate(rate) PROVE LineInv'
  <2>1. /\ asked' \in AskedType /\ asked'.parity = asked.parity
        /\ asked'.bits = asked.bits /\ asked'.inverse = asked.inverse
        /\ asked'.stop = asked.stop /\ asked'.cts = asked.cts /\ asked'.print = asked.print
        /\ asked'.rts = asked.rts /\ asked'.thresh = asked.thresh /\ asked'.baud = rate
    BY <1>1, <1>5 DEF UART_SetBaudrate, AskedType, LineInv, LineTypeOK
  <2>2. Conf0Holds(CONF0, asked)' /\ Conf1Holds(CONF1, asked)' /\ LineTypeOK'
    BY <1>5, <2>1 DEF UART_SetBaudrate, Conf0Holds, Conf1Holds, LineInv, LineTypeOK
  <2> QED
    BY <1>5, <2>1, <2>2 DEF UART_SetBaudrate, LineInv
<1>6. ASSUME Configured, NEW no \in {0, 1}, UART_SetPrintPort(no) PROVE LineInv'
  <2>1. /\ asked' \in AskedType /\ asked'.parity = asked.parity
        /\ asked'.bits = asked.bits /\ asked'.inverse = asked.inverse
        /\ asked'.stop = asked.stop /\ asked'.cts = asked.cts
        /\ asked'.print \in {"rom", "uart0_write_char", "uart1_write_char"}
        /\ asked'.rts = asked.rts /\ asked'.thresh = asked.thresh /\ asked'.baud = asked.baud
    BY <1>6 DEF UART_SetPrintPort, AskedType, LineInv, LineTypeOK
  <2>2. Conf0Holds(CONF0, asked)' /\ Conf1Holds(CONF1, asked)' /\ LineTypeOK'
    BY <1>6, <2>1 DEF UART_SetPrintPort, Conf0Holds, Conf1Holds, LineInv, LineTypeOK
  <2> QED
    BY <1>6, <2>1, <2>2 DEF UART_SetPrintPort, LineInv
<1>7. CASE LineNext
  <2>1. CASE \E rate \in BaudRates : uart_init_line(rate) \/ uart_init_3_line(rate)
    BY <1>1, <1>3, <1>4, <2>1
  <2>2. CASE uart_reattach
    BY <1>1, <1>3, <2>2 DEF uart_reattach
  <2>3. ASSUME Configured, ~(\E rate \in BaudRates : uart_init_line(rate) \/ uart_init_3_line(rate)),
               ~uart_reattach
        PROVE  LineInv'
    BY <1>5, <1>6, <1>7, <2>3, WordLengthHolds, StopBitsHold, InverseHolds, ParityHolds,
       FlowCtrlHolds DEF LineNext
  <2> QED
    BY <1>7, <2>1, <2>2, <2>3 DEF LineNext
<1> QED
  BY <1>2, <1>7

\* The fields, put together.
LEMMA LineInvAsAsked == LineInv => LineAsAsked
<1> SUFFICES ASSUME LineInv, Configured PROVE LineAsAsked
  BY DEF LineAsAsked
<1>1. /\ asked \in AskedType /\ Conf0Holds(CONF0, asked) /\ Conf1Holds(CONF1, asked)
      /\ CLKDIV = UART_CLK_FREQ \div asked.baud
  BY DEF LineInv, LineTypeOK
<1>2. /\ asked.bits \in 0 .. 3 /\ asked.stop \in 0 .. 3 /\ asked.thresh \in 0 .. 127
      /\ asked.thresh \in 0 .. 255
  BY <1>1 DEF AskedType, WordLengths, StopBits
<1>3. BitsOf(asked.bits) \subseteq {0, 1} /\ BitsOf(asked.stop) \subseteq {0, 1}
  BY <1>2, TwoBits
<1>4. BitsOf(asked.thresh) \subseteq 0 .. 6
  BY <1>2, BitsAre
<1>5. Field(CONF0, {0, 1}, UART_BIT_NUM_S) = BitsOf(asked.bits)
  BY <1>1, <1>3 DEF Conf0Holds, Field
<1>6. Field(CONF0, {0, 1}, UART_STOP_BIT_NUM_S) = BitsOf(asked.stop)
  BY <1>1, <1>3 DEF Conf0Holds, Field
<1>7. Field(CONF1, UART_RX_FLOW_THRHD, UART_RX_FLOW_THRHD_S) = BitsOf(asked.thresh)
  BY <1>1, <1>4 DEF Conf1Holds, Field, UART_RX_FLOW_THRHD
<1>8. uart_no = 0 => Field(CONF1, 0 .. 6, 0) = BitsOf(100)
  BY <1>1, BitsOfConstants DEF Conf1Holds, Field
<1> QED
  BY <1>1, <1>5, <1>6, <1>7, <1>8 DEF LineAsAsked, Conf0Holds, Conf1Holds

\* Whatever the order of the calls, no setter disturbs the field of another.
THEOREM SettingsStay == LineSpec => []LineAsAsked
<1>1. LineInit => LineInv
  BY LineInitInv
<1>2. LineInv /\ [LineNext]_LineVars => LineInv'
  BY LineStepInv
<1>3. LineInv => LineAsAsked
  BY LineInvAsAsked
<1> QED
  BY <1>1, <1>2, <1>3, PTL DEF LineSpec
=============================================================================
