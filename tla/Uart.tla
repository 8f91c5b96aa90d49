-------------------------------- MODULE Uart -------------------------------
(***************************************************************************)
(* uart.c: both UARTs, their FIFOs and interrupts, and the rings of a build*)
(* with UART_BUFF_EN, between the handler and the task that calls the      *)
(* driver.                                                                 *)
(*                                                                         *)
(* The handler runs between any two accesses of the task to a register or  *)
(* to a ring's Space; the hardware changes between any two steps.  A       *)
(* register mask is set or cleared by reading and writing it back, so what *)
(* the handler did in between is undone.  FIFOs and rings are how much     *)
(* they hold; which bytes is the matter of UartRing.                       *)
(***************************************************************************)
EXTENDS Integers, FiniteSets

CONSTANTS
  FIFO_LEN,    \* UART_FIFO_LEN
  FULL_AT,     \* UART_RXFIFO_FULL_THRHD
  EMPTY_BELOW, \* UART_TXFIFO_EMPTY_THRHD
  BUFFER_SIZE, \* UART_TX_BUFFER_SIZE, UART_RX_BUFFER_SIZE
  MaxLen,      \* the longest string or buffer a caller passes
  Masks,       \* of interrupts an application enables by UART_SetIntrEna
  Builds       \* values of UART_BUFF_EN

UARTs == {0, 1}
NULL == -1         \* no ring

Receive == {"RXFIFO_FULL", "RXFIFO_TOUT"}
Interrupts == Receive \cup {"FRM_ERR", "TXFIFO_EMPTY", "RXFIFO_OVF"}

ASSUME UartAssumption ==
  /\ FIFO_LEN \in Nat /\ FIFO_LEN > 2 /\ BUFFER_SIZE \in Nat /\ BUFFER_SIZE > FIFO_LEN
  /\ FULL_AT \in 1 .. FIFO_LEN /\ EMPTY_BELOW \in 1 .. FIFO_LEN
  /\ MaxLen \in 1 .. BUFFER_SIZE
  /\ Builds \subseteq BOOLEAN

ASSUME MaskAssumption == Masks \subseteq SUBSET Interrupts

VARIABLES
  buffEn,    \* UART_BUFF_EN
  (* UART0's registers and both FIFOs *)
  ena,       \* UART_INT_ENA
  raised,    \* latched interrupts
  tx,        \* bytes in the transmit FIFO of each UART
  rx,        \* bytes in the receive FIFO
  (* the driver *)
  txSpace,   \* pTxBuffer->Space, or NULL
  rxSpace,   \* pRxBuffer->Space, or NULL
  (* the task *)
  pc,        \* where in the driver it is
  seen,      \* what it has read
  len,       \* the bytes it has still to pass on
  port,      \* the UART it writes to
  (* history, read by no action *)
  owed,      \* bytes accepted for the transmit ring and not in the FIFO yet
  deaf,      \* the receive interrupts are disabled, by the application or from boot
  moved      \* the handler has filled the FIFO since the task looked at it

registers == <<ena, raised>>
fifos == <<tx, rx>>
rings == <<txSpace, rxSpace>>
task == <<pc, seen, len, port>>
history == <<owed, deaf, moved>>
UartVars == <<buffEn, registers, fifos, rings, task, history>>

-----------------------------------------------------------------------------

UartInit ==
  /\ buffEn \in Builds
  /\ ena = {} /\ raised = {} /\ tx = [u \in UARTs |-> 0] /\ rx = 0
  /\ txSpace = NULL /\ rxSpace = NULL
  /\ pc = "idle" /\ seen = {} /\ len = 0 /\ port = 0
  /\ owed = 0 /\ deaf = TRUE /\ moved = FALSE

Goto(place) == pc' = place

\* The call returns; its locals are gone.
Return == Goto("idle") /\ seen' = {} /\ len' = 0 /\ port' = 0

\* Room for another byte, as far as the driver goes.
HasRoom(u) == tx[u] < FIFO_LEN - 2

MinOf(a, b) == IF a < b THEN a ELSE b

-----------------------------------------------------------------------------
(* The hardware.                                                           *)

Transmit(u) ==
  /\ tx[u] > 0 /\ tx' = [tx EXCEPT ![u] = @ - 1]
  /\ UNCHANGED <<buffEn, registers, rx, rings, task, history>>

\* A byte is received, or lost to a full FIFO.
Arrive ==
  /\ IF rx < FIFO_LEN THEN rx' = rx + 1 /\ UNCHANGED raised
     ELSE raised' = raised \cup {"RXFIFO_OVF"} /\ UNCHANGED rx
  /\ UNCHANGED <<buffEn, ena, tx, rings, task, history>>

\* A bad frame, or a pause after a byte.
Raise ==
  /\ \/ raised' = raised \cup {"FRM_ERR"}
     \/ rx > 0 /\ raised' = raised \cup {"RXFIFO_TOUT"}
  /\ UNCHANGED <<buffEn, ena, fifos, rings, task, history>>

-----------------------------------------------------------------------------
(* uart0_rx_intr_handler: one cause a call, in this order.                 *)

\* UART_INT_ST: the FIFO levels, and what is latched, as far as enabled.
Pending ==
  ena \cap (raised \cup (IF rx >= FULL_AT THEN {"RXFIFO_FULL"} ELSE {})
                   \cup (IF tx[0] < EMPTY_BELOW THEN {"TXFIFO_EMPTY"} ELSE {}))

\* Mutant of Debug: the FIFO is not looked at.
Debug_Brim == tx' = [tx EXCEPT ![1] = FIFO_LEN]

\* uart1_sendStr_no_wait: a message longer than the FIFO, cut where it is full.
Debug == tx' = [tx EXCEPT ![1] = IF HasRoom(1) THEN FIFO_LEN - 2 ELSE @]

FrameError ==
  /\ "FRM_ERR" \in Pending
  /\ Debug /\ raised' = raised \ {"FRM_ERR"}
  /\ UNCHANGED <<buffEn, ena, rx, rings, task, history>>

\* Mutant of Discard: the receive interrupts stay disabled.
Discard_Deaf ==
  /\ "FRM_ERR" \notin Pending /\ Pending \cap Receive # {}
  /\ rx' = 0 /\ raised' = raised \ Receive /\ ena' = ena \ Receive
  /\ UNCHANGED <<buffEn, tx, rings, task, history>>

\* The FIFO is read out and nobody gets the bytes.
Discard ==
  /\ "FRM_ERR" \notin Pending /\ Pending \cap Receive # {}
  /\ rx' = 0 /\ raised' = raised \ Receive /\ ena' = ena \cup Receive
  /\ UNCHANGED <<buffEn, tx, rings, task, history>>

\* Mutant of StartBuffer: the interrupt stays off with bytes left in the ring.
StartBuffer_Once ==
  LET n == MinOf(BUFFER_SIZE - txSpace, FIFO_LEN - tx[0]) IN
  /\ tx' = [tx EXCEPT ![0] = @ + n]
  /\ txSpace' = txSpace + n /\ owed' = owed - n
  /\ ena' = ena \ {"TXFIFO_EMPTY"}

\* tx_start_uart_buffer: as much of the ring as the FIFO takes.
StartBuffer ==
  LET n == MinOf(BUFFER_SIZE - txSpace, FIFO_LEN - tx[0]) IN
  /\ tx' = [tx EXCEPT ![0] = @ + n]
  /\ txSpace' = txSpace + n /\ owed' = owed - n
  /\ ena' = IF BUFFER_SIZE - txSpace > FIFO_LEN - tx[0] THEN ena
            ELSE ena \ {"TXFIFO_EMPTY"}

FifoEmpty ==
  /\ Pending \cap (Receive \cup {"FRM_ERR"}) = {} /\ "TXFIFO_EMPTY" \in Pending
  /\ \/ buffEn /\ txSpace # NULL /\ StartBuffer
     \/ /\ buffEn /\ txSpace = NULL
        /\ Debug /\ ena' = ena \ {"TXFIFO_EMPTY"} /\ UNCHANGED <<txSpace, owed>>
     \/ ~buffEn /\ ena' = ena \ {"TXFIFO_EMPTY"} /\ UNCHANGED <<tx, txSpace, owed>>
  /\ moved' = (pc = "finish")
  /\ UNCHANGED <<buffEn, raised, rx, rxSpace, task, deaf>>

Overflow ==
  /\ Pending = {"RXFIFO_OVF"}
  /\ Debug /\ raised' = raised \ {"RXFIFO_OVF"}
  /\ UNCHANGED <<buffEn, ena, rx, rings, task, history>>

uart0_rx_intr_handler == FrameError \/ Discard \/ FifoEmpty \/ Overflow

-----------------------------------------------------------------------------
(* The task.  A call begins where pc is "idle".                            *)

\* uart_init_3 and uart_init, which uart_reattach calls, begin with uart_config of
\* UART0: its FIFOs are reset,
uart_config ==
  /\ pc = "idle" /\ Goto("config") /\ tx' = [tx EXCEPT ![0] = 0] /\ rx' = 0
  /\ UNCHANGED <<buffEn, registers, rings, seen, len, port, history>>

\* UART_INT_ENA is read
ReadMask ==
  /\ \/ pc = "config" /\ Goto("errors") /\ seen' = ena \cup {"RXFIFO_TOUT", "FRM_ERR"}
     \/ pc = "cleared" /\ Goto("others") /\ seen' = ena \cup {"RXFIFO_FULL", "RXFIFO_OVF"}
  /\ UNCHANGED <<buffEn, registers, fifos, rings, len, port, history>>

\* and written back, twice,
WriteMask ==
  /\ \/ pc = "errors" /\ Goto("clear") /\ UNCHANGED deaf
     \/ pc = "others" /\ Goto("second") /\ deaf' = FALSE
  /\ ena' = seen /\ seen' = {}
  /\ UNCHANGED <<buffEn, raised, fifos, rings, len, port, owed, moved>>

\* and what is latched is cleared in between.
ClearAll ==
  /\ pc = "clear" /\ Goto("cleared") /\ raised' = {}
  /\ UNCHANGED <<buffEn, ena, fifos, rings, seen, len, port, history>>

\* After UART1 uart_init, not uart_init_3, makes new rings, if the heap allows.
uart_init ==
  /\ pc = "second" /\ tx' = [tx EXCEPT ![1] = 0]
  /\ Goto("idle") \/ (buffEn /\ Goto("rings"))
  /\ UNCHANGED <<buffEn, registers, rx, rings, seen, len, port, history>>

NewRings ==
  /\ pc = "rings" /\ Goto("idle")
  /\ txSpace' \in {NULL, BUFFER_SIZE} /\ rxSpace' \in {NULL, BUFFER_SIZE}
  /\ owed' = 0
  /\ UNCHANGED <<buffEn, registers, fifos, seen, len, port, deaf, moved>>

\* uart0_tx_buffer, uart0_sendStr and, for os_printf, uart0_write_char and
\* uart1_write_char write n bytes, each when the FIFO has room.
WriteChars(u, n) ==
  /\ pc = "idle" /\ Goto("char") /\ port' = u /\ len' = n
  /\ UNCHANGED <<buffEn, registers, fifos, rings, seen, history>>

\* uart_tx_one_char waits for room
CheckRoom ==
  /\ pc = "char"
  /\ \/ len = 0 /\ Return
     \/ len > 0 /\ HasRoom(port) /\ Goto("put") /\ UNCHANGED <<seen, len, port>>
  /\ UNCHANGED <<buffEn, registers, fifos, rings, history>>

\* and writes, whatever has been written since.
PutChar ==
  /\ pc = "put" /\ Goto("char") /\ len' = len - 1
  /\ tx' = [tx EXCEPT ![port] = MinOf(@ + 1, FIFO_LEN)]
  /\ UNCHANGED <<buffEn, registers, rx, rings, seen, port, owed, deaf, moved>>

\* tx_buff_enq reads UART_INT_ENA,
tx_buff_enq(n) ==
  /\ buffEn /\ pc = "idle" /\ Goto("mask") /\ len' = n /\ seen' = ena
  /\ UNCHANGED <<buffEn, registers, fifos, rings, port, history>>

\* Mutant of Mask: the interrupt is left on.
Mask_None ==
  /\ pc = "mask" /\ Goto("copy")
  /\ UNCHANGED <<buffEn, registers, fifos, rings, seen, len, port, history>>

\* writes it back without TXFIFO_EMPTY,
Mask ==
  /\ pc = "mask" /\ Goto("copy") /\ ena' = seen \ {"TXFIFO_EMPTY"} /\ seen' = {}
  /\ UNCHANGED <<buffEn, raised, fifos, rings, len, port, history>>

\* copies what the ring has room for (a ring it has just made has room for
\* all, and is not asked),
Copy ==
  /\ pc = "copy"
  /\ \E space \in IF txSpace = NULL THEN {NULL, BUFFER_SIZE} ELSE {txSpace} :
       IF space = NULL \/ len > space
       THEN /\ Goto("unmask") /\ Debug /\ len' = 0 /\ UNCHANGED <<seen, txSpace, owed>>
       ELSE /\ Goto("space") /\ txSpace' = space /\ seen' = {space}
            /\ owed' = owed + len /\ UNCHANGED len
            /\ IF txSpace = NULL THEN Debug ELSE UNCHANGED tx
  /\ UNCHANGED <<buffEn, registers, rx, rxSpace, port, deaf, moved>>

\* stores the Space it has read less len,
StoreSpace ==
  /\ pc = "space" /\ Goto("unmask")
  /\ txSpace' \in {space - len : space \in seen} /\ seen' = {} /\ len' = 0
  /\ UNCHANGED <<buffEn, registers, fifos, rxSpace, port, history>>

\* and enables the interrupt again, in two steps (see EnableSeen).
Unmask ==
  /\ pc = "unmask" /\ Goto("txon") /\ seen' = ena
  /\ UNCHANGED <<buffEn, registers, fifos, rings, len, port, history>>

\* Both functions of the receive ring end by enabling the receive interrupts,
\* if the ring has room for a FIFO.
EnableIfRoom ==
  IF rxSpace' >= FIFO_LEN THEN Goto("enable") /\ seen' = {} /\ len' = 0 /\ port' = 0
  ELSE Return

\* Uart_rx_buff_enq: what the FIFO held when it was looked at, if that leaves
\* space.  The handler may have emptied the FIFO since; reads then give
\* whatever the register holds.
Uart_rx_buff_enq ==
  /\ buffEn /\ rxSpace # NULL /\ pc = "idle" /\ Goto("rxread") /\ len' = rx
  /\ UNCHANGED <<buffEn, registers, fifos, rings, seen, port, history>>

ReadFifo ==
  /\ pc = "rxread"
  /\ IF len >= rxSpace THEN Return /\ UNCHANGED <<rx, rxSpace>>
     ELSE /\ rx' = IF rx > len THEN rx - len ELSE 0
          /\ rxSpace' = rxSpace - len
          /\ EnableIfRoom
  /\ UNCHANGED <<buffEn, registers, tx, txSpace, history>>

rx_buff_deq(n) ==
  /\ buffEn /\ rxSpace # NULL /\ pc = "idle"
  /\ rxSpace' = rxSpace + MinOf(n, BUFFER_SIZE - rxSpace)
  /\ EnableIfRoom
  /\ UNCHANGED <<buffEn, registers, fifos, txSpace, history>>

\* uart_rx_intr_enable and uart_rx_intr_disable, when the application calls
\* them and, enable, in the functions above: UART_INT_ENA is read
ChangeReceive(place) ==
  /\ pc \in {"idle", "enable"} /\ (pc = "enable" => place = "rxon")
  /\ Goto(place) /\ seen' = ena
  /\ UNCHANGED <<buffEn, registers, fifos, rings, len, port, history>>

\* and written back.
EnableSeen ==
  /\ pc \in {"rxon", "rxoff", "txon"} /\ Return
  /\ \/ pc = "rxon" /\ ena' = seen \cup Receive /\ deaf' = FALSE
     \/ pc = "rxoff" /\ ena' = seen \ Receive /\ deaf' = TRUE
     \/ pc = "txon" /\ ena' = seen \cup {"TXFIFO_EMPTY"} /\ UNCHANGED deaf
  /\ UNCHANGED <<buffEn, raised, fifos, rings, owed, moved>>

\* UART_SetIntrEna reads the mask to add bits to it,
UART_SetIntrEna(mask) ==
  /\ pc = "idle" /\ Goto("set") /\ seen' = ena \cup mask
  /\ UNCHANGED <<buffEn, registers, fifos, rings, len, port, history>>

\* and writes it back.
MaskSet ==
  /\ pc = "set" /\ Return /\ ena' = seen /\ deaf' = (deaf /\ ~(Receive \subseteq seen))
  /\ UNCHANGED <<buffEn, raised, fifos, rings, owed, moved>>

UART_ClearIntrStatus(mask) ==
  /\ pc = "idle" /\ raised' = raised \ mask
  /\ UNCHANGED <<buffEn, ena, fifos, rings, task, history>>

UART_ResetFifo(u) ==
  /\ pc = "idle" /\ tx' = [tx EXCEPT ![u] = 0] /\ rx' = IF u = 0 THEN 0 ELSE rx
  /\ UNCHANGED <<buffEn, registers, rings, task, history>>

\* UART_CheckOutputFinished looks at the FIFO,
CheckFifo ==
  /\ pc = "idle" /\ Goto("finish") /\ len' = tx[0] /\ moved' = FALSE
  /\ UNCHANGED <<buffEn, registers, fifos, rings, seen, port, owed, deaf>>

\* Mutant of Finished: the FIFO is all it looks at.
Finished_Fifo ==
  /\ pc = "finish" /\ len = 0
  /\ Return /\ moved' = FALSE
  /\ UNCHANGED <<buffEn, registers, fifos, rings, owed, deaf>>

\* then at the ring.  Nothing in either is TRUE;
Finished ==
  /\ pc = "finish" /\ len = 0 /\ txSpace \in {NULL, BUFFER_SIZE}
  /\ Return /\ moved' = FALSE
  /\ UNCHANGED <<buffEn, registers, fifos, rings, owed, deaf>>

\* if there is something it looks again or, in the end, answers FALSE.
NotFinished ==
  /\ pc = "finish" /\ ~(len = 0 /\ txSpace \in {NULL, BUFFER_SIZE})
  /\ moved' = FALSE
  /\ \/ Return
     \/ Goto("finish") /\ len' = tx[0] /\ UNCHANGED <<seen, port>>
  /\ UNCHANGED <<buffEn, registers, fifos, rings, owed, deaf>>

Call ==
  \/ uart_config \/ Uart_rx_buff_enq \/ CheckFifo
  \/ \E u \in UARTs, n \in 1 .. MaxLen : WriteChars(u, n)
  \/ \E n \in 1 .. MaxLen : tx_buff_enq(n) \/ rx_buff_deq(n)
  \/ \E place \in {"rxon", "rxoff"} : pc = "idle" /\ ChangeReceive(place)
  \/ \E mask \in Masks : UART_SetIntrEna(mask)
  \/ \E mask \in SUBSET {"FRM_ERR", "RXFIFO_TOUT", "RXFIFO_OVF"} : UART_ClearIntrStatus(mask)
  \/ \E u \in UARTs : UART_ResetFifo(u)

Continue ==
  \/ ReadMask \/ WriteMask \/ ClearAll \/ uart_init \/ NewRings \/ MaskSet
  \/ CheckRoom \/ PutChar \/ Mask \/ Copy \/ StoreSpace \/ Unmask
  \/ ReadFifo \/ (pc = "enable" /\ ChangeReceive("rxon")) \/ EnableSeen
  \/ Finished \/ NotFinished

UartNext ==
  \/ Arrive \/ Raise \/ \E u \in UARTs : Transmit(u)
  \/ uart0_rx_intr_handler
  \/ Call \/ Continue

UartSpec == UartInit /\ [][UartNext]_UartVars

\* The handler runs when it should and in time for its last cause, and a byte is
\* on the wire for a while only.
UartFairness ==
  WF_UartVars(uart0_rx_intr_handler) /\ SF_UartVars(FifoEmpty) /\ WF_UartVars(Transmit(0))

-----------------------------------------------------------------------------

UartTypeOK ==
  /\ buffEn \in Builds /\ ena \subseteq Interrupts /\ raised \subseteq Interrupts
  /\ tx \in [UARTs -> 0 .. FIFO_LEN] /\ rx \in 0 .. FIFO_LEN
  /\ txSpace \in NULL .. BUFFER_SIZE /\ rxSpace \in NULL .. BUFFER_SIZE
  /\ port \in UARTs /\ len \in 0 .. FIFO_LEN + BUFFER_SIZE

InEnqueue == pc \in {"mask", "copy", "space", "unmask", "txon"}

\* Bytes in the transmit ring are never stranded: the interrupt that moves
\* them on is enabled, or tx_buff_enq is about to enable it.
TxArmed ==
  txSpace # NULL /\ txSpace < BUFFER_SIZE => "TXFIFO_EMPTY" \in ena \/ InEnqueue

\* The ring's Space accounts for every byte accepted and not passed on: the
\* interrupt never gets between a task's read of Space and its write.
SpaceExact ==
  txSpace # NULL => BUFFER_SIZE - txSpace = owed - (IF pc = "space" THEN len ELSE 0)

\* A character is lost to a full FIFO only on UART0 and only if the handler
\* writes there too: on UART1, what the handler prints between the task's check
\* and its write leaves two bytes free.
CharsKept == [][PutChar => tx[port] < FIFO_LEN \/ (buffEn /\ port = 0)]_UartVars

\* Reception goes on, as long as the application does not disable it itself.
NeverDeaf == ~deaf => Receive \subseteq ena

\* The receive ring never fills up, where rx_buff_deq would take full for
\* empty.
RxNeverFull == rxSpace # 0

\* UART_CheckOutputFinished is right when it returns TRUE, but for bytes the
\* handler moved from the ring to the FIFO after it had looked at the FIFO.
FinishedIsFinished ==
  [][Finished => /\ txSpace # NULL => owed = 0
                 /\ tx[0] = 0 \/ moved]_UartVars

\* Everything goes out, once the task writes no more, unless reception always
\* has an interrupt pending: those come first.
AllSent ==
  /\ <>[](pc = "idle")
  /\ []<>(Pending \cap (Receive \cup {"FRM_ERR"}) = {})
  => <>[](tx[0] = 0 /\ owed = 0)
=============================================================================
