------------------------------ MODULE SpiSlave -----------------------------
(***************************************************************************)
(* spi.c as a slave.  The other chip writes a buffer of words or reads one *)
(* at times of its own; each transfer latches a flag and interrupts.  The  *)
(* handler reads the flags, clears all of them, copies a written buffer    *)
(* word by word, low on GPIO0 meanwhile, and takes GPIO2 low when its own  *)
(* buffer has been read.                                                   *)
(***************************************************************************)
EXTENDS Naturals, FiniteSets

CONSTANTS
  Words,     \* words of the buffer, 8
  Frames,    \* contents the other chip writes
  Lengths    \* data_len of spi_slave_init

ASSUME SpiSlaveAssumption == Words \in Nat \ {0} /\ Lengths \subseteq 0 .. 255

VARIABLES
  (* the controller *)
  done,      \* latched flags: "WR_BUF", "RD_BUF"
  buffer,    \* SPI_W0 .. SPI_W7
  arriving,  \* words of a write that have arrived, 0 between writes
  incoming,  \* what is being written, or was last
  bitLength, \* SPI_SLV_BUF_BITLEN, the set of its bits
  (* the driver *)
  step,      \* where the handler is
  regvalue,  \* the flags it has read
  idx,
  spi_data,
  gpio0, gpio2,
  (* history, read by no action *)
  hurried,   \* a write began before the handler was done with the one before
  missed,    \* a transfer ended between the handler's read of the flags and
             \* its clearing them
  taken,     \* the other chip has read since GPIO2 went high
  dataLen    \* data_len of the only spi_slave_init, or {}

SlaveVars == <<done, buffer, arriving, incoming, bitLength, step, regvalue, idx,
               spi_data, gpio0, gpio2, hurried, missed, taken, dataLen>>

BitsOf9(n) == {b \in 0 .. 8 : (n \div 2^b) % 2 = 1}

Nothing == [i \in 1 .. Words |-> 0]

-----------------------------------------------------------------------------

SlaveInit ==
  /\ done = {} /\ buffer = Nothing /\ arriving = 0 /\ incoming = 0 /\ bitLength = {}
  /\ step = "idle" /\ regvalue = {} /\ idx = 0 /\ spi_data = Nothing
  /\ gpio0 = 1 /\ gpio2 = 0
  /\ hurried = FALSE /\ missed = {} /\ taken = FALSE /\ dataLen = {}

DataBitLength(data_len) ==
  IF data_len <= 1 THEN 7 ELSE IF data_len >= 32 THEN 255 ELSE data_len * 8 - 1

\* spi_slave_init sets the bits of the length; it clears none of an earlier
\* length.
spi_slave_init(data_len) ==
  /\ step = "idle"
  /\ bitLength' = bitLength \cup BitsOf9(DataBitLength(data_len))
  /\ dataLen' = IF bitLength = {} THEN {data_len} ELSE {}
  /\ UNCHANGED <<done, buffer, arriving, incoming, step, regvalue, idx, spi_data,
                 gpio0, gpio2, hurried, missed, taken>>

Inited == bitLength # {}

\* The other chip writes a word,
WriteWord(f) ==
  /\ Inited /\ IF arriving = 0 THEN incoming' = f ELSE f = incoming /\ UNCHANGED incoming
  /\ arriving < Words /\ arriving' = arriving + 1
  /\ buffer' = [buffer EXCEPT ![arriving + 1] = f]
  /\ hurried' = IF arriving = 0 THEN "WR_BUF" \in done \/ step # "idle" ELSE hurried
  /\ missed' = IF arriving = 0 THEN missed \ {"WR_BUF"} ELSE missed
  /\ UNCHANGED <<done, bitLength, step, regvalue, idx, spi_data, gpio0, gpio2, taken,
                 dataLen>>

Miss(flag) == IF step = "clear" THEN missed \cup {flag} ELSE missed

\* and ends the transfer;
WriteEnd ==
  /\ arriving = Words /\ arriving' = 0
  /\ done' = done \cup {"WR_BUF"} /\ missed' = Miss("WR_BUF")
  /\ UNCHANGED <<buffer, incoming, bitLength, step, regvalue, idx, spi_data, gpio0,
                 gpio2, hurried, taken, dataLen>>

\* or it reads what SPI_W8 .. SPI_W15 hold.
Read ==
  /\ Inited /\ arriving = 0
  /\ done' = done \cup {"RD_BUF"} /\ missed' = Miss("RD_BUF") /\ taken' = TRUE
  /\ UNCHANGED <<buffer, arriving, incoming, bitLength, step, regvalue, idx, spi_data,
                 gpio0, gpio2, hurried, dataLen>>

\* The application has put new data there.
Prepare ==
  /\ step = "idle" /\ gpio2 = 0
  /\ gpio2' = 1 /\ taken' = FALSE /\ missed' = missed \ {"RD_BUF"}
  /\ UNCHANGED <<done, buffer, arriving, incoming, bitLength, step, regvalue, idx,
                 spi_data, gpio0, hurried, dataLen>>

\* spi_slave_isr_handler reads the flags,
ReadFlags ==
  /\ step = "idle" /\ done # {}
  /\ step' = "clear" /\ regvalue' = done
  /\ UNCHANGED <<done, buffer, arriving, incoming, bitLength, idx, spi_data, gpio0,
                 gpio2, hurried, missed, taken, dataLen>>

\* clears them,
ClearFlags ==
  /\ step = "clear" /\ done' = {}
  /\ IF "WR_BUF" \in regvalue THEN step' = "copy" /\ gpio0' = 0
     ELSE step' = "read" /\ UNCHANGED gpio0
  /\ UNCHANGED <<buffer, arriving, incoming, bitLength, regvalue, idx, spi_data, gpio2,
                 hurried, missed, taken, dataLen>>

\* Mutant of CopyWord: the last word is left out.
CopyWord_Short ==
  /\ step = "copy"
  /\ IF idx < Words - 1
     THEN /\ idx' = idx + 1 /\ spi_data' = [spi_data EXCEPT ![idx + 1] = buffer[idx + 1]]
          /\ UNCHANGED <<step, gpio0>>
     ELSE step' = "read" /\ gpio0' = 1 /\ idx' = 0 /\ UNCHANGED spi_data
  /\ UNCHANGED <<done, buffer, arriving, incoming, bitLength, regvalue, gpio2, hurried,
                 missed, taken, dataLen>>

\* copies a buffer that was written
CopyWord ==
  /\ step = "copy"
  /\ IF idx < Words
     THEN /\ idx' = idx + 1 /\ spi_data' = [spi_data EXCEPT ![idx + 1] = buffer[idx + 1]]
          /\ UNCHANGED <<step, gpio0>>
     ELSE step' = "read" /\ gpio0' = 1 /\ idx' = 0 /\ UNCHANGED spi_data
  /\ UNCHANGED <<done, buffer, arriving, incoming, bitLength, regvalue, gpio2, hurried,
                 missed, taken, dataLen>>

\* and notes that its own was read.
NoteRead ==
  /\ step = "read" /\ step' = "idle" /\ regvalue' = {}
  /\ gpio2' = IF "RD_BUF" \in regvalue THEN 0 ELSE gpio2
  /\ UNCHANGED <<done, buffer, arriving, incoming, bitLength, idx, spi_data, gpio0,
                 hurried, missed, taken, dataLen>>

SlaveNext ==
  \/ \E n \in Lengths : spi_slave_init(n)
  \/ \E f \in Frames : WriteWord(f)
  \/ WriteEnd \/ Read \/ Prepare
  \/ ReadFlags \/ ClearFlags \/ CopyWord \/ NoteRead

SlaveSpec == SlaveInit /\ [][SlaveNext]_SlaveVars

-----------------------------------------------------------------------------

Quiet == step = "idle" /\ done = {} /\ arriving = 0

\* When the handler has copied a buffer it has all words of the last one, unless
\* the other chip began to write before the handler was done with the one
\* before; and in the end it has the last one even so, unless that ended in the
\* few instructions in which the handler drops the flag.
BufferWhole ==
  \/ step = "read" /\ "WR_BUF" \in regvalue /\ ~hurried
  \/ Quiet /\ incoming # 0 /\ "WR_BUF" \notin missed
  => \A i \in 1 .. Words : spi_data[i] = incoming

\* While nothing is being handled GPIO2 tells whether the data prepared has
\* been read, but for a read that ended in those instructions.
ReadNoticed == Quiet /\ "RD_BUF" \notin missed => ~(gpio2 = 1 /\ taken)

\* The buffer is as long as asked for, between one and 32 bytes, on the first
\* call of spi_slave_init.
BufferLength ==
  \A n \in dataLen :
    LET bytes == IF n = 0 THEN 1 ELSE IF n > 32 THEN 32 ELSE n
    IN  bitLength = BitsOf9(8 * bytes - 1)

\* Both buffers are passed on whole, and as long as asked for.
BuffersPassed == BufferWhole /\ ReadNoticed /\ BufferLength
=============================================================================
