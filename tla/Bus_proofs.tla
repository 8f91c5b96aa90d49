----------------------------- MODULE Bus_proofs -----------------------------
(***************************************************************************)
(* The buses.  Whatever the devices' settings and the path of selections,  *)
(* HSPI drives one chip, as it needs to be driven; the SPI slave's handler *)
(* passes buffers whole, however the master's writes interleave; on I2C    *)
(* bytes and answers arrive, wherever the processor is reset.              *)
(***************************************************************************)
EXTENDS HspiOverlap, SpiSlave, SpiMaster, I2cMaster, Induction, SequenceTheorems

-----------------------------------------------------------------------------
(* spi_overlap.c                                                           *)

Settings == [active : BOOLEAN, polar : BOOLEAN, div : 0 .. 31]

OverlapTypeOK ==
  /\ io80m \in BOOLEAN /\ backedUp \in BOOLEAN /\ overlap \in BOOLEAN /\ devCs \in BOOLEAN
  /\ late \in BOOLEAN
  /\ conf \in [Devices -> Settings] /\ applied \in Settings
  /\ selected \in Devices \cup {HSPI_IDLE}

UserBits == {"FLASH_MODE", "USR_COMMAND", "CS_SETUP", "CS_HOLD", "CK_OUT_EDGE"}

Registers == [user : SUBSET UserBits, equ : BOOLEAN, div : Nat, off : SUBSET {0, 1, 2}]

RegistersOK == regs \in Registers /\ flashRegs \in Registers /\ devRegs \in Registers

\* Registers as the flash needs them.
Flashed(r) ==
  /\ "FLASH_MODE" \in r.user /\ "USR_COMMAND" \notin r.user /\ "CK_OUT_EDGE" \notin r.user
  /\ r.div = Reset

\* No device can be selected before the registers are backed up.
NotBefore ==
  ~backedUp =>
    /\ \A d \in Devices : ~conf[d].active
    /\ Flashed(regs) /\ ~overlap /\ ~late

\* The two sets of registers.
BackedUp ==
  backedUp =>
    /\ Flashed(flashRegs) /\ (flashRegs.equ <=> io80m)
    /\ "FLASH_MODE" \notin devRegs.user /\ "USR_COMMAND" \in devRegs.user
    /\ "CS_SETUP" \in devRegs.user

\* Who has the pins, and which line is enabled.
PinsOK ==
  /\ backedUp => (overlap <=> selected \in OnFlashPins)
  /\ late => overlap
  /\ InUse => regs.off = {0, 1, 2} \ {Line(selected)}
  /\ InUse /\ selected = HSPI_CS_DEV => devCs
  /\ InUse /\ selected \in OnFlashPins /\ devCs => late

OverlapInv ==
  /\ OverlapTypeOK /\ RegistersOK /\ NotBefore /\ BackedUp /\ PinsOK
  /\ TimingOfSelected /\ ModeOfSelected

-----------------------------------------------------------------------------

\* At boot the registers are those of the flash and no device is active.
LEMMA OverlapInitInv == OverlapInit => OverlapInv
<1> SUFFICES ASSUME OverlapInit PROVE OverlapInv
  OBVIOUS
<1>1. PICK setup \in SUBSET {"CS_SETUP"} :
        regs = [user |-> {"FLASH_MODE"} \cup setup, equ |-> FALSE, div |-> Reset, off |-> {1, 2}]
  BY DEF OverlapInit
<1>2. OverlapTypeOK
  <2>1. Inactive \in Settings
    BY DEF Inactive, Settings
  <2>2. conf \in [Devices -> Settings]
    BY <2>1 DEF OverlapInit
  <2>3. selected \in Devices
    BY DEF OverlapInit, Devices, HSPI_CS_DEV
  <2>4. /\ io80m \in BOOLEAN /\ backedUp \in BOOLEAN /\ overlap \in BOOLEAN /\ devCs \in BOOLEAN
        /\ late \in BOOLEAN
    BY DEF OverlapInit
  <2>5. applied \in Settings
    BY <2>1 DEF OverlapInit
  <2> QED
    BY <2>2, <2>3, <2>4, <2>5 DEF OverlapTypeOK
<1>3. RegistersOK
  <2>1. regs \in Registers
    BY <1>1 DEF Registers, UserBits, Reset
  <2>2. NoRegs \in Registers
    BY DEF Registers, NoRegs
  <2> QED
    BY <2>1, <2>2 DEF OverlapInit, RegistersOK
<1>4. NotBefore
  BY <1>1 DEF OverlapInit, NotBefore, Flashed, Inactive
<1>5. BackedUp /\ PinsOK /\ TimingOfSelected /\ ModeOfSelected
  BY DEF OverlapInit, BackedUp, PinsOK, TimingOfSelected, ModeOfSelected, InUse
<1> QED
  BY <1>2, <1>3, <1>4, <1>5 DEF OverlapInv

\* Backing up gives each side its registers and leaves what is in use alone.
LEMMA BackUpFacts ==
  ASSUME OverlapInv, BackUp, io80m' = io80m
  PROVE  /\ backedUp' /\ RegistersOK' /\ BackedUp'
         /\ backedUp => UNCHANGED <<regs, selected>>
         /\ ~backedUp => selected' = HSPI_IDLE
<1>1. CASE backedUp
  BY <1>1 DEF BackUp, OverlapInv, RegistersOK, BackedUp
<1>2. CASE ~backedUp
  <2>1. /\ flashRegs' = [regs EXCEPT !.equ = io80m]
        /\ devRegs' = [flashRegs' EXCEPT
                         !.user = (@ \cup {"CS_SETUP", "CS_HOLD", "USR_COMMAND"}) \ {"FLASH_MODE"},
                         !.equ = FALSE, !.div = 1]
        /\ regs' = devRegs' /\ backedUp' = TRUE /\ selected' = HSPI_IDLE
    BY <1>2 DEF BackUp, spi_master_init
  <2>2. flashRegs' \in Registers /\ flashRegs'.user = regs.user
        /\ flashRegs'.equ = io80m /\ flashRegs'.div = regs.div
    BY <2>1 DEF OverlapInv, OverlapTypeOK, RegistersOK, Registers
  <2>3. /\ devRegs' \in Registers
        /\ devRegs'.user = (flashRegs'.user \cup {"CS_SETUP", "CS_HOLD", "USR_COMMAND"}) \ {"FLASH_MODE"}
    BY <2>1, <2>2 DEF Registers, UserBits
  <2>4. BackedUp'
    BY <1>2, <2>2, <2>3 DEF OverlapInv, NotBefore, BackedUp, Flashed, Reset
  <2> QED
    BY <1>2, <2>1, <2>2, <2>3, <2>4 DEF RegistersOK
<1> QED
  BY <1>1, <1>2 DEF OverlapInv, OverlapTypeOK

\* hspi_master_dev_init and hspi_overlap_flash_init (spi_overlap.c:300-352).
LEMMA DeviceInitInv ==
  ASSUME OverlapInv,
         \/ \E d \in Devices, c \in Confs : hspi_master_dev_init(d, c)
         \/ hspi_overlap_flash_init
  PROVE  OverlapInv'
<1> DEFINE Initialised ==
             /\ BackUp /\ io80m' = io80m
             /\ UNCHANGED <<overlap, applied>>
             /\ conf' \in [Devices -> Settings]
             /\ \/ UNCHANGED <<devCs, late>>
                \/ devCs' = TRUE /\ late' = (late \/ overlap)
<1>1. Initialised
  <2>1. CASE hspi_overlap_flash_init
    <3>1. [active |-> TRUE, polar |-> FALSE, div |-> 0] \in Settings
      BY DEF Settings
    <3> QED
      BY <2>1, <3>1 DEF hspi_overlap_flash_init, OverlapInv, OverlapTypeOK
  <2>2. ASSUME NEW d \in Devices, NEW c \in Confs, hspi_master_dev_init(d, c)
        PROVE  Initialised
    <3>1. [active |-> TRUE, polar |-> c.polar, div |-> c.div] \in Settings
      BY HspiAssumption DEF Settings
    <3>2. conf' \in [Devices -> Settings]
      BY <2>2, <3>1 DEF hspi_master_dev_init, OverlapInv, OverlapTypeOK
    <3> QED
      BY <2>2, <3>2 DEF hspi_master_dev_init, OverlapInv, OverlapTypeOK
  <2> QED
    BY <2>1, <2>2
<1>2. /\ backedUp' /\ RegistersOK' /\ BackedUp'
      /\ backedUp => UNCHANGED <<regs, selected>>
      /\ ~backedUp => selected' = HSPI_IDLE
  BY <1>1, BackUpFacts
<1>3. OverlapTypeOK'
  BY <1>1, <1>2 DEF OverlapInv, OverlapTypeOK
<1>4. PinsOK'
  BY <1>1, <1>2 DEF OverlapInv, OverlapTypeOK, NotBefore, PinsOK, InUse, OnFlashPins, HSPI_CS_DEV,
     HSPI_IDLE, SPI_CS0_FLASH, SPI_CS1_DEV, SPI_CS2_DEV
<1>5. TimingOfSelected' /\ ModeOfSelected'
  BY <1>1, <1>2 DEF OverlapInv, TimingOfSelected, ModeOfSelected, InUse
<1> QED
  BY <1>2, <1>3, <1>4, <1>5 DEF OverlapInv, NotBefore

\* hspi_dev_sel passes the registers through its steps: each keeps them registers.
LEMMA StepsType ==
  ASSUME OverlapInv, NEW r \in Registers, NEW d \in Devices
  PROVE  /\ TakePins(r, d) \in Registers /\ Recover(r, d) \in Registers
         /\ SetClock(r, d) \in Registers /\ SetEdge(r, d) \in Registers
         /\ Activate(r, d) \in Registers
<1>1. TakePins(r, d) \in Registers /\ SetEdge(r, d) \in Registers
  BY DEF Registers, UserBits, TakePins, SetEdge
<1>2. Recover(r, d) \in Registers
  BY DEF OverlapInv, RegistersOK, Recover
<1>3. SetClock(r, d) \in Registers
  <2>1. conf[d].div \in Nat
    BY DEF OverlapInv, OverlapTypeOK, Settings
  <2> QED
    BY <2>1 DEF Registers, SetClock
<1>4. Activate(r, d) \in Registers
  BY DEF Registers, Activate
<1> QED
  BY <1>1, <1>2, <1>3, <1>4

\* The registers after a selection: those of the side the device is on, with
\* its clock, its edge and its line.
LEMMA SelectedRegs ==
  ASSUME OverlapInv, backedUp, NEW d \in Devices, d # selected,
         NEW r, r = Activate(SetEdge(SetClock(Recover(TakePins(regs, d), d), d), d), d)
  PROVE  /\ r \in Registers
         /\ r.off = {0, 1, 2} \ {Line(d)}
         /\ "CK_OUT_EDGE" \in r.user <=> conf[d].polar /\ d # SPI_CS0_FLASH
         /\ r.equ <=> io80m /\ d \in OnFlashPins
         /\ ~r.equ => r.div = (IF d = SPI_CS0_FLASH THEN Reset ELSE conf[d].div)
         /\ "FLASH_MODE" \in r.user <=> d = SPI_CS0_FLASH
         /\ "USR_COMMAND" \in r.user <=> d # SPI_CS0_FLASH
         /\ d \in {SPI_CS1_DEV, SPI_CS2_DEV} => "CS_SETUP" \in r.user
<1> DEFINE r1 == TakePins(regs, d)
           r2 == Recover(r1, d)
           r3 == SetClock(r2, d)
           r4 == SetEdge(r3, d)
<1>1. /\ regs \in Registers /\ r1 \in Registers /\ r2 \in Registers
      /\ r3 \in Registers /\ r4 \in Registers /\ r \in Registers
  BY StepsType DEF OverlapInv, RegistersOK
<1>2. /\ r1.equ = regs.equ
      /\ "FLASH_MODE" \in r1.user <=> "FLASH_MODE" \in regs.user
      /\ "USR_COMMAND" \in r1.user <=> "USR_COMMAND" \in regs.user
      /\ d \in {SPI_CS1_DEV, SPI_CS2_DEV} /\ selected \notin OnFlashPins
           => "CS_SETUP" \in r1.user
      /\ d \in {SPI_CS1_DEV, SPI_CS2_DEV} /\ selected \in OnFlashPins => r1 = regs
  BY <1>1 DEF TakePins, Registers, OnFlashPins, SPI_CS1_DEV, SPI_CS2_DEV, HSPI_CS_DEV
<1>3. /\ d = SPI_CS0_FLASH => r2 = flashRegs
      /\ d # SPI_CS0_FLASH /\ selected \in {SPI_CS0_FLASH, HSPI_IDLE} => r2 = devRegs
      /\ d # SPI_CS0_FLASH /\ selected \notin {SPI_CS0_FLASH, HSPI_IDLE} => r2 = r1
  BY DEF Recover
<1>4. /\ "FLASH_MODE" \in r2.user <=> d = SPI_CS0_FLASH
      /\ "USR_COMMAND" \in r2.user <=> d # SPI_CS0_FLASH
      /\ d \in {SPI_CS1_DEV, SPI_CS2_DEV} => "CS_SETUP" \in r2.user
  <2>1. CASE d = SPI_CS0_FLASH
    BY <2>1, <1>3 DEF OverlapInv, BackedUp, Flashed, SPI_CS0_FLASH, SPI_CS1_DEV, SPI_CS2_DEV
  <2>2. CASE d # SPI_CS0_FLASH /\ selected \in {SPI_CS0_FLASH, HSPI_IDLE}
    BY <2>2, <1>3 DEF OverlapInv, BackedUp
  <2>3. CASE d # SPI_CS0_FLASH /\ selected \notin {SPI_CS0_FLASH, HSPI_IDLE}
    BY <2>3, <1>2, <1>3 DEF OverlapInv, OverlapTypeOK, ModeOfSelected, InUse, OnFlashPins, Devices,
       HSPI_CS_DEV, HSPI_IDLE, SPI_CS0_FLASH, SPI_CS1_DEV, SPI_CS2_DEV
  <2> QED
    BY <2>1, <2>2, <2>3
<1>5. /\ r3.user = r2.user
      /\ r3.equ <=> io80m /\ d \in OnFlashPins
      /\ ~r3.equ => r3.div = (IF d = SPI_CS0_FLASH THEN Reset ELSE conf[d].div)
  <2>1. CASE d = SPI_CS0_FLASH
    BY <2>1, <1>1, <1>3 DEF SetClock, Registers, OverlapInv, BackedUp, Flashed, OnFlashPins
  <2>2. CASE d # SPI_CS0_FLASH /\ d \in OnFlashPins /\ io80m
    <3>1. selected \in {SPI_CS1_DEV, SPI_CS2_DEV} => r2.equ
      BY <2>2, <1>2, <1>3 DEF OverlapInv, TimingOfSelected, InUse, OnFlashPins, HSPI_IDLE,
         SPI_CS0_FLASH, SPI_CS1_DEV, SPI_CS2_DEV
    <3> QED
      BY <2>2, <3>1, <1>1 DEF SetClock, Registers
  <2>3. CASE d # SPI_CS0_FLASH /\ ~(d \in OnFlashPins /\ io80m)
    BY <2>3, <1>1 DEF SetClock, Registers, OverlapInv, OverlapTypeOK
  <2> QED
    BY <2>1, <2>2, <2>3
<1>6. /\ r4.equ = r3.equ /\ r4.div = r3.div
      /\ r4.user \ {"CK_OUT_EDGE"} = r3.user \ {"CK_OUT_EDGE"}
      /\ "CK_OUT_EDGE" \in r4.user <=> conf[d].polar /\ d # SPI_CS0_FLASH
  BY <1>1 DEF SetEdge, Registers
<1>7. r.user = r4.user /\ r.equ = r4.equ /\ r.div = r4.div /\ r.off = {0, 1, 2} \ {Line(d)}
  BY <1>1 DEF Activate, Registers
<1>8. /\ "FLASH_MODE" \in r.user <=> "FLASH_MODE" \in r2.user
      /\ "USR_COMMAND" \in r.user <=> "USR_COMMAND" \in r2.user
      /\ "CS_SETUP" \in r.user <=> "CS_SETUP" \in r2.user
  BY <1>5, <1>6, <1>7
<1> QED
  BY <1>1, <1>4, <1>5, <1>6, <1>7, <1>8

\* hspi_dev_sel (spi_overlap.c:149-292).
LEMMA SelectInv ==
  ASSUME OverlapInv, NEW d \in Devices, hspi_dev_sel(d)
  PROVE  OverlapInv'
<1>1. CASE conf[d].active /\ d # selected
  <2>1. backedUp
    BY <1>1 DEF OverlapInv, NotBefore
  <2>2. /\ regs' = Activate(SetEdge(SetClock(Recover(TakePins(regs, d), d), d), d), d)
        /\ PinsFor(d) /\ selected' = d /\ applied' = conf[d]
        /\ UNCHANGED <<io80m, conf, backedUp, flashRegs, devRegs>>
    BY <1>1 DEF hspi_dev_sel
  <2>3. /\ regs' \in Registers
        /\ regs'.off = {0, 1, 2} \ {Line(d)}
        /\ "CK_OUT_EDGE" \in regs'.user <=> conf[d].polar /\ d # SPI_CS0_FLASH
        /\ regs'.equ <=> io80m /\ d \in OnFlashPins
        /\ ~regs'.equ => regs'.div = (IF d = SPI_CS0_FLASH THEN Reset ELSE conf[d].div)
        /\ "FLASH_MODE" \in regs'.user <=> d = SPI_CS0_FLASH
        /\ "USR_COMMAND" \in regs'.user <=> d # SPI_CS0_FLASH
        /\ d \in {SPI_CS1_DEV, SPI_CS2_DEV} => "CS_SETUP" \in regs'.user
    BY <1>1, <2>1, <2>2, SelectedRegs
  <2>4. OverlapTypeOK'
    <3>1. overlap' \in BOOLEAN /\ devCs' \in BOOLEAN /\ late' \in BOOLEAN
      <4>1. overlap' = (d \in OnFlashPins)
        BY <2>2 DEF PinsFor
      <4>2. overlap' \in BOOLEAN
        <5>1. CASE d \in OnFlashPins
          BY <4>1, <5>1
        <5>2. CASE d \notin OnFlashPins
          BY <4>1, <5>2
        <5> QED
          BY <5>1, <5>2
      <4>3. devCs' \in {TRUE, FALSE, devCs}
        BY <2>2, Zenon DEF PinsFor
      <4>4. devCs' \in BOOLEAN
        BY <4>3, Zenon DEF OverlapInv, OverlapTypeOK
      <4>5. late' \in BOOLEAN
        BY <2>2, Zenon DEF PinsFor
      <4> QED
        BY <4>2, <4>4, <4>5, Zenon
    <3> QED
      BY <2>2, <3>1 DEF OverlapInv, OverlapTypeOK
  <2>5. RegistersOK' /\ NotBefore' /\ BackedUp'
    BY <2>1, <2>2, <2>3 DEF OverlapInv, RegistersOK, NotBefore, BackedUp
  <2>6. PinsOK'
    <3>1. overlap' <=> selected' \in OnFlashPins
      BY <2>2 DEF PinsFor
    <3>2. late' => overlap'
      BY <2>2 DEF PinsFor
    <3>3. regs'.off = {0, 1, 2} \ {Line(selected')}
      BY <2>2, <2>3
    <3>4. selected' = HSPI_CS_DEV => devCs'
      BY <2>2 DEF PinsFor
    <3>5. selected' \in OnFlashPins /\ devCs' => late'
      <4>1. SUFFICES ASSUME d \in OnFlashPins, devCs' PROVE late'
        BY <2>2
      <4>2. d # HSPI_CS_DEV
        BY <4>1 DEF OnFlashPins, HSPI_CS_DEV, SPI_CS0_FLASH, SPI_CS1_DEV, SPI_CS2_DEV
      <4>3. selected \in OnFlashPins /\ devCs
        BY <2>2, <4>1, <4>2 DEF PinsFor
      <4>4. late
        BY <2>1, <4>3 DEF OverlapInv, PinsOK, InUse, OnFlashPins, HSPI_IDLE, SPI_CS0_FLASH,
           SPI_CS1_DEV, SPI_CS2_DEV
      <4> QED
        BY <2>2, <4>1, <4>3, <4>4 DEF PinsFor
    <3> QED
      BY <3>1, <3>2, <3>3, <3>4, <3>5 DEF PinsOK
  <2>7. TimingOfSelected' /\ ModeOfSelected'
    BY <2>2, <2>3 DEF TimingOfSelected, ModeOfSelected
  <2> QED
    BY <2>4, <2>5, <2>6, <2>7 DEF OverlapInv
<1>2. CASE ~(conf[d].active /\ d # selected)
  BY <1>2 DEF hspi_dev_sel, OverlapInv, OverlapTypeOK, RegistersOK, NotBefore, Flashed, BackedUp,
     PinsOK, TimingOfSelected, ModeOfSelected, InUse
<1> QED
  BY <1>1, <1>2

\* Every initialisation, selection and read of the flash keeps the invariant.
LEMMA OverlapStepInv == OverlapInv /\ [OverlapNext]_OverlapVars => OverlapInv'
<1> SUFFICES ASSUME OverlapInv, [OverlapNext]_OverlapVars PROVE OverlapInv'
  OBVIOUS
<1>1. ASSUME NEW d \in Devices, hspi_dev_sel(d) PROVE OverlapInv'
  BY <1>1, SelectInv
<1>2. ASSUME NEW length \in Reads, hspi_overlap_read_flash_data(ChunkBytes, length)
      PROVE  OverlapInv'
  BY <1>2, SelectInv DEF hspi_overlap_read_flash_data, Devices, SPI_CS0_FLASH
<1>3. CASE UNCHANGED OverlapVars
  BY <1>3 DEF OverlapVars, OverlapInv, OverlapTypeOK, RegistersOK, NotBefore, Flashed, BackedUp,
     PinsOK, TimingOfSelected, ModeOfSelected, InUse
<1> QED
  BY <1>1, <1>2, <1>3, DeviceInitInv DEF OverlapNext

\* The invariant holds for ever.
LEMMA OverlapInvariant == OverlapSpec => []OverlapInv
BY OverlapInitInv, OverlapStepInv, PTL DEF OverlapSpec

\* By who has the pins and which line is enabled, one chip answers.
LEMMA PinsMakeOneChip == OverlapInv => OneChip
<1> SUFFICES ASSUME OverlapInv, InUse PROVE
       \/ Answering = {selected}
       \/ late /\ selected = SPI_CS0_FLASH /\ Answering = {selected, HSPI_CS_DEV}
  BY DEF OneChip
<1> USE DEF Answering, OnFlashPins, Line, HSPI_CS_DEV, HSPI_IDLE, SPI_CS0_FLASH, SPI_CS1_DEV, SPI_CS2_DEV
<1>1. selected \in 0 .. 3 /\ (overlap <=> selected \in OnFlashPins)
      /\ regs.off = {0, 1, 2} \ {Line(selected)}
      /\ (late => overlap)
      /\ (selected = HSPI_CS_DEV => devCs)
      /\ (selected \in OnFlashPins /\ devCs => late)
  BY DEF OverlapInv, OverlapTypeOK, PinsOK, InUse, Devices
<1>2. CASE selected = HSPI_CS_DEV
  BY <1>1, <1>2
<1>3. CASE selected = SPI_CS1_DEV
  BY <1>1, <1>3
<1>4. CASE selected = SPI_CS2_DEV
  BY <1>1, <1>4
<1>5. CASE selected = SPI_CS0_FLASH
  BY <1>1, <1>5
<1> QED
  BY <1>1, <1>2, <1>3, <1>4, <1>5

\* Whatever the settings of the devices and the path of selections, the chip
\* selected answers, but for a late initialisation alone, with its own clock,
\* edge and mode (spi_overlap.c:149-292).
THEOREM SelectionDrives == OverlapSpec => []DrivenAsMeant
<1>1. OverlapInv => DrivenAsMeant
  BY PinsMakeOneChip DEF OverlapInv, DrivenAsMeant
<1> QED
  BY <1>1, OverlapInvariant, PTL

-----------------------------------------------------------------------------
(* The flash, read in chunks.                                              *)

\* How much of what is left the next chunk takes, and the chunk.
Piece(rest) == IF rest >= ChunkBytes THEN ChunkBytes ELSE rest

Chunk(addr, length, rest) ==
  [addr |-> addr + length - rest, bytes |-> Piece(rest), words |-> (Piece(rest) + 3) \div 4]

ChunkSet == [addr : Nat, bytes : Nat, words : Nat]

\* f gives the chunks for what is left, for every amount of it.
Splitting(f, addr, length) ==
  /\ f \in [0 .. length -> Seq(ChunkSet)] /\ f[0] = <<>>
  /\ \A rest \in 1 .. length : f[rest] = <<Chunk(addr, length, rest)>> \o f[rest - Piece(rest)]
  /\ Chunks(addr, length) = f[length]

\* Chunks are numbers.
LEMMA ChunkType ==
  ASSUME NEW addr \in Nat, NEW length \in Nat, NEW rest \in 1 .. length
  PROVE  /\ Chunk(addr, length, rest) \in ChunkSet
         /\ Piece(rest) \in 1 .. rest /\ rest - Piece(rest) \in Nat /\ rest - Piece(rest) < rest
<1>1. Piece(rest) \in 1 .. rest /\ addr + length - rest \in Nat
  BY HspiAssumption DEF Piece
<1>2. (Piece(rest) + 3) \div 4 \in Nat
  <2> DEFINE n == Piece(rest)
  <2>1. n \in Nat
    BY <1>1
  <2> HIDE DEF n
  <2>2. (n + 3) \div 4 \in Nat
    BY <2>1
  <2> QED
    BY <2>2 DEF n
<1>3. Piece(rest) \in Nat
  BY <1>1
<1>4. Chunk(addr, length, rest) \in ChunkSet
  BY <1>1, <1>2, <1>3, Zenon DEF Chunk, ChunkSet
<1> QED
  BY <1>1, <1>4

\* One chunk and more chunks.
LEMMA ChunkBefore ==
  ASSUME NEW S, NEW e \in S, NEW q \in Seq(S)
  PROVE  <<e>> \o q \in Seq(S)
<1>1. <<e>> \in Seq(S)
  OBVIOUS
<1> QED
  BY <1>1, ConcatProperties

\* hspi_overlap_read_flash_data's loop, as a function of what is left.
LEMMA SplittingExists ==
  ASSUME NEW addr \in Nat, NEW length \in Nat
  PROVE  \E f : Splitting(f, addr, length)
<1> DEFINE V == Seq(ChunkSet)
           next(rest, s) == <<Chunk(addr, length, rest)>> \o s
           is(f) == f = [rest \in 0 .. length |->
                           IF rest = 0 THEN <<>> ELSE next(rest, f[rest - Piece(rest)])]
           from == CHOOSE f : is(f)
           back == [rest \in 1 .. length |-> rest - Piece(rest)]
           before == [rest \in 1 .. length |-> [s \in V |-> next(rest, s)]]
<1>1. Chunks(addr, length) = from[length]
  BY DEF Chunks, Chunk, Piece
<1>2. back \in [1 .. length -> Nat] /\ \A rest \in 1 .. length : back[rest] < rest
  BY ChunkType
<1>3. \A rest \in 1 .. length : \A s \in V : next(rest, s) \in V
  <2> TAKE rest \in 1 .. length
  <2> TAKE s \in V
  <2>1. Chunk(addr, length, rest) \in ChunkSet
    BY ChunkType
  <2> QED
    BY <2>1, ChunkBefore
<1>4. <<>> \in V
  OBVIOUS
<1>5. before \in [1 .. length -> [V -> V]]
  <2> HIDE DEF V, next
  <2> QED
    BY <1>3
<1>6. \A rest \in 1 .. length : \A s \in V : before[rest][s] = next(rest, s)
  <2> HIDE DEF V, next
  <2> QED
    OBVIOUS
<1>7. \A rest \in 1 .. length : back[rest] = rest - Piece(rest) /\ back[rest] \in 0 .. length
  BY <1>2
<1>8. \E f : is(f)
  <2> HIDE DEF V, next, back, before
  <2>1. PICK f : Jumps(f, length, V, <<>>, back, before)
    BY <1>2, <1>4, <1>5, JumpingRecursionExists
  <2>2. /\ f \in [0 .. length -> V] /\ f[0] = <<>>
        /\ \A rest \in 1 .. length : f[rest] = before[rest][f[back[rest]]]
    BY <2>1 DEF Jumps
  <2>3. \A rest \in 1 .. length : f[back[rest]] \in V
    BY <1>7, <2>2
  <2>4. \A rest \in 1 .. length : f[rest] = next(rest, f[rest - Piece(rest)])
    BY <1>6, <1>7, <2>2, <2>3
  <2>5. \A rest \in 0 .. length : rest = 0 \/ rest \in 1 .. length
    OBVIOUS
  <2>6. f = [rest \in 0 .. length |->
               IF rest = 0 THEN <<>> ELSE next(rest, f[rest - Piece(rest)])]
    BY <2>2, <2>4, <2>5
  <2>7. is(f)
    BY <2>6
  <2> QED
    BY <2>7
<1>9. is(from)
  <2> HIDE DEF next
  <2> QED
    BY <1>8
<1> HIDE DEF from
<1>10. /\ DOMAIN from = 0 .. length /\ from[0] = <<>>
       /\ \A rest \in 1 .. length : from[rest] = next(rest, from[rest - Piece(rest)])
       /\ from = [rest \in 0 .. length |-> from[rest]]
  <2> HIDE DEF next
  <2>1. \A rest \in 1 .. length : rest \in 0 .. length /\ rest # 0
    OBVIOUS
  <2>2. 0 \in 0 .. length
    OBVIOUS
  <2> QED
    BY <1>9, <2>1, <2>2
<1> DEFINE S == {rest \in 0 .. length : from[rest] \in V}
<1>11. ASSUME NEW rest \in 0 .. length, \A m \in 0 .. rest - 1 : m \in S PROVE rest \in S
  <2>1. CASE rest = 0
    BY <1>4, <1>10, <2>1
  <2>2. CASE rest # 0
    <3>1. rest \in 1 .. length /\ rest - Piece(rest) \in 0 .. rest - 1
      <4>1. rest \in 1 .. length
        BY <2>2
      <4> QED
        BY <4>1, ChunkType
    <3>2. from[rest - Piece(rest)] \in V
      BY <1>11, <3>1
    <3> HIDE DEF next, V
    <3>3. from[rest] \in V
      BY <1>3, <1>10, <3>1, <3>2
    <3> QED
      BY <3>3
  <2> QED
    BY <2>1, <2>2
<1>12. 0 .. length \subseteq S
  <2> HIDE DEF S
  <2> QED
    BY <1>11, StrongInduction
<1>13. from \in [0 .. length -> V]
  <2> HIDE DEF V, next
  <2>1. \A rest \in 0 .. length : from[rest] \in V
    BY <1>12
  <2> QED
    BY <1>10, <2>1
<1>14. Splitting(from, addr, length)
  BY <1>1, <1>10, <1>13, Zenon DEF Splitting
<1> QED
  BY <1>14

\* One element in front of n, as a function.
LEMMA ConsIs ==
  ASSUME NEW S, NEW n \in Nat, NEW q \in [1 .. n -> S], NEW e \in S
  PROVE  /\ <<e>> \o q = [i \in 1 .. n + 1 |-> IF i = 1 THEN e ELSE q[i - 1]]
         /\ Len(<<e>> \o q) = n + 1
<1> DEFINE one == <<e>>
<1>1. one \in Seq(S) /\ Len(one) = 1 /\ one[1] = e
  OBVIOUS
<1>2. q \in Seq(S) /\ Len(q) = n
  <2>1. q \in Seq(S)
    OBVIOUS
  <2> QED
    BY <2>1, LenProperties
<1> HIDE DEF one
<1>3. /\ one \o q \in Seq(S) /\ Len(one \o q) = n + 1
      /\ \A i \in 1 .. n + 1 : (one \o q)[i] = IF i <= 1 THEN one[i] ELSE q[i - 1]
  BY <1>1, <1>2, ConcatProperties
<1>4. DOMAIN (one \o q) = 1 .. n + 1 /\ one \o q = [i \in DOMAIN (one \o q) |-> (one \o q)[i]]
  BY <1>3, LenProperties
<1>5. \A i \in 1 .. n + 1 : (one \o q)[i] = IF i = 1 THEN e ELSE q[i - 1]
  BY <1>1, <1>3
<1>6. one \o q = [i \in 1 .. n + 1 |-> IF i = 1 THEN e ELSE q[i - 1]]
  BY <1>4, <1>5, Zenon
<1> QED
  BY <1>3, <1>6 DEF one

\* A byte is in a chunk.
In(b, c) == b \in c.addr .. c.addr + c.bytes - 1

\* The bytes from lo to before hi are each in one chunk of s, no other byte is in
\* any, and only the last chunk may end inside a word.
Splits(s, lo, hi) ==
  /\ \A b \in lo .. hi - 1 :
       \E i \in DOMAIN s : In(b, s[i]) /\ \A j \in DOMAIN s \ {i} : ~In(b, s[j])
  /\ \A i \in DOMAIN s : lo <= s[i].addr /\ s[i].addr + s[i].bytes <= hi
  /\ \A i \in DOMAIN s : i < Len(s) => s[i].bytes = 4 * s[i].words

\* A chunk before chunks that go on where it ends.
LEMMA SplitsBefore ==
  ASSUME NEW lo \in Nat, NEW mid \in Nat, NEW hi \in Nat, NEW e \in ChunkSet,
         NEW q \in Seq(ChunkSet), Splits(q, mid, hi),
         e.addr = lo, lo + e.bytes = mid, mid <= hi, q # <<>> => e.bytes = 4 * e.words
  PROVE  Splits(<<e>> \o q, lo, hi)
<1> DEFINE t == <<e>> \o q
<1>1. PICK n : n = Len(q)
  OBVIOUS
<1>2. n \in Nat /\ q \in [1 .. n -> ChunkSet] /\ DOMAIN q = 1 .. n
  BY <1>1
<1>3. t = [i \in 1 .. n + 1 |-> IF i = 1 THEN e ELSE q[i - 1]] /\ Len(t) = n + 1
  BY <1>2, ConsIs
<1> HIDE DEF t
<1>4. /\ DOMAIN t = 1 .. n + 1 /\ t[1] = e
      /\ \A i \in 1 .. n : t[i + 1] = q[i]
      /\ \A i \in 1 .. n + 1 : i = 1 \/ (i - 1 \in 1 .. n /\ t[i] = q[i - 1])
  BY <1>2, <1>3
<1>5. e.addr \in Nat /\ e.bytes \in Nat /\ \A i \in 1 .. n : q[i].addr \in Nat /\ q[i].bytes \in Nat
  BY <1>2 DEF ChunkSet
<1>6. \A i \in 1 .. n : mid <= q[i].addr /\ q[i].addr + q[i].bytes <= hi
  BY <1>2 DEF Splits
<1>7. ASSUME NEW b \in lo .. hi - 1
      PROVE  \E i \in DOMAIN t : In(b, t[i]) /\ \A j \in DOMAIN t \ {i} : ~In(b, t[j])
  <2>1. CASE b < mid
    <3>1. In(b, t[1])
      BY <1>4, <1>5, <2>1 DEF In
    <3>2. ASSUME NEW j \in DOMAIN t \ {1} PROVE ~In(b, t[j])
      <4>1. j - 1 \in 1 .. n /\ t[j] = q[j - 1]
        BY <1>4
      <4>2. q[j - 1].addr \in Nat /\ mid <= q[j - 1].addr
        BY <1>5, <1>6, <4>1
      <4> QED
        BY <2>1, <4>1, <4>2 DEF In
    <3>3. 1 \in DOMAIN t
      BY <1>2, <1>4
    <3> QED
      BY <3>1, <3>2, <3>3
  <2>2. CASE ~(b < mid)
    <3>1. b \in mid .. hi - 1
      BY <2>2
    <3>2. PICK i \in 1 .. n : In(b, q[i]) /\ \A j \in (1 .. n) \ {i} : ~In(b, q[j])
      BY <1>2, <3>1 DEF Splits
    <3>3. i + 1 \in DOMAIN t /\ In(b, t[i + 1])
      BY <1>2, <1>4, <3>2
    <3>4. ASSUME NEW j \in DOMAIN t \ {i + 1} PROVE ~In(b, t[j])
      <4>1. CASE j = 1
        BY <1>4, <1>5, <2>2, <4>1 DEF In
      <4>2. CASE j # 1
        <5>1. j - 1 \in (1 .. n) \ {i} /\ t[j] = q[j - 1]
          BY <1>2, <1>4, <4>2
        <5> QED
          BY <3>2, <5>1
      <4> QED
        BY <4>1, <4>2
    <3> QED
      BY <3>3, <3>4
  <2> QED
    BY <2>1, <2>2
<1>8. ASSUME NEW i \in DOMAIN t PROVE lo <= t[i].addr /\ t[i].addr + t[i].bytes <= hi
  <2>1. CASE i = 1
    BY <1>4, <1>5, <2>1
  <2>2. CASE i # 1
    <3>1. i - 1 \in 1 .. n /\ t[i] = q[i - 1]
      BY <1>4, <2>2
    <3>2. q[i - 1].addr \in Nat /\ mid <= q[i - 1].addr /\ q[i - 1].addr + q[i - 1].bytes <= hi
      BY <1>5, <1>6, <3>1
    <3> QED
      BY <1>5, <3>1, <3>2
  <2> QED
    BY <2>1, <2>2
<1>9. ASSUME NEW i \in DOMAIN t, i < Len(t) PROVE t[i].bytes = 4 * t[i].words
  <2>1. i < n + 1 /\ i \in 1 .. n + 1
    BY <1>3, <1>4, <1>9
  <2>2. CASE i = 1
    <3>1. n # 0
      BY <2>1, <2>2
    <3>2. q # <<>>
      BY <1>2, <3>1
    <3> QED
      BY <1>4, <2>2, <3>2
  <2>3. CASE i # 1
    <3>1. i - 1 \in 1 .. n /\ t[i] = q[i - 1] /\ i - 1 < n
      BY <1>2, <1>4, <2>1, <2>3
    <3>2. \A k \in 1 .. n : k < n => q[k].bytes = 4 * q[k].words
      BY <1>1, <1>2 DEF Splits
    <3> QED
      BY <3>1, <3>2
  <2> QED
    BY <2>2, <2>3
<1>10. Splits(t, lo, hi)
  BY <1>7, <1>8, <1>9 DEF Splits
<1> QED
  BY <1>10 DEF t

\* The reads cover the range asked for, whatever its length.
LEMMA ChunksSplit ==
  ASSUME NEW addr \in Nat, NEW length \in Nat
  PROVE  Splits(Chunks(addr, length), addr, addr + length)
<1>1. PICK f : Splitting(f, addr, length)
  BY SplittingExists
<1>2. /\ f \in [0 .. length -> Seq(ChunkSet)] /\ f[0] = <<>>
      /\ \A rest \in 1 .. length : f[rest] = <<Chunk(addr, length, rest)>> \o f[rest - Piece(rest)]
      /\ Chunks(addr, length) = f[length]
  BY <1>1 DEF Splitting
<1> DEFINE hi == addr + length
           S == {rest \in 0 .. length : Splits(f[rest], hi - rest, hi)}
<1>3. ASSUME NEW rest \in 0 .. length, \A m \in 0 .. rest - 1 : m \in S PROVE rest \in S
  <2>1. CASE rest = 0
    <3>1. DOMAIN f[rest] = {} /\ (hi - rest) .. (hi - 1) = {}
      BY <1>2, <2>1
    <3> QED
      BY <3>1 DEF Splits
  <2>2. CASE rest # 0
    <3> DEFINE e == Chunk(addr, length, rest)
               q == f[rest - Piece(rest)]
               lo == hi - rest
               mid == hi - (rest - Piece(rest))
    <3>1. rest \in 1 .. length
      BY <2>2
    <3>2. /\ e \in ChunkSet /\ Piece(rest) \in 1 .. rest
          /\ rest - Piece(rest) \in 0 .. rest - 1
      BY <3>1, ChunkType
    <3>3. /\ e.addr = addr + length - rest /\ e.bytes = Piece(rest)
          /\ e.words = (Piece(rest) + 3) \div 4
      BY DEF Chunk
    <3>4. q \in Seq(ChunkSet) /\ Splits(q, mid, hi)
      BY <1>2, <1>3, <3>2
    <3>5. lo \in Nat /\ mid \in Nat /\ hi \in Nat /\ e.addr = lo /\ lo + e.bytes = mid /\ mid <= hi
      BY <3>1, <3>2, <3>3
    <3>6. q # <<>> => e.bytes = 4 * e.words
      <4>1. q # <<>> => rest - Piece(rest) # 0
        BY <1>2
      <4>2. rest - Piece(rest) # 0 => Piece(rest) = ChunkBytes
        BY <3>1, HspiAssumption DEF Piece
      <4>3. ChunkBytes = 4 * ((ChunkBytes + 3) \div 4)
        BY HspiAssumption
      <4> QED
        BY <3>3, <4>1, <4>2, <4>3
    <3>7. f[rest] = <<e>> \o q
      BY <1>2, <3>1
    <3> HIDE DEF e, q, lo, mid, hi
    <3>8. Splits(<<e>> \o q, lo, hi)
      BY <3>2, <3>4, <3>5, <3>6, SplitsBefore
    <3> QED
      BY <3>7, <3>8 DEF lo
  <2> QED
    BY <2>1, <2>2
<1>4. 0 .. length \subseteq S
  <2> HIDE DEF S
  <2> QED
    BY <1>3, StrongInduction
<1>5. Splits(f[length], hi - length, hi)
  <2> HIDE DEF hi
  <2> QED
    BY <1>4
<1>6. hi - length = addr
  OBVIOUS
<1> HIDE DEF hi
<1>7. Splits(f[length], addr, hi)
  BY <1>5, <1>6
<1> QED
  BY <1>2, <1>7 DEF hi

\* What FlashRead asks of the reads.
RangeRead(s, addr, length) ==
  /\ \A b \in addr .. addr + length - 1 :
       \E i \in DOMAIN s :
         /\ b \in s[i].addr .. s[i].addr + s[i].bytes - 1
         /\ \A j \in DOMAIN s \ {i} : b \notin s[j].addr .. s[j].addr + s[j].bytes - 1
  /\ \A i \in DOMAIN s : i < Len(s) => s[i].bytes = 4 * s[i].words

\* A range that is split is read.
LEMMA SplitsRead ==
  ASSUME NEW s, NEW addr \in Nat, NEW length \in Nat, Splits(s, addr, addr + length)
  PROVE  RangeRead(s, addr, length)
<1>1. (addr + length) - 1 = addr + length - 1
  OBVIOUS
<1> QED
  BY <1>1, Zenon DEF Splits, In, RangeRead

\* The function that reads the flash is installed by what makes the flash a
\* device to select.
FlashReady == readFunc => conf[SPI_CS0_FLASH].active

\* Nothing makes the flash a device that cannot be selected again.
LEMMA StaysReady ==
  ASSUME OverlapInv, FlashReady, [OverlapNext]_OverlapVars
  PROVE  FlashReady'
<1>1. conf \in [Devices -> Settings] /\ SPI_CS0_FLASH \in Devices
  BY DEF OverlapInv, OverlapTypeOK, Devices, SPI_CS0_FLASH
<1>2. ASSUME NEW d \in Devices, NEW c \in Confs, hspi_master_dev_init(d, c) PROVE FlashReady'
  BY <1>1, <1>2 DEF hspi_master_dev_init, FlashReady
<1>3. CASE hspi_overlap_flash_init
  BY <1>1, <1>3 DEF hspi_overlap_flash_init, FlashReady
<1>4. ASSUME NEW d \in Devices, hspi_dev_sel(d) PROVE FlashReady'
  BY <1>4 DEF hspi_dev_sel, FlashReady
<1>5. CASE UNCHANGED OverlapVars
  BY <1>5 DEF OverlapVars, FlashReady
<1> QED
  BY <1>1, <1>2, <1>3, <1>4, <1>5 DEF OverlapNext, hspi_overlap_read_flash_data

\* A flash read selects the flash.
LEMMA ReadSelects ==
  ASSUME FlashReady, NEW addr, NEW length, hspi_overlap_read_flash_data(addr, length)
  PROVE  selected' = SPI_CS0_FLASH
BY DEF FlashReady, hspi_overlap_read_flash_data, hspi_dev_sel

\* Whatever was selected before and however long the range: the flash is
\* selected, every byte is read once, and only the last read may end inside a
\* word.
THEOREM FlashIsRead == OverlapSpec => FlashRead
<1>1. OverlapInit => FlashReady
  BY DEF OverlapInit, FlashReady
<1> DEFINE Right(length) ==
      /\ selected' = SPI_CS0_FLASH
      /\ ChunkBytes + length <= ChipSize =>
           /\ \A b \in ChunkBytes .. ChunkBytes + length - 1 :
                \E i \in DOMAIN chunks' :
                  /\ b \in chunks'[i].addr .. chunks'[i].addr + chunks'[i].bytes - 1
                  /\ \A j \in DOMAIN chunks' \ {i} :
                       b \notin chunks'[j].addr .. chunks'[j].addr + chunks'[j].bytes - 1
           /\ \A i \in DOMAIN chunks' :
                i < Len(chunks') => chunks'[i].bytes = 4 * chunks'[i].words
<1>2. ASSUME FlashReady, NEW length \in Reads, hspi_overlap_read_flash_data(ChunkBytes, length)
      PROVE  Right(length)
  <2>1. selected' = SPI_CS0_FLASH
    BY <1>2, ReadSelects
  <2>2. ASSUME ChunkBytes + length <= ChipSize
        PROVE  chunks' = Chunks(ChunkBytes, length)
    <3>1. ChunkBytes + length \in Nat /\ ChipSize \in Nat
      BY HspiAssumption
    <3> QED
      BY <1>2, <2>2, <3>1 DEF hspi_overlap_read_flash_data
  <2>3. Splits(Chunks(ChunkBytes, length), ChunkBytes, ChunkBytes + length)
    BY HspiAssumption, ChunksSplit
  <2>4. ChunkBytes + length <= ChipSize => Splits(chunks', ChunkBytes, ChunkBytes + length)
    BY <2>2, <2>3
  <2> HIDE DEF Right
  <2>5. SUFFICES ASSUME ChunkBytes + length <= ChipSize
                 PROVE  RangeRead(chunks', ChunkBytes, length)
    BY <2>1 DEF Right, RangeRead
  <2> QED
    BY <2>4, <2>5, HspiAssumption, SplitsRead
<1>3. FlashReady => \A length \in Reads :
        hspi_overlap_read_flash_data(ChunkBytes, length) => Right(length)
  <2> HIDE DEF Right
  <2> QED
    BY <1>2
<1>4. OverlapInv /\ FlashReady /\ [OverlapNext]_OverlapVars => FlashReady'
  BY StaysReady
<1>5. FlashReady =>
        [\A length \in Reads :
           hspi_overlap_read_flash_data(ChunkBytes, length) => Right(length)]_OverlapVars
  BY <1>3
<1> QED
  BY <1>1, <1>4, <1>5, OverlapInvariant, PTL DEF OverlapSpec, FlashRead

-----------------------------------------------------------------------------
(* spi.c as a slave.                                                       *)

Buffer == [1 .. Words -> Frames \cup {0}]

SlaveTypeOK ==
  /\ done \subseteq {"WR_BUF", "RD_BUF"} /\ regvalue \subseteq {"WR_BUF", "RD_BUF"}
  /\ buffer \in Buffer /\ spi_data \in Buffer /\ incoming \in Frames \cup {0}
  /\ arriving \in 0 .. Words /\ idx \in 0 .. Words
  /\ step \in {"idle", "clear", "copy", "read"}
  /\ step # "copy" => idx = 0

\* What the handler has read of the flags.
FlagsRead ==
  /\ step = "idle" => regvalue = {}
  /\ step = "clear" => regvalue \subseteq done
  /\ step = "copy" => "WR_BUF" \in regvalue

\* The words of a write that have arrived.
Arrived ==
  \A i \in 1 .. Words : arriving = 0 \/ i <= arriving => buffer[i] = incoming

\* A write that began in time has nobody to race with.
Unraced == ~hurried /\ ("WR_BUF" \in done \/ "WR_BUF" \in regvalue) => arriving = 0

\* The handler will look at flag again, or has it.
Pending(flag) == flag \in done /\ (step = "clear" => flag \in regvalue)

\* Words the handler has copied, or all.
Copied == 1 .. (IF step = "copy" THEN idx ELSE Words)

\* The last write is noted, or copied as far as the handler has come.
LastCopied ==
  /\ arriving = 0 /\ "WR_BUF" \notin missed =>
       \/ Pending("WR_BUF")
       \/ "WR_BUF" \notin done /\ \A i \in Copied : spi_data[i] = incoming
  /\ step \in {"copy", "read"} /\ "WR_BUF" \in regvalue /\ ~hurried =>
       \A i \in Copied : spi_data[i] = incoming

\* A read of what was prepared is noted until GPIO2 has gone low.
ReadPending ==
  "RD_BUF" \notin missed /\ gpio2 = 1 /\ taken =>
    \/ Pending("RD_BUF")
    \/ step \in {"copy", "read"} /\ "RD_BUF" \in regvalue

SlaveInv ==
  /\ SlaveTypeOK /\ FlagsRead /\ Arrived /\ Unraced /\ LastCopied /\ ReadPending
  /\ BufferLength

\* Nothing has been written, read or prepared when the chip starts.
LEMMA SlaveInitInv == SlaveInit => SlaveInv
BY SpiSlaveAssumption
   DEF SlaveInit, SlaveInv, SlaveTypeOK, FlagsRead, Arrived, Unraced, LastCopied, ReadPending,
       BufferLength, Buffer, Nothing, Pending, Copied

\* The first length asked for is what the register holds.
LEMMA LengthInv ==
  ASSUME SlaveInv, NEW n \in Lengths, spi_slave_init(n)
  PROVE  SlaveInv'
<1>1. BufferLength'
  <2> SUFFICES ASSUME NEW m \in dataLen'
               PROVE  bitLength' = BitsOf9(8 * (IF m = 0 THEN 1 ELSE IF m > 32 THEN 32 ELSE m) - 1)
    BY DEF BufferLength
  <2>1. m = n /\ bitLength = {} /\ bitLength' = BitsOf9(DataBitLength(n))
    BY DEF spi_slave_init
  <2>2. DataBitLength(n) = 8 * (IF m = 0 THEN 1 ELSE IF m > 32 THEN 32 ELSE m) - 1
    BY <2>1, SpiSlaveAssumption DEF DataBitLength
  <2> QED
    BY <2>1, <2>2
<1> QED
  BY <1>1 DEF spi_slave_init, SlaveInv, SlaveTypeOK, FlagsRead, Arrived, Unraced, LastCopied,
     ReadPending, Pending, Copied

\* No transfer of the other chip and no step of the handler breaks the
\* invariant.
LEMMA SlaveStepInv == SlaveInv /\ [SlaveNext]_SlaveVars => SlaveInv'
<1> SUFFICES ASSUME SlaveInv, [SlaveNext]_SlaveVars PROVE SlaveInv'
  OBVIOUS
<1> USE SpiSlaveAssumption
<1> USE DEF SlaveInv, SlaveTypeOK, FlagsRead, Arrived, Unraced, LastCopied, ReadPending, Pending,
            Copied, Buffer
<1>1. ASSUME NEW n \in Lengths, spi_slave_init(n) PROVE SlaveInv'
  BY <1>1, LengthInv
<1>2. ASSUME NEW f \in Frames, WriteWord(f) PROVE SlaveInv'
  <2>1. /\ incoming' = f /\ arriving < Words /\ arriving' = arriving + 1
        /\ buffer' = [buffer EXCEPT ![arriving + 1] = f]
        /\ arriving # 0 => incoming = f
        /\ UNCHANGED <<done, bitLength, step, regvalue, idx, spi_data, gpio2, taken, dataLen>>
    BY <1>2 DEF WriteWord
  <2>2. arriving = 0 /\ ~hurried' => "WR_BUF" \notin done /\ step = "idle"
    BY <1>2, Zenon DEF WriteWord
  <2>3. arriving # 0 => hurried' = hurried
    BY <1>2, Zenon DEF WriteWord
  <2>4. missed' \in {missed, missed \ {"WR_BUF"}}
    BY <1>2 DEF WriteWord
  <2>5. SlaveTypeOK' /\ FlagsRead'
    BY <2>1
  <2>6. Arrived'
    BY <2>1
  <2>7. Unraced'
    BY <2>1, <2>2, <2>3
  <2>8. LastCopied'
    BY <2>1, <2>2, <2>3
  <2>9. ReadPending' /\ BufferLength'
    BY <2>1, <2>4 DEF BufferLength
  <2> QED
    BY <2>5, <2>6, <2>7, <2>8, <2>9
<1>3. CASE WriteEnd
  <2>1. SlaveTypeOK' /\ FlagsRead'
    BY <1>3 DEF WriteEnd
  <2>2. Arrived' /\ Unraced'
    BY <1>3 DEF WriteEnd
  <2>3. LastCopied'
    <3>1. "WR_BUF" \notin missed' => Pending("WR_BUF")'
      BY <1>3 DEF WriteEnd, Miss
    <3>2. UNCHANGED <<step, regvalue, spi_data, incoming, idx>> /\ (hurried' <=> hurried)
      BY <1>3 DEF WriteEnd
    <3>3. Copied' = Copied
      BY <3>2
    <3> QED
      BY <3>1, <3>2, <3>3
  <2>4. ReadPending' /\ BufferLength'
    BY <1>3 DEF WriteEnd, Miss, BufferLength
  <2> QED
    BY <2>1, <2>2, <2>3, <2>4
<1>4. CASE Read
  <2>1. SlaveTypeOK' /\ FlagsRead'
    BY <1>4 DEF Read
  <2>2. Arrived' /\ Unraced'
    BY <1>4 DEF Read
  <2>3. LastCopied'
    BY <1>4 DEF Read, Miss
  <2>4. ReadPending'
    <3>1. "RD_BUF" \notin missed' => Pending("RD_BUF")'
      BY <1>4 DEF Read, Miss
    <3> QED
      BY <3>1
  <2>5. BufferLength'
    BY <1>4 DEF Read, BufferLength
  <2> QED
    BY <2>1, <2>2, <2>3, <2>4, <2>5
<1>5. CASE Prepare
  BY <1>5 DEF Prepare, BufferLength
<1>6. CASE ReadFlags
  <2>1. SlaveTypeOK' /\ FlagsRead'
    BY <1>6 DEF ReadFlags
  <2>2. Arrived' /\ Unraced'
    BY <1>6 DEF ReadFlags
  <2>3. LastCopied'
    BY <1>6 DEF ReadFlags
  <2>4. ReadPending' /\ BufferLength'
    BY <1>6 DEF ReadFlags, BufferLength
  <2> QED
    BY <2>1, <2>2, <2>3, <2>4
<1>7. CASE ClearFlags
  <2>1. SlaveTypeOK' /\ FlagsRead'
    BY <1>7 DEF ClearFlags
  <2>2. Arrived' /\ Unraced'
    BY <1>7 DEF ClearFlags
  <2>3. LastCopied'
    BY <1>7 DEF ClearFlags
  <2>4. ReadPending' /\ BufferLength'
    BY <1>7 DEF ClearFlags, BufferLength
  <2> QED
    BY <2>1, <2>2, <2>3, <2>4
<1>8. CASE CopyWord
  <2>1. SlaveTypeOK' /\ FlagsRead'
    BY <1>8 DEF CopyWord
  <2>2. Arrived' /\ Unraced'
    BY <1>8 DEF CopyWord
  <2>3. LastCopied'
    BY <1>8 DEF CopyWord
  <2>4. ReadPending' /\ BufferLength'
    BY <1>8 DEF CopyWord, BufferLength
  <2> QED
    BY <2>1, <2>2, <2>3, <2>4
<1>9. CASE NoteRead
  BY <1>9 DEF NoteRead, BufferLength
<1>10. CASE UNCHANGED SlaveVars
  BY <1>10 DEF SlaveVars, BufferLength
<1> QED
  BY <1>1, <1>2, <1>3, <1>4, <1>5, <1>6, <1>7, <1>8, <1>9, <1>10 DEF SlaveNext

\* For buffers of any number of words and any contents, what the other chip
\* wrote is passed on whole and its reads are noticed (spi.c:383-464), as long as
\* asked for.
THEOREM BuffersArePassed == SlaveSpec => []BuffersPassed
<1>1. SlaveInv => BuffersPassed
  BY DEF SlaveInv, BuffersPassed, BufferWhole, ReadNoticed, Quiet, LastCopied, ReadPending, Pending,
         Copied, FlagsRead
<1> QED
  BY <1>1, SlaveInitInv, SlaveStepInv, PTL DEF SlaveSpec
-----------------------------------------------------------------------------
(* spi.c as a master.                                                      *)

\* What was last started is what was meant, but for a 9-bit write with phases
\* left over, and phases are left over only by calls to an ESP8266 slave.
MasterInv ==
  /\ left \in BOOLEAN
  /\ ~left => phases = {}
  /\ frame = meant \/ (left /\ Len(meant.command) = 9)

\* A byte as a command.
LEMMA ByteOut ==
  ASSUME NEW d \in 0 .. 255
  PROVE  CommandBits([length |-> 8, value |-> d]) = Byte(d)
BY DEF CommandBits, Byte

\* The eight bits of a byte.
LEMMA BytesBits ==
  ASSUME NEW d \in 0 .. 255
  PROVE  Byte(d) \in [1 .. 8 -> {0, 1}]
<1> SUFFICES ASSUME NEW i \in 1 .. 8 PROVE Bit(d, 8 - i) \in {0, 1}
  BY DEF Byte
<1>1. i = 1 \/ i = 2 \/ i = 3 \/ i = 4 \/ i = 5 \/ i = 6 \/ i = 7 \/ i = 8
  OBVIOUS
<1> QED
  BY <1>1 DEF Bit

\* The bits by the powers they stand for.
LEMMA BitIs ==
  ASSUME NEW n \in Int
  PROVE  /\ Bit(n, 0) = n % 2 /\ Bit(n, 1) = (n \div 2) % 2
         /\ Bit(n, 2) = (n \div 4) % 2 /\ Bit(n, 3) = (n \div 8) % 2
         /\ Bit(n, 4) = (n \div 16) % 2 /\ Bit(n, 5) = (n \div 32) % 2
         /\ Bit(n, 6) = (n \div 64) % 2 /\ Bit(n, 7) = (n \div 128) % 2
         /\ Bit(n, 15) = (n \div 32768) % 2
BY DEF Bit

\* What goes out with and without phases.
LEMMA FrameIs ==
  ASSUME NEW c, NEW w
  PROVE  /\ Frame({}, c, w) = [command |-> CommandBits(c), out |-> <<>>, in |-> FALSE]
         /\ Frame({"MOSI"}, c, w) = [command |-> CommandBits(c), out |-> <<w>>, in |-> FALSE]
         /\ Frame({"MISO"}, c, w) = [command |-> CommandBits(c), out |-> <<>>, in |-> TRUE]
<1>1. /\ "MOSI" \notin {} /\ "MISO" \notin {} /\ "MOSI" \in {"MOSI"} /\ "MISO" \in {"MISO"}
      /\ "MISO" \notin {"MOSI"} /\ "MOSI" \notin {"MISO"}
  OBVIOUS
<1>2. ("MISO" \in {}) = FALSE /\ ("MISO" \in {"MOSI"}) = FALSE /\ ("MISO" \in {"MISO"}) = TRUE
  BY <1>1
<1> QED
  BY <1>1, <1>2, Zenon DEF Frame

\* One bit and a byte.
LEMMA NinthBit ==
  ASSUME NEW d \in 0 .. 255, NEW h \in {0, 1}
  PROVE  /\ <<h>> \o Byte(d) = [i \in 1 .. 9 |-> IF i = 1 THEN h ELSE Byte(d)[i - 1]]
         /\ Len(<<h>> \o Byte(d)) = 9
<1> DEFINE n == 8
           m == 9
           q == Byte(d)
<1>1. n \in Nat /\ n + 1 = m
  OBVIOUS
<1>2. q \in [1 .. n -> {0, 1}]
  BY BytesBits
<1> HIDE DEF n, m, q
<1>3. /\ <<h>> \o q = [i \in 1 .. n + 1 |-> IF i = 1 THEN h ELSE q[i - 1]]
      /\ Len(<<h>> \o q) = n + 1
  BY <1>1, <1>2, ConsIs
<1>4. /\ <<h>> \o q = [i \in 1 .. m |-> IF i = 1 THEN h ELSE q[i - 1]]
      /\ Len(<<h>> \o q) = m
  BY <1>1, <1>3, Zenon
<1> QED
  BY <1>4 DEF m, q

\* The value of the command, bit by bit: the ninth bit is where the second byte
\* begins.
LEMMA LcdBits ==
  ASSUME NEW high_bit \in BOOLEAN, NEW d \in 0 .. 255
  PROVE  CommandBits([length |-> 9, value |-> LcdValue(high_bit, d)])
           = <<IF high_bit THEN 1 ELSE 0>> \o Byte(d)
<1> DEFINE h == IF high_bit THEN 1 ELSE 0
           v == LcdValue(high_bit, d)
<1>1. h \in {0, 1}
  OBVIOUS
<1>2. v = 128 * h + (d \div 2) + 32768 * (d % 2)
  BY DEF LcdValue
<1> HIDE DEF h, v
<1>3. /\ Bit(v, 7) = h /\ Bit(v, 15) = Bit(d, 0)
      /\ Bit(v, 6) = Bit(d, 7) /\ Bit(v, 5) = Bit(d, 6) /\ Bit(v, 4) = Bit(d, 5)
      /\ Bit(v, 3) = Bit(d, 4) /\ Bit(v, 2) = Bit(d, 3) /\ Bit(v, 1) = Bit(d, 2)
      /\ Bit(v, 0) = Bit(d, 1)
  <2>1. v \in Int /\ d \in Int
    BY <1>1, <1>2
  <2>2. Bit(v, 7) = h
    <3>1. (v \div 128) % 2 = h
      BY <1>1, <1>2
    <3> QED
      BY <2>1, <3>1, BitIs
  <2>3. Bit(v, 15) = Bit(d, 0)
    <3>1. (v \div 32768) % 2 = d % 2
      BY <1>1, <1>2
    <3>2. Bit(v, 15) = (v \div 32768) % 2
      BY <2>1, BitIs
    <3>3. Bit(d, 0) = d % 2
      BY <2>1 DEF Bit
    <3> QED
      BY <3>1, <3>2, <3>3
  <2>4. Bit(v, 6) = Bit(d, 7)
    <3>1. (v \div 64) % 2 = (d \div 128) % 2
      BY <1>1, <1>2
    <3>2. Bit(v, 6) = (v \div 64) % 2
      BY <2>1, BitIs
    <3>3. Bit(d, 7) = (d \div 128) % 2
      BY <2>1, BitIs
    <3> QED
      BY <3>1, <3>2, <3>3, Zenon
  <2>5. Bit(v, 5) = Bit(d, 6)
    <3>1. (v \div 32) % 2 = (d \div 64) % 2
      BY <1>1, <1>2
    <3>2. Bit(v, 5) = (v \div 32) % 2
      BY <2>1, BitIs
    <3>3. Bit(d, 6) = (d \div 64) % 2
      BY <2>1, BitIs
    <3> QED
      BY <3>1, <3>2, <3>3, Zenon
  <2>6. Bit(v, 4) = Bit(d, 5)
    <3>1. (v \div 16) % 2 = (d \div 32) % 2
      BY <1>1, <1>2
    <3>2. Bit(v, 4) = (v \div 16) % 2
      BY <2>1, BitIs
    <3>3. Bit(d, 5) = (d \div 32) % 2
      BY <2>1, BitIs
    <3> QED
      BY <3>1, <3>2, <3>3, Zenon
  <2>7. Bit(v, 3) = Bit(d, 4)
    <3>1. (v \div 8) % 2 = (d \div 16) % 2
      BY <1>1, <1>2
    <3>2. Bit(v, 3) = (v \div 8) % 2
      BY <2>1, BitIs
    <3>3. Bit(d, 4) = (d \div 16) % 2
      BY <2>1, BitIs
    <3> QED
      BY <3>1, <3>2, <3>3, Zenon
  <2>8. Bit(v, 2) = Bit(d, 3)
    <3>1. (v \div 4) % 2 = (d \div 8) % 2
      BY <1>1, <1>2
    <3>2. Bit(v, 2) = (v \div 4) % 2
      BY <2>1, BitIs
    <3>3. Bit(d, 3) = (d \div 8) % 2
      BY <2>1, BitIs
    <3> QED
      BY <3>1, <3>2, <3>3, Zenon
  <2>9. Bit(v, 1) = Bit(d, 2)
    <3>1. (v \div 2) % 2 = (d \div 4) % 2
      BY <1>1, <1>2
    <3>2. Bit(v, 1) = (v \div 2) % 2
      BY <2>1, BitIs
    <3>3. Bit(d, 2) = (d \div 4) % 2
      BY <2>1, BitIs
    <3> QED
      BY <3>1, <3>2, <3>3, Zenon
  <2>10. Bit(v, 0) = Bit(d, 1)
    <3>1. v % 2 = (d \div 2) % 2
      BY <1>1, <1>2
    <3>2. Bit(v, 0) = v % 2
      BY <2>1 DEF Bit
    <3>3. Bit(d, 1) = (d \div 2) % 2
      BY <2>1, BitIs
    <3> QED
      BY <3>1, <3>2, <3>3, Zenon
  <2> QED
    BY <2>2, <2>3, <2>4, <2>5, <2>6, <2>7, <2>8, <2>9, <2>10
<1>4. /\ <<h>> \o Byte(d) = [i \in 1 .. 9 |-> IF i = 1 THEN h ELSE Byte(d)[i - 1]]
      /\ Len(<<h>> \o Byte(d)) = 9
  BY <1>1, NinthBit, Zenon
<1>5. \A i \in 1 .. 9 : (IF i <= 8 THEN Bit(v, 8 - i) ELSE Bit(v, 24 - i))
                         = IF i = 1 THEN h ELSE Byte(d)[i - 1]
  <2> TAKE i \in 1 .. 9
  <2>1. i = 1 \/ i = 2 \/ i = 3 \/ i = 4 \/ i = 5 \/ i = 6 \/ i = 7 \/ i = 8 \/ i = 9
    OBVIOUS
  <2>2. i # 1 => Byte(d)[i - 1] = Bit(d, 9 - i)
    BY DEF Byte
  <2> QED
    BY <1>3, <2>1, <2>2
<1>6. CommandBits([length |-> 9, value |-> v])
        = [i \in 1 .. 9 |-> IF i <= 8 THEN Bit(v, 8 - i) ELSE Bit(v, 24 - i)]
  BY DEF CommandBits
<1> QED
  BY <1>4, <1>5, <1>6 DEF h, v

\* Every call starts what it means.
LEMMA MasterStep ==
  ASSUME MasterInv, [MasterNext]_MasterVars
  PROVE  MasterInv'
<1> USE SpiMasterAssumption
<1>1. ASSUME NEW d \in Data, NEW high_bit \in BOOLEAN, spi_lcd_9bit_write(high_bit, d)
      PROVE  MasterInv'
  <2> DEFINE bits == <<IF high_bit THEN 1 ELSE 0>> \o Byte(d)
             c == [length |-> 9, value |-> LcdValue(high_bit, d)]
  <2>1. /\ phases' = phases /\ left' = left /\ command' = c
        /\ frame' = Frame(phases', command', w0')
        /\ meant' = [command |-> bits, out |-> <<>>, in |-> FALSE]
    BY <1>1 DEF spi_lcd_9bit_write, Start
  <2>2. CommandBits(c) = bits
    <3>1. d \in 0 .. 255
      OBVIOUS
    <3> QED
      BY <3>1, LcdBits
  <2>3. Len(bits) = 9
    <3>1. d \in 0 .. 255 /\ (IF high_bit THEN 1 ELSE 0) \in {0, 1}
      OBVIOUS
    <3> QED
      BY <3>1, NinthBit
  <2> HIDE DEF bits, c
  <2>4. meant'.command = bits
    BY <2>1
  <2>5. ~left => frame' = meant'
    BY <2>1, <2>2, FrameIs, Zenon DEF MasterInv
  <2> QED
    BY <2>1, <2>3, <2>4, <2>5 DEF MasterInv
<1>2. ASSUME NEW d \in Data, spi_mast_byte_write(d) PROVE MasterInv'
  <2>1. /\ phases' = {} /\ command' = [length |-> 8, value |-> d] /\ w0' = w0
        /\ frame' = Frame(phases', command', w0')
        /\ meant' = [command |-> Byte(d), out |-> <<>>, in |-> FALSE]
    BY <1>2 DEF spi_mast_byte_write, Start
  <2>2. CommandBits(command') = Byte(d)
    <3>1. d \in 0 .. 255
      OBVIOUS
    <3> QED
      BY <2>1, <3>1, ByteOut
  <2>3. frame' = meant'
    BY <2>1, <2>2, FrameIs, Zenon
  <2> QED
    BY <1>2, <2>3 DEF spi_mast_byte_write, MasterInv
<1>3. ASSUME NEW d \in Data, spi_byte_write_espslave(d) PROVE MasterInv'
  <2>1. /\ phases' = {"MOSI"} /\ command' = [length |-> 8, value |-> 4] /\ w0' = d
        /\ frame' = Frame(phases', command', w0')
        /\ meant' = [command |-> Byte(4), out |-> <<d>>, in |-> FALSE]
    BY <1>3 DEF spi_byte_write_espslave, Start
  <2>2. CommandBits(command') = Byte(4)
    <3>1. 4 \in 0 .. 255
      OBVIOUS
    <3> QED
      BY <2>1, <3>1, ByteOut
  <2>3. frame' = meant'
    BY <2>1, <2>2, FrameIs, Zenon
  <2> QED
    BY <1>3, <2>3 DEF spi_byte_write_espslave, MasterInv
<1>4. ASSUME spi_byte_read_espslave PROVE MasterInv'
  <2>1. /\ phases' = {"MISO"} /\ command' = [length |-> 8, value |-> 6] /\ w0' = w0
        /\ frame' = Frame(phases', command', w0')
        /\ meant' = [command |-> Byte(6), out |-> <<>>, in |-> TRUE]
    BY <1>4 DEF spi_byte_read_espslave, Start
  <2>2. CommandBits(command') = Byte(6)
    <3>1. 6 \in 0 .. 255
      OBVIOUS
    <3> QED
      BY <2>1, <3>1, ByteOut
  <2>3. frame' = meant'
    BY <2>1, <2>2, FrameIs, Zenon
  <2> QED
    BY <1>4, <2>3 DEF spi_byte_read_espslave, MasterInv
<1>5. CASE Sent \/ Done \/ UNCHANGED MasterVars
  BY <1>5 DEF Sent, Done, MasterVars, MasterInv
<1> QED
  BY <1>1, <1>2, <1>3, <1>4, <1>5 DEF MasterNext

\* After spi_master_init nothing has been sent, and nothing else was meant.
LEMMA MasterInitInv == MasterInit => MasterInv
BY DEF MasterInit, MasterInv

\* No call touches the registers while the controller sends.
LEMMA RegistersStay ==
  ASSUME [MasterNext]_MasterVars, spiUsr, spiUsr'
  PROVE  UNCHANGED <<phases, command, w0>>
BY DEF MasterNext, MasterVars, spi_lcd_9bit_write, spi_mast_byte_write, spi_byte_write_espslave,
       spi_byte_read_espslave, Sent, Done, Ready

\* Every call of the master, for every byte: the bits that go out are those
\* meant, whatever was called before, but for the 9-bit write after a call to an
\* ESP8266 slave; and nobody writes the registers while they go out.
THEOREM CallsSendAsMeant == MasterSpec => FramesAsMeant
<1>1. MasterInv /\ MasterInv' /\ [MasterNext]_MasterVars =>
        [/\ frame' = meant' \/ (left' /\ Len(meant'.command) = 9)
         /\ spiUsr /\ spiUsr' => UNCHANGED <<phases, command, w0>>]_MasterVars
  BY RegistersStay DEF MasterInv
<1>2. MasterInv /\ [MasterNext]_MasterVars => MasterInv'
  BY MasterStep
<1> QED
  BY <1>1, <1>2, MasterInitInv, PTL DEF MasterSpec, FramesAsMeant

-----------------------------------------------------------------------------
(* i2c_master.c                                                            *)

\* The modes of a device.
Modes == {"off", "address", "data", "refused", "taken", "turn", "more", "send", "asked"}
Levels == {0, 1}

\* It reads SDA at every rise of the clock.
Receiving(d) == d.mode \in {"address", "data"}

\* A device, while the clock is at scl: it answers a byte at the fall after the
\* eighth bit, and holds SDA only to answer or to send.
DeviceOK(d, scl) ==
  /\ d \in [mode : Modes, bits : Seq(Levels), left : Seq(Levels), out : Levels,
            byte : {<<>>} \cup Payloads]
  /\ Len(d.bits) <= 8 /\ Len(d.left) <= 7
  /\ Receiving(d) /\ scl = 0 => Len(d.bits) # 8
  /\ d.out = 1 \/ d.mode \in {"taken", "turn", "send"}

\* The operations.
Ops == Released \cup {"init", "start", "stop", "write", "answer", "read", "ack", "nack"}

\* The number of settings an operation makes.
SettingsOf ==
  [name \in Ops |->
     IF name \in Released THEN 2
     ELSE IF name \in {"start", "stop"} THEN 3
     ELSE IF name = "answer" THEN 4
     ELSE IF name \in {"ack", "nack"} THEN 5
     ELSE IF name = "read" THEN 18
     ELSE IF name = "write" THEN 25
     ELSE 62]

Total == SettingsOf[op]

I2cTypeOK ==
  /\ SDA \in Levels /\ SCL \in Levels /\ op \in Ops /\ made \in 0 .. Total
  /\ got \in Seq(Levels) /\ rw \in Levels /\ lastBit \in BOOLEAN
  /\ sent \in {<<>>} \cup Addresses \cup Payloads
  /\ op = "write" => sent # <<>>
  /\ DeviceOK(device, SCL)

\* After a reset, when both lines have been released.
ReleasedInv == made = 2 => SDA = 1 /\ SCL = 1

\* The clocks of the initialisation that have not fallen yet, after m settings.
Rest(m) == IF m <= 4 THEN 27 ELSE 28 - ((m - 2) \div 2)

\* A device in the clocks of the initialisation, when so many falls remain.  What
\* counts is that it does not hold SDA when none remains.  It may answer a byte
\* only at a fall that leaves no multiple of nine: its bits and the falls that
\* remain keep their sum modulo nine.  Having heard an address of ones it sends
\* one byte and is never asked for another; both end early enough.
Settling(d, scl, remain) ==
  /\ d.mode # "more"
  /\ d.mode = "data" => (Len(d.bits) + remain) % 9 # IF scl = 0 THEN 8 ELSE 0
  /\ d.mode = "taken" => remain % 9 # 0
  /\ d.mode = "address" /\ scl = 0 => 28 - remain <= Len(d.bits) + 1
  /\ d.mode = "address" /\ scl = 1 =>
       28 - remain <= Len(d.bits) /\ Len(d.bits) # 0 /\ d.bits[Len(d.bits)] = 1
  /\ d.mode = "turn" => 28 - remain <= 9
  /\ d.mode = "send" => (28 - remain) + Len(d.left) <= 17
  /\ d.mode = "asked" => scl = 0 /\ 28 - remain <= 18

\* The initialisation: its clocks, then a start and the stop.
InitInv ==
  /\ made = 0 => SDA = 1 /\ SCL = 1 /\ (Receiving(device) => Len(device.bits) # 8)
  /\ made \in 1 .. 59 =>
       /\ SCL = IF made > 3 /\ made % 2 = 1 THEN 1 ELSE 0
       /\ made # 2 => SDA = 1
       /\ Settling(device, SCL, Rest(made))
  /\ made \in 60 .. 61 => SDA = 0 /\ SCL = 1 /\ device.mode = "address"
  /\ made = 62 => SDA = 1 /\ SCL = 1 /\ device.mode = "off"

\* A device that waits for a start, or for a byte: it leaves SDA alone.
Open == device.mode = "off" \/ (device.mode = "data" /\ device.bits = <<>>)

\* A start, after a stop or in place of one.
StartInv ==
  /\ made \in 0 .. 1 => \/ SCL = 0 /\ Open
                        \/ SCL = 1 /\ SDA = 1 /\ device.mode = "off"
  /\ made = 1 => SDA = 1
  /\ made = 2 => SDA = 1 /\ SCL = 1 /\ device.mode \in {"off", "data"}
  /\ made = 3 => SDA = 0 /\ SCL = 1 /\ device.mode = "address" /\ device.bits = <<>>

\* A stop.
StopInv ==
  /\ made \in 0 .. 1 => SCL = 0 /\ Open
  /\ made \in 1 .. 2 => SDA = 0
  /\ made = 2 => SCL = 1 /\ device.mode \in {"off", "data"}
  /\ made = 3 => SDA = 1 /\ SCL = 1 /\ device.mode = "off"

\* s is the first n of t.
SameTo(s, t, n) == Len(s) = n /\ \A i \in 1 .. n : s[i] = t[i]

\* A device that has a byte: it holds SDA low if it takes it, or is to send.
Acknowledging ==
  /\ device.mode \in {"refused", "taken", "turn"}
  /\ device.mode = "taken" => rw = 0 /\ device.out = 0
  /\ device.mode = "turn" => rw = 1 /\ device.out = 0

\* A byte written: the device has one bit more at every third setting.
WriteInv ==
  /\ device.mode = "address" => rw = sent[8]
  /\ device.mode = "data" => rw = 0
  /\ made = 0 => /\ device.bits = <<>>
                 /\ \/ device.mode = "address" /\ SCL = 1 /\ SDA = 0
                    \/ device.mode = "data" /\ SCL = 0
  /\ made \in 1 .. 24 =>
       /\ Receiving(device) /\ SameTo(device.bits, sent, made \div 3)
       /\ SCL = IF made % 3 = 0 THEN 1 ELSE 0
       /\ made > 1 => SDA = sent[((made - 2) \div 3) + 1]
  /\ made = 25 => SCL = 0 /\ Acknowledging /\ device.bits = sent

\* A device that has been told to send, and holds SDA at the first bit.
FreshOf(d) ==
  /\ d.mode = "send" /\ d.byte \in Payloads
  /\ d.left = Tail(d.byte) /\ d.out = d.byte[1]

Fresh == FreshOf(device)

\* The device's answer: read while the clock is high, over when it falls.
AnswerInv ==
  /\ SCL = IF made = 3 THEN 1 ELSE 0
  /\ made \in 0 .. 3 => Acknowledging
  /\ made >= 2 => SDA = 1
  /\ made < 3 => got = <<>>
  /\ made = 3 => got = <<device.out>>
  /\ made = 4 => \/ device.mode = "off" /\ got = <<1>>
                 \/ device.mode = "data" /\ device.bits = <<>> /\ got = <<0>> /\ rw = 0
                 \/ Fresh /\ got = <<0>> /\ rw = 1

\* The bits the device has sent before the one SDA is held at, and those read.
SentBits == IF made < 2 THEN 0 ELSE (made - 2) \div 2
ReadBits == IF made = 0 THEN 0 ELSE (made - 1) \div 2

\* A byte read: what has been read and what is left to send make up the byte.
ReadInv ==
  /\ made \in 0 .. 17 =>
       /\ device.mode = "send" /\ device.byte \in Payloads /\ device.out = device.byte[SentBits + 1]
       /\ Len(device.left) = 7 - SentBits
       /\ \A i \in 1 .. 7 - SentBits : device.left[i] = device.byte[i + (SentBits + 1)]
       /\ SameTo(got, device.byte, ReadBits)
       /\ SCL = IF made > 1 /\ made % 2 = 1 THEN 1 ELSE 0
  /\ made >= 2 => SDA = 1
  /\ made = 18 => SCL = 0 /\ device.mode = "asked" /\ got = device.byte

\* The master's answer: 0 asks for another byte, 1 ends it.
AckInv(bit) ==
  /\ SCL = IF made = 3 THEN 1 ELSE 0
  /\ made \in 0 .. 2 => device.mode = "asked"
  /\ made \in {0, 5} => SDA = 1
  /\ made \in 2 .. 4 => SDA = bit
  /\ made = 3 => device.mode = IF bit = 0 THEN "more" ELSE "off"
  /\ made \in 4 .. 5 => IF bit = 0 THEN Fresh ELSE device.mode = "off"

\* At every setting of every operation.
OpInv ==
  /\ op = "init" => InitInv
  /\ op = "start" => StartInv
  /\ op = "stop" => StopInv
  /\ op = "write" => WriteInv
  /\ op = "answer" => AnswerInv
  /\ op = "read" => ReadInv
  /\ op = "ack" => AckInv(0)
  /\ op = "nack" => AckInv(1)

\* It holds wherever the processor is reset, but for what lastBit excludes.
I2cInv == I2cTypeOK /\ (op \in Released => ReleasedInv) /\ (Clear => OpInv)

-----------------------------------------------------------------------------

\* A function of 1 to n is a sequence of that length.
LEMMA BitsAreSeq ==
  ASSUME NEW S, NEW n \in Nat, NEW b \in [1 .. n -> S]
  PROVE  b \in Seq(S) /\ Len(b) = n
OBVIOUS

\* The first of a sequence and the others.
LEMMA FirstAndOthers ==
  ASSUME NEW S, NEW n \in Nat, NEW s \in Seq(S), Len(s) = n + 1
  PROVE  /\ Head(s) = s[1] /\ Head(s) \in S
         /\ Tail(s) \in Seq(S) /\ Len(Tail(s)) = n
         /\ \A i \in 1 .. n : Tail(s)[i] = s[i + 1]
<1>1. s # <<>>
  BY EmptySeq
<1>2. (n + 1) - 1 = n
  OBVIOUS
<1>3. Head(s) \in S /\ Tail(s) \in Seq(S) /\ Len(Tail(s)) = n
      /\ \A i \in 1 .. n : Tail(s)[i] = s[i + 1]
  BY <1>1, <1>2, HeadTailProperties
<1>4. Head(s) = s[1]
  OBVIOUS
<1> QED
  BY <1>3, <1>4

\* A byte that is not whole has room for a bit.
LEMMA RoomForOne ==
  ASSUME NEW n \in Nat, n <= 8, n # 8
  PROVE  n + 1 <= 8
OBVIOUS

\* A device takes a bit, hears whether to go on, or does nothing.
LEMMA RisingIs ==
  ASSUME NEW d, DeviceOK(d, 0), NEW bit \in Levels, NEW e, e = Rising(d, bit)
  PROVE  /\ DeviceOK(e, 1)
         /\ e.out = d.out /\ e.byte = d.byte /\ e.left = d.left
         /\ Receiving(d) => /\ e.mode = d.mode /\ Len(e.bits) = Len(d.bits) + 1
                            /\ \A i \in 1 .. Len(d.bits) : e.bits[i] = d.bits[i]
                            /\ e.bits[Len(d.bits) + 1] = bit
         /\ d.mode = "asked" => e.mode = IF bit = 0 THEN "more" ELSE "off"
         /\ ~Receiving(d) /\ d.mode # "asked" => e = d
<1>1. CASE Receiving(d)
  <2>1. e = [d EXCEPT !.bits = Append(d.bits, bit)]
    BY <1>1 DEF Rising, Receiving
  <2>2. d.bits \in Seq(Levels) /\ Len(d.bits) \in Nat
    BY DEF DeviceOK
  <2>3. /\ Append(d.bits, bit) \in Seq(Levels) /\ Len(Append(d.bits, bit)) = Len(d.bits) + 1
        /\ \A i \in 1 .. Len(d.bits) : Append(d.bits, bit)[i] = d.bits[i]
        /\ Append(d.bits, bit)[Len(d.bits) + 1] = bit
    BY <2>2, AppendProperties
  <2>4. /\ e.bits = Append(d.bits, bit)
        /\ e.mode = d.mode /\ e.out = d.out /\ e.byte = d.byte /\ e.left = d.left
    BY <2>1 DEF DeviceOK
  <2>5. Len(d.bits) + 1 <= 8
    <3>1. Len(d.bits) <= 8 /\ Len(d.bits) # 8
      BY <1>1 DEF DeviceOK
    <3> QED
      BY <2>2, <3>1, RoomForOne, Zenon
  <2>6. DeviceOK(e, 1)
    <3>1. e \in [mode : Modes, bits : Seq(Levels), left : Seq(Levels), out : Levels,
                 byte : {<<>>} \cup Payloads]
      BY <2>1, <2>3 DEF DeviceOK
    <3>2. Len(e.bits) <= 8 /\ Len(e.left) <= 7
      BY <2>3, <2>4, <2>5 DEF DeviceOK
    <3>3. e.out = 1 \/ e.mode \in {"taken", "turn", "send"}
      BY <2>4 DEF DeviceOK
    <3> QED
      BY <3>1, <3>2, <3>3 DEF DeviceOK
  <2> QED
    BY <1>1, <2>3, <2>4, <2>6 DEF Receiving
<1>2. CASE d.mode = "asked"
  BY <1>2 DEF Rising, Receiving, DeviceOK, Modes
<1>3. CASE ~Receiving(d) /\ d.mode # "asked"
  BY <1>3 DEF Rising, Receiving, DeviceOK, Modes
<1> QED
  BY <1>1, <1>2, <1>3

\* A device that has loaded a byte holds its first bit and has seven to send.
LEMMA LoadIs ==
  ASSUME NEW d, DeviceOK(d, 1), NEW byte \in Payloads, NEW e, e = Load(d, byte)
  PROVE  FreshOf(e) /\ DeviceOK(e, 0)
<1>1. byte \in [1 .. 8 -> Levels]
  BY I2cAssumption DEF Levels
<1>2. byte \in Seq(Levels) /\ Len(byte) = 8
  BY <1>1, BitsAreSeq
<1>3. /\ Head(byte) = byte[1] /\ Tail(byte) \in Seq(Levels) /\ Len(Tail(byte)) = 7
      /\ Head(byte) \in Levels
  <2>1. PICK n \in Nat : n = 7
    OBVIOUS
  <2>2. Len(byte) = n + 1
    BY <1>2, <2>1
  <2>3. /\ Head(byte) = byte[1] /\ Tail(byte) \in Seq(Levels) /\ Len(Tail(byte)) = n
        /\ Head(byte) \in Levels
    BY <1>2, <2>2, FirstAndOthers
  <2> QED
    BY <2>1, <2>3
<1>4. e \in [mode : Modes, bits : Seq(Levels), left : Seq(Levels), out : Levels,
                 byte : {<<>>} \cup Payloads]
  BY <1>3 DEF DeviceOK, Load, Modes
<1>5. FreshOf(e) /\ e.left = Tail(byte) /\ e.bits = d.bits
  BY <1>3 DEF FreshOf, DeviceOK, Load
<1> QED
  BY <1>3, <1>4, <1>5 DEF DeviceOK, FreshOf, Receiving

\* A sending device puts the next bit, or waits to be asked for more.
LEMMA SendingIs ==
  ASSUME NEW d, DeviceOK(d, 1), NEW e, e \in Falling(d), d.mode = "send"
  PROVE  /\ DeviceOK(e, 0)
         /\ e.byte = d.byte
         /\ Len(d.left) = 0 => e.mode = "asked" /\ e.out = 1
         /\ Len(d.left) # 0 =>
              /\ e.mode = "send" /\ e.out = d.left[1]
              /\ Len(e.left) = Len(d.left) - 1
              /\ \A i \in 1 .. Len(e.left) : e.left[i] = d.left[i + 1]
<1>1. CASE d.left = <<>>
  <2>1. e = [d EXCEPT !.mode = "asked", !.out = 1]
    BY <1>1 DEF Falling
  <2>2. Len(d.left) = 0
    BY <1>1, EmptySeq
  <2>3. DeviceOK(e, 0) /\ e.mode = "asked" /\ e.out = 1 /\ e.byte = d.byte
    BY <2>1 DEF DeviceOK, Receiving, Modes, Levels
  <2> QED
    BY <2>2, <2>3
<1>2. CASE d.left # <<>>
  <2>1. d.left \in Seq(Levels) /\ Len(d.left) \in Nat /\ Len(d.left) # 0
    BY <1>2, EmptySeq DEF DeviceOK
  <2>2. PICK n \in Nat : Len(d.left) = n + 1
    <3>1. Len(d.left) - 1 \in Nat /\ Len(d.left) = (Len(d.left) - 1) + 1
      BY <2>1
    <3> QED
      BY <3>1
  <2>3. /\ Head(d.left) = d.left[1] /\ Head(d.left) \in Levels
        /\ Tail(d.left) \in Seq(Levels) /\ Len(Tail(d.left)) = n
        /\ \A i \in 1 .. n : Tail(d.left)[i] = d.left[i + 1]
    BY <2>1, <2>2, FirstAndOthers
  <2>4. e = [d EXCEPT !.left = Tail(d.left), !.out = Head(d.left)]
    BY <1>2 DEF Falling
  <2>5. /\ e.mode = "send" /\ e.byte = d.byte /\ e.out = d.left[1] /\ e.left = Tail(d.left)
        /\ e.bits = d.bits
    BY <2>3, <2>4 DEF DeviceOK
  <2>6. e \in [mode : Modes, bits : Seq(Levels), left : Seq(Levels), out : Levels,
               byte : {<<>>} \cup Payloads]
    BY <2>3, <2>4 DEF DeviceOK
  <2>7. n <= 7 /\ n + 1 - 1 = n
    <3>1. n + 1 <= 7
      BY <2>2 DEF DeviceOK
    <3> QED
      BY <3>1
  <2>8. DeviceOK(e, 0)
    BY <2>3, <2>5, <2>6, <2>7 DEF DeviceOK, Receiving
  <2> QED
    BY <2>1, <2>2, <2>3, <2>5, <2>7, <2>8
<1> QED
  BY <1>1, <1>2

\* A device that has not a whole byte: what it does by its mode.
LEMMA WaitingIs ==
  ASSUME NEW d, DeviceOK(d, 1), NEW e, e \in Falling(d),
         ~Receiving(d) \/ Len(d.bits) # 8
  PROVE  /\ DeviceOK(e, 0)
         /\ Receiving(d) \/ d.mode \in {"off", "asked"} => e = d
         /\ d.mode = "refused" => e.mode = "off"
         /\ d.mode = "taken" => e.mode = "data" /\ e.bits = <<>> /\ e.out = 1
         /\ d.mode \in {"turn", "more"} => FreshOf(e)
<1>1. CASE Receiving(d) \/ d.mode \in {"off", "asked"}
  <2>1. e = d
    BY <1>1 DEF Falling, Receiving
  <2> QED
    BY <1>1, <2>1 DEF DeviceOK, Receiving
<1>2. CASE d.mode = "refused"
  <2>1. e = Silent(d)
    BY <1>2 DEF Falling
  <2>2. e.mode = "off" /\ DeviceOK(e, 0)
    BY <1>2, <2>1 DEF Silent, DeviceOK, Receiving, Modes, Levels
  <2> QED
    BY <1>2, <2>2 DEF Receiving
<1>3. CASE d.mode = "taken"
  <2>1. e = [d EXCEPT !.mode = "data", !.bits = <<>>, !.out = 1]
    BY <1>3 DEF Falling
  <2>2. <<>> \in Seq(Levels) /\ Len(<<>>) = 0
    BY EmptySeq
  <2>3. e.mode = "data" /\ e.bits = <<>> /\ e.out = 1 /\ e.left = d.left
    BY <2>1 DEF DeviceOK
  <2>4. e \in [mode : Modes, bits : Seq(Levels), left : Seq(Levels), out : Levels,
               byte : {<<>>} \cup Payloads]
    BY <2>1, <2>2 DEF DeviceOK, Modes, Levels
  <2>5. Len(e.bits) = 0
    BY <2>2, <2>3
  <2>6. Len(e.bits) <= 8 /\ Len(e.bits) # 8
    BY <2>5
  <2>7. DeviceOK(e, 0)
    BY <2>3, <2>4, <2>6 DEF DeviceOK
  <2> QED
    BY <1>3, <2>3, <2>7 DEF Receiving
<1>4. CASE d.mode \in {"turn", "more"}
  <2>1. PICK byte \in Payloads : e = Load(d, byte)
    BY <1>4 DEF Falling
  <2>2. FreshOf(e) /\ DeviceOK(e, 0)
    BY <2>1, LoadIs
  <2> QED
    BY <1>4, <2>2 DEF Receiving
<1>5. CASE d.mode = "send"
  <2>1. DeviceOK(e, 0)
    BY <1>5, SendingIs
  <2> QED
    BY <1>5, <2>1 DEF Receiving
<1> QED
  BY <1>1, <1>2, <1>3, <1>4, <1>5 DEF DeviceOK, Modes, Receiving

\* A device that has a whole byte answers it or not.
LEMMA AnsweringIs ==
  ASSUME NEW d, DeviceOK(d, 1), NEW e, e \in Falling(d), Receiving(d), Len(d.bits) = 8
  PROVE  /\ DeviceOK(e, 0) /\ e.bits = d.bits
         /\ \/ e.mode = "refused"
            \/ e.mode = "turn" /\ d.mode = "address" /\ d.bits[8] = 1 /\ e.out = 0
            \/ e.mode = "taken" /\ (d.mode = "address" => d.bits[8] # 1) /\ e.out = 0
<1>1. CASE e = [d EXCEPT !.mode = "refused"]
  BY <1>1 DEF DeviceOK, Receiving, Modes
<1>2. CASE e = [d EXCEPT !.mode = IF d.mode = "address" /\ d.bits[8] = 1 THEN "turn" ELSE "taken",
                         !.out = 0]
  <2>1. CASE d.mode = "address" /\ d.bits[8] = 1
    BY <1>2, <2>1 DEF DeviceOK, Receiving, Modes, Levels
  <2>2. CASE ~(d.mode = "address" /\ d.bits[8] = 1)
    BY <1>2, <2>2 DEF DeviceOK, Receiving, Modes, Levels
  <2> QED
    BY <2>1, <2>2
<1> QED
  BY <1>1, <1>2 DEF Falling, Receiving

-----------------------------------------------------------------------------

\* The short scripts, setting by setting.
LEMMA ShortScripts ==
  ASSUME op \in Ops
  PROVE  /\ op \in Released => /\ Len(Script) = 2 /\ Script[2] = Set(1, 1)
                               /\ Script[1] \in {Set(1, SCL), Set(SDA, 1)}
         /\ op = "start" => /\ Len(Script) = 3
                            /\ Script[1] = Set(1, SCL) /\ Script[2] = Set(1, 1) /\ Script[3] = Set(0, 1)
         /\ op = "stop" => /\ Len(Script) = 3
                           /\ Script[1] = Set(0, SCL) /\ Script[2] = Set(0, 1) /\ Script[3] = Set(1, 1)
         /\ op = "answer" => /\ Len(Script) = 4 /\ Script[1] = Set(SDA, 0) /\ Script[2] = Set(1, 0)
                             /\ Script[3] = SetAndRead /\ Script[4] = Set(1, 0)
         /\ op \in {"ack", "nack"} =>
              LET bit == IF op = "ack" THEN 0 ELSE 1 IN
              /\ Len(Script) = 5 /\ Script[1] = Set(SDA, 0) /\ Script[2] = Set(bit, 0)
              /\ Script[3] = Set(bit, 1) /\ Script[4] = Set(bit, 0) /\ Script[5] = Set(1, 0)
<1>1. CASE op = "SDA released"
  BY <1>1 DEF Script, Released
<1>2. CASE op = "SCL released"
  BY <1>2 DEF Script, Released
<1>3. CASE op = "start"
  BY <1>3 DEF Script, Released, i2c_master_start
<1>4. CASE op = "stop"
  BY <1>4 DEF Script, Released, i2c_master_stop
<1>5. CASE op = "answer"
  BY <1>5 DEF Script, Released, i2c_master_getAck
<1>6. CASE op = "ack"
  BY <1>6 DEF Script, Released, i2c_master_setAck
<1>7. CASE op = "nack"
  BY <1>7 DEF Script, Released, i2c_master_setAck
<1> QED
  BY <1>1, <1>2, <1>3, <1>4, <1>5, <1>6, <1>7 DEF Released

\* A sequence of three parts of lengths m, n and k.
Joins(q, a, b, c, m, n, k) ==
  /\ Len(q) = m + n + k
  /\ \A i \in 1 .. m : q[i] = a[i]
  /\ \A i \in 1 .. n : q[m + i] = b[i]
  /\ \A i \in 1 .. k : q[m + n + i] = c[i]

\* A setting of the lines.
Setting == [sda : Levels, scl : Levels, read : BOOLEAN]

\* Three sequences one after the other.
LEMMA ThreeParts ==
  ASSUME NEW a \in Seq(Setting), NEW b \in Seq(Setting), NEW c \in Seq(Setting)
  PROVE  Joins((a \o b) \o c, a, b, c, Len(a), Len(b), Len(c))
<1> DEFINE S == Setting
<1> HIDE DEF S
<1>1. PICK m \in Nat, n \in Nat, k \in Nat : m = Len(a) /\ n = Len(b) /\ k = Len(c)
  <2>1. Len(a) \in Nat /\ Len(b) \in Nat /\ Len(c) \in Nat
    BY LenProperties
  <2> QED
    BY <2>1
<1>2. a \in Seq(S) /\ b \in Seq(S) /\ c \in Seq(S)
  BY DEF S
<1>3. PICK q : q = (a \o b) \o c
  OBVIOUS
<1>4. /\ a \o b \in Seq(S) /\ Len(a \o b) = m + n
      /\ \A i \in 1 .. m + n : (a \o b)[i] = IF i <= m THEN a[i] ELSE b[i - m]
  BY <1>1, <1>2, ConcatProperties
<1>5. PICK l \in Nat : l = m + n
  OBVIOUS
<1>6. PICK d \in Seq(S) : d = a \o b
  BY <1>4
<1>7. Len(d) = l /\ \A i \in 1 .. l : d[i] = IF i <= m THEN a[i] ELSE b[i - m]
  BY <1>4, <1>5, <1>6
<1>8. /\ Len(d \o c) = l + k
      /\ \A i \in 1 .. l + k : (d \o c)[i] = IF i <= l THEN d[i] ELSE c[i - l]
  BY <1>7, <1>1, <1>2, ConcatProperties
<1>9. q = d \o c
  BY <1>6, <1>3
<1>10. Len(q) = l + k /\ \A i \in 1 .. l + k : q[i] = IF i <= l THEN d[i] ELSE c[i - l]
  BY <1>8, <1>9
<1>11. ASSUME NEW i \in 1 .. m PROVE q[i] = a[i]
  <2>1. i \in 1 .. l + k /\ i <= l /\ i \in 1 .. l /\ i <= m
    BY <1>5
  <2> QED
    BY <1>7, <1>10, <2>1
<1>12. ASSUME NEW i \in 1 .. n PROVE q[m + i] = b[i]
  <2>1. m + i \in 1 .. l + k /\ m + i <= l /\ m + i \in 1 .. l /\ ~(m + i <= m) /\ (m + i) - m = i
    BY <1>5
  <2> QED
    BY <1>7, <1>10, <2>1, Zenon
<1>13. ASSUME NEW i \in 1 .. k PROVE q[l + i] = c[i]
  <2>1. l + i \in 1 .. l + k /\ ~(l + i <= l) /\ (l + i) - l = i
    OBVIOUS
  <2> QED
    BY <1>10, <2>1, Zenon
<1>14. Joins(q, a, b, c, m, n, k)
  BY <1>5, <1>10, <1>11, <1>12, <1>13 DEF Joins
<1> QED
  BY <1>1, <1>3, <1>14, Zenon

\* The long scripts, setting by setting.
LEMMA LongScripts ==
  ASSUME SDA \in Levels, SCL \in Levels
  PROVE  /\ op = "init" =>
              /\ Len(Script) = 62
              /\ Script[1] = Set(1, 0) /\ Script[2] = Set(0, 0) /\ Script[3] = Set(1, 0)
              /\ \A k \in 1 .. 56 : Script[3 + k] = IF k % 2 = 1 THEN Set(1, 0) ELSE Set(1, 1)
              /\ Script[60] = Set(0, SCL) /\ Script[61] = Set(0, 1) /\ Script[62] = Set(1, 1)
         /\ op = "read" =>
              /\ Len(Script) = 18
              /\ Script[1] = Set(SDA, 0) /\ Script[18] = Set(1, 0)
              /\ \A k \in 1 .. 16 : Script[1 + k] = IF k % 2 = 1 THEN Set(1, 0) ELSE SetAndRead
         /\ op = "write" /\ sent \in [1 .. 8 -> Levels] =>
              /\ Len(Script) = 25
              /\ Script[1] = Set(SDA, 0)
              /\ \A k \in 1 .. 24 : Script[1 + k] = Set(sent[((k - 1) \div 3) + 1],
                                                       IF k % 3 = 2 THEN 1 ELSE 0)
<1>1. /\ 0 \in Levels /\ 1 \in Levels /\ SetAndRead \in Setting
      /\ \A x, y \in Levels : Set(x, y) \in Setting
  BY DEF Levels, Set, SetAndRead, Setting
<1>2. ASSUME op = "init"
      PROVE  /\ Len(Script) = 62
             /\ Script[1] = Set(1, 0) /\ Script[2] = Set(0, 0) /\ Script[3] = Set(1, 0)
             /\ \A k \in 1 .. 56 : Script[3 + k] = IF k % 2 = 1 THEN Set(1, 0) ELSE Set(1, 1)
             /\ Script[60] = Set(0, SCL) /\ Script[61] = Set(0, 1) /\ Script[62] = Set(1, 1)
  <2>1. PICK a : a = <<Set(1, 0), Set(0, 0), Set(1, 0)>>
    OBVIOUS
  <2>2. PICK b : b = Clocks(28, Set(1, 1))
    OBVIOUS
  <2>3. PICK c : c = i2c_master_stop
    OBVIOUS
  <2>4. a \in Seq(Setting) /\ Len(a) = 3 /\ a[1] = Set(1, 0) /\ a[2] = Set(0, 0) /\ a[3] = Set(1, 0)
    BY <1>1, <2>1
  <2>5. c \in Seq(Setting) /\ Len(c) = 3 /\ c[1] = Set(0, SCL) /\ c[2] = Set(0, 1) /\ c[3] = Set(1, 1)
    BY <1>1, <2>3 DEF i2c_master_stop
  <2>6. /\ b \in [1 .. 56 -> Setting]
        /\ \A k \in 1 .. 56 : b[k] = IF k % 2 = 1 THEN Set(1, 0) ELSE Set(1, 1)
    BY <1>1, <2>2 DEF Clocks
  <2>7. b \in Seq(Setting) /\ Len(b) = 56
    BY <2>6, BitsAreSeq
  <2>8. Script = (a \o b) \o c
    BY <1>2, <2>1, <2>2, <2>3 DEF Script, i2c_master_init
  <2>9. PICK m \in Nat, n \in Nat : m = 3 /\ n = 56
    OBVIOUS
  <2>10. /\ Len(Script) = m + n + m
         /\ \A i \in 1 .. m : Script[i] = a[i]
         /\ \A i \in 1 .. n : Script[m + i] = b[i]
         /\ \A i \in 1 .. m : Script[m + n + i] = c[i]
    <3>1. Len(a) = m /\ Len(b) = n /\ Len(c) = m
      BY <2>4, <2>5, <2>7, <2>9
    <3>2. Joins(Script, a, b, c, Len(a), Len(b), Len(c))
      BY <2>4, <2>5, <2>7, <2>8, ThreeParts, Zenon
    <3>3. Joins(Script, a, b, c, m, n, m)
      BY <3>1, <3>2, Zenon
    <3> QED
      BY <3>3 DEF Joins
  <2>11. /\ Script[60] = c[1] /\ Script[61] = c[2] /\ Script[62] = c[3]
    BY <2>9, <2>10
  <2> QED
    BY <2>4, <2>5, <2>6, <2>9, <2>10, <2>11
<1>3. ASSUME op = "read"
      PROVE  /\ Len(Script) = 18
             /\ Script[1] = Set(SDA, 0) /\ Script[18] = Set(1, 0)
             /\ \A k \in 1 .. 16 : Script[1 + k] = IF k % 2 = 1 THEN Set(1, 0) ELSE SetAndRead
  <2>1. PICK a : a = <<Set(SDA, 0)>>
    OBVIOUS
  <2>2. PICK b : b = Clocks(8, SetAndRead)
    OBVIOUS
  <2>3. PICK c : c = <<Set(1, 0)>>
    OBVIOUS
  <2>4. a \in Seq(Setting) /\ Len(a) = 1 /\ a[1] = Set(SDA, 0)
    BY <1>1, <2>1
  <2>5. c \in Seq(Setting) /\ Len(c) = 1 /\ c[1] = Set(1, 0)
    BY <1>1, <2>3
  <2>6. /\ b \in [1 .. 16 -> Setting]
        /\ \A k \in 1 .. 16 : b[k] = IF k % 2 = 1 THEN Set(1, 0) ELSE SetAndRead
    BY <1>1, <2>2 DEF Clocks
  <2>7. b \in Seq(Setting) /\ Len(b) = 16
    <3>1. PICK n \in Nat : n = 16
      OBVIOUS
    <3>2. b \in [1 .. n -> Setting]
      BY <2>6, <3>1
    <3> QED
      BY <3>1, <3>2, BitsAreSeq
  <2>8. Script = (a \o b) \o c
    BY <1>3, <2>1, <2>2, <2>3 DEF Script, Released, i2c_master_readByte
  <2>9. PICK m \in Nat, n \in Nat : m = 1 /\ n = 16
    OBVIOUS
  <2>10. /\ Len(Script) = m + n + m
         /\ \A i \in 1 .. m : Script[i] = a[i]
         /\ \A i \in 1 .. n : Script[m + i] = b[i]
         /\ \A i \in 1 .. m : Script[m + n + i] = c[i]
    <3>1. Len(a) = m /\ Len(b) = n /\ Len(c) = m
      BY <2>4, <2>5, <2>7, <2>9
    <3>2. Joins(Script, a, b, c, Len(a), Len(b), Len(c))
      BY <2>4, <2>5, <2>7, <2>8, ThreeParts, Zenon
    <3>3. Joins(Script, a, b, c, m, n, m)
      BY <3>1, <3>2, Zenon
    <3> QED
      BY <3>3 DEF Joins
  <2> QED
    BY <2>4, <2>5, <2>6, <2>9, <2>10
<1>4. ASSUME op = "write", sent \in [1 .. 8 -> Levels]
      PROVE  /\ Len(Script) = 25
             /\ Script[1] = Set(SDA, 0)
             /\ \A k \in 1 .. 24 : Script[1 + k] = Set(sent[((k - 1) \div 3) + 1],
                                                      IF k % 3 = 2 THEN 1 ELSE 0)
  <2>1. PICK a : a = <<Set(SDA, 0)>>
    OBVIOUS
  <2>2. PICK b : b = Bits(sent)
    OBVIOUS
  <2>3. a \in Seq(Setting) /\ Len(a) = 1 /\ a[1] = Set(SDA, 0)
    BY <1>1, <2>1
  <2>4. /\ b \in [1 .. 24 -> Setting]
        /\ \A k \in 1 .. 24 : b[k] = Set(sent[((k - 1) \div 3) + 1], IF k % 3 = 2 THEN 1 ELSE 0)
    <3>1. \A k \in 1 .. 24 : ((k - 1) \div 3) + 1 \in 1 .. 8
      OBVIOUS
    <3>2. \A k \in 1 .. 24 : sent[((k - 1) \div 3) + 1] \in Levels
      BY <1>4, <3>1
    <3> QED
      BY <1>1, <2>2, <3>2 DEF Bits
  <2>5. b \in Seq(Setting) /\ Len(b) = 24
    BY <2>4, BitsAreSeq
  <2>6. Script = a \o b
    BY <1>4, <2>1, <2>2 DEF Script, Released, i2c_master_writeByte
  <2>7. PICK m \in Nat, n \in Nat : m = 1 /\ n = 24
    OBVIOUS
  <2>8. /\ Len(Script) = m + n
        /\ \A i \in 1 .. m + n : Script[i] = IF i <= m THEN a[i] ELSE b[i - m]
    <3>1. Len(a) = m /\ Len(b) = n /\ a \in Seq(Setting) /\ b \in Seq(Setting)
      BY <2>3, <2>5, <2>7
    <3> QED
      BY <2>6, <3>1, ConcatProperties
  <2>9. Script[m] = a[m] /\ \A i \in 1 .. n : Script[m + i] = b[i]
    BY <2>7, <2>8
  <2> QED
    BY <2>3, <2>4, <2>7, <2>8, <2>9
<1> QED
  BY <1>2, <1>3, <1>4

\* The number of settings of every operation.
LEMMA TotalIs ==
  ASSUME op \in Ops
  PROVE  /\ op \in Released => Total = 2
         /\ op \in {"start", "stop"} => Total = 3
         /\ op = "answer" => Total = 4
         /\ op \in {"ack", "nack"} => Total = 5
         /\ op = "read" => Total = 18
         /\ op = "write" => Total = 25
         /\ op = "init" => Total = 62
         /\ Total \in Nat
BY DEF Total, SettingsOf, Ops, Released

\* A byte written has eight bits.
LEMMA SentBits8 ==
  ASSUME I2cTypeOK
  PROVE  sent # <<>> => sent \in [1 .. 8 -> Levels]
BY I2cAssumption DEF I2cTypeOK, Levels

\* A script has as many settings as its operation makes.
LEMMA ScriptIs ==
  ASSUME I2cTypeOK
  PROVE  Len(Script) = Total /\ \A k \in 1 .. Total : Script[k] \in Setting
<1>1. op \in Ops /\ SDA \in Levels /\ SCL \in Levels /\ (op = "write" => sent \in [1 .. 8 -> Levels])
  BY SentBits8 DEF I2cTypeOK
<1>2. /\ 0 \in Levels /\ 1 \in Levels /\ SetAndRead \in Setting
      /\ \A x, y \in Levels : Set(x, y) \in Setting
  BY DEF Levels, Set, SetAndRead, Setting
<1>3. CASE op \in Released
  <2>1. Total = 2 /\ Len(Script) = 2 /\ Script[1] \in Setting /\ Script[2] \in Setting
    BY <1>1, <1>2, <1>3, TotalIs, ShortScripts
  <2> QED
    BY <2>1
<1>4. CASE op \in {"start", "stop"}
  <2>1. /\ Total = 3 /\ Len(Script) = 3 /\ Script[1] \in Setting /\ Script[2] \in Setting
        /\ Script[3] \in Setting
    BY <1>1, <1>2, <1>4, TotalIs, ShortScripts
  <2> QED
    BY <2>1
<1>5. CASE op = "answer"
  <2>1. /\ Total = 4 /\ Len(Script) = 4 /\ Script[1] \in Setting /\ Script[2] \in Setting
        /\ Script[3] \in Setting /\ Script[4] \in Setting
    BY <1>1, <1>2, <1>5, TotalIs, ShortScripts
  <2> QED
    BY <2>1
<1>6. CASE op \in {"ack", "nack"}
  <2>1. PICK bit \in Levels :
              /\ Len(Script) = 5 /\ Script[1] = Set(SDA, 0) /\ Script[2] = Set(bit, 0)
              /\ Script[3] = Set(bit, 1) /\ Script[4] = Set(bit, 0) /\ Script[5] = Set(1, 0)
    BY <1>1, <1>2, <1>6, ShortScripts
  <2>2. /\ Total = 5 /\ Script[1] \in Setting /\ Script[2] \in Setting
        /\ Script[3] \in Setting /\ Script[4] \in Setting /\ Script[5] \in Setting
    BY <1>1, <1>2, <1>6, <2>1, TotalIs
  <2> QED
    BY <2>1, <2>2
<1>7. CASE op = "read"
  <2>1. /\ Total = 18 /\ Len(Script) = 18 /\ Script[1] = Set(SDA, 0) /\ Script[18] = Set(1, 0)
        /\ \A k \in 1 .. 16 : Script[1 + k] = IF k % 2 = 1 THEN Set(1, 0) ELSE SetAndRead
    BY <1>1, <1>7, TotalIs, LongScripts
  <2>2. \A k \in 1 .. 16 : Script[1 + k] \in Setting
    BY <1>2, <2>1
  <2>3. Script[1] \in Setting /\ Script[18] \in Setting
    BY <1>1, <1>2, <2>1
  <2>4. ASSUME NEW k \in 1 .. 18 PROVE Script[k] \in Setting
    <3>1. k = 1 \/ k = 18 \/ \E i \in 1 .. 16 : k = 1 + i
      <4>1. k \in 2 .. 17 => k - 1 \in 1 .. 16 /\ k = 1 + (k - 1)
        OBVIOUS
      <4> QED
        BY <4>1
    <3> QED
      BY <2>2, <2>3, <3>1
  <2> QED
    BY <2>1, <2>4
<1>8. CASE op = "write"
  <2>1. /\ Total = 25 /\ Len(Script) = 25 /\ Script[1] = Set(SDA, 0)
        /\ \A k \in 1 .. 24 : Script[1 + k] = Set(sent[((k - 1) \div 3) + 1],
                                                 IF k % 3 = 2 THEN 1 ELSE 0)
    BY <1>1, <1>8, TotalIs, LongScripts
  <2>2. ASSUME NEW k \in 1 .. 24 PROVE Script[1 + k] \in Setting
    <3>1. ((k - 1) \div 3) + 1 \in 1 .. 8
      OBVIOUS
    <3>2. sent[((k - 1) \div 3) + 1] \in Levels
      BY <1>1, <1>8, <3>1
    <3> QED
      BY <1>2, <2>1, <3>2
  <2>3. ASSUME NEW k \in 1 .. 25 PROVE Script[k] \in Setting
    <3>1. k = 1 \/ \E i \in 1 .. 24 : k = 1 + i
      <4>1. k \in 2 .. 25 => k - 1 \in 1 .. 24 /\ k = 1 + (k - 1)
        OBVIOUS
      <4> QED
        BY <4>1
    <3> QED
      BY <1>1, <1>2, <2>1, <2>2, <3>1
  <2> QED
    BY <2>1, <2>3
<1>9. CASE op = "init"
  <2>1. /\ Total = 62 /\ Len(Script) = 62
        /\ Script[1] = Set(1, 0) /\ Script[2] = Set(0, 0) /\ Script[3] = Set(1, 0)
        /\ \A k \in 1 .. 56 : Script[3 + k] = IF k % 2 = 1 THEN Set(1, 0) ELSE Set(1, 1)
        /\ Script[60] = Set(0, SCL) /\ Script[61] = Set(0, 1) /\ Script[62] = Set(1, 1)
    BY <1>1, <1>9, TotalIs, LongScripts
  <2>2. \A k \in 1 .. 56 : Script[3 + k] \in Setting
    BY <1>2, <2>1
  <2>3. /\ Script[1] \in Setting /\ Script[2] \in Setting /\ Script[3] \in Setting
        /\ Script[60] \in Setting /\ Script[61] \in Setting /\ Script[62] \in Setting
    BY <1>1, <1>2, <2>1
  <2>4. ASSUME NEW k \in 1 .. 62 PROVE Script[k] \in Setting
    <3>1. k \in {1, 2, 3, 60, 61, 62} \/ \E i \in 1 .. 56 : k = 3 + i
      <4>1. k \in 4 .. 59 => k - 3 \in 1 .. 56 /\ k = 3 + (k - 3)
        OBVIOUS
      <4> QED
        BY <4>1
    <3> QED
      BY <2>2, <2>3, <3>1
  <2> QED
    BY <2>1, <2>4
<1> QED
  BY <1>1, <1>3, <1>4, <1>5, <1>6, <1>7, <1>8, <1>9 DEF Ops

\* A device that hears a start receives an address; one that hears a stop is silent.
LEMMA FramingIs ==
  ASSUME NEW d, DeviceOK(d, 1), NEW bit \in Levels, NEW e, e = Framing(d, bit)
  PROVE  /\ DeviceOK(e, 1) /\ e.out = 1
         /\ bit = 0 => e.mode = "address" /\ e.bits = <<>>
         /\ bit = 1 => e.mode = "off"
<1>1. CASE bit = 0
  <2>1. e = [d EXCEPT !.mode = "address", !.bits = <<>>, !.out = 1]
    BY <1>1 DEF Framing
  <2>2. <<>> \in Seq(Levels) /\ Len(<<>>) = 0
    BY EmptySeq
  <2>3. e.mode = "address" /\ e.bits = <<>> /\ e.out = 1 /\ e.left = d.left
    BY <2>1 DEF DeviceOK
  <2>4. e \in [mode : Modes, bits : Seq(Levels), left : Seq(Levels), out : Levels,
               byte : {<<>>} \cup Payloads]
    BY <2>1, <2>2 DEF DeviceOK, Modes, Levels
  <2>5. Len(e.bits) = 0
    BY <2>2, <2>3
  <2>6. Len(e.bits) <= 8 /\ Len(e.bits) # 8
    BY <2>5
  <2>7. DeviceOK(e, 1)
    BY <2>3, <2>4, <2>6 DEF DeviceOK
  <2> QED
    BY <1>1, <2>3, <2>7
<1>2. CASE bit = 1
  <2>1. e = [d EXCEPT !.mode = "off", !.out = 1]
    BY <1>2 DEF Framing, Silent
  <2>2. e.mode = "off" /\ e.out = 1 /\ e.bits = d.bits /\ e.left = d.left
    BY <2>1 DEF DeviceOK
  <2>3. e \in [mode : Modes, bits : Seq(Levels), left : Seq(Levels), out : Levels,
               byte : {<<>>} \cup Payloads]
    BY <2>1 DEF DeviceOK, Modes, Levels
  <2>4. DeviceOK(e, 1)
    BY <2>2, <2>3 DEF DeviceOK, Receiving
  <2>5. bit # 0
    BY <1>2
  <2> QED
    BY <2>2, <2>4, <2>5
<1>3. bit = 0 \/ bit = 1
  BY DEF Levels
<1> QED
  BY <1>1, <1>2, <1>3

\* At a fall of the clock a device stays one.
LEMMA FallingOK ==
  ASSUME NEW d, DeviceOK(d, 1), NEW e, e \in Falling(d)
  PROVE  DeviceOK(e, 0)
<1>1. CASE Receiving(d) /\ Len(d.bits) = 8
  BY <1>1, AnsweringIs
<1>2. CASE ~Receiving(d) \/ Len(d.bits) # 8
  BY <1>2, WaitingIs
<1> QED
  BY <1>1, <1>2

\* What the device makes of the lines moving to the setting.
Moves(setting) ==
  /\ SDA' = setting.sda /\ SCL' = setting.scl
  /\ SCL = 0 /\ SCL' = 0 => device' = device
  /\ SCL = 0 /\ SCL' = 1 => device' = Rising(device, Level(SDA', device))
  /\ SCL = 1 /\ SCL' = 0 => device' \in Falling(device)
  /\ SCL = 1 /\ SCL' = 1 =>
       device' = IF Level(SDA', device) = Level(SDA, device) THEN device
                 ELSE Framing(device, Level(SDA', device))
  /\ got' = IF setting.read THEN Append(got, Level(SDA', device')) ELSE got

\* What a setting leaves alone.
Kept == UNCHANGED <<op, sent, rw, lastBit>>

\* i2c_master_setDC makes the next setting of the script and nothing else.
LEMMA SettingMoves ==
  ASSUME I2cTypeOK, i2c_master_setDC
  PROVE  /\ made < Total /\ made + 1 \in 1 .. Total /\ made' = made + 1
         /\ Moves(Script[made + 1]) /\ Kept /\ I2cTypeOK'
<1>1. /\ SDA \in Levels /\ SCL \in Levels /\ op \in Ops /\ DeviceOK(device, SCL)
      /\ made \in 0 .. Total /\ Total \in Nat /\ got \in Seq(Levels)
  BY TotalIs DEF I2cTypeOK
<1>2. Len(Script) = Total /\ \A k \in 1 .. Total : Script[k] \in Setting
  BY ScriptIs
<1>3. made # Total /\ made' = made + 1
  BY <1>2 DEF i2c_master_setDC, Over
<1>4. made < Total /\ made + 1 \in 1 .. Total
  BY <1>1, <1>3
<1>5. PICK s \in Setting : s = Script[made + 1]
  BY <1>2, <1>4
<1>6. /\ SDA' = s.sda /\ SCL' = s.scl /\ device' \in Noticed(device, SDA', SCL')
      /\ got' = IF s.read THEN Append(got, Level(SDA', device')) ELSE got
      /\ Kept
  BY <1>3, <1>5 DEF i2c_master_setDC, Kept
<1>7. SDA' \in Levels /\ SCL' \in Levels
  BY <1>5, <1>6 DEF Setting
<1>8. Moves(s)
  BY <1>1, <1>6, <1>7 DEF Moves, Noticed, Bus, Levels
<1>9. DeviceOK(device', SCL')
  <2>1. device.out \in Levels /\ Level(SDA', device) \in Levels
    BY <1>1, <1>7 DEF DeviceOK, Level, Levels
  <2>2. CASE SCL = 0 /\ SCL' = 0
    <3>1. device' = device
      BY <1>8, <2>2 DEF Moves
    <3> QED
      BY <1>1, <2>2, <3>1, Zenon
  <2>3. CASE SCL = 0 /\ SCL' = 1
    <3>1. device' = Rising(device, Level(SDA', device)) /\ DeviceOK(device, 0)
      BY <1>1, <1>8, <2>3 DEF Moves
    <3>2. DeviceOK(device', 1)
      BY <2>1, <3>1, RisingIs
    <3> QED
      BY <2>3, <3>2
  <2>4. CASE SCL = 1 /\ SCL' = 0
    <3>1. device' \in Falling(device) /\ DeviceOK(device, 1)
      BY <1>1, <1>8, <2>4 DEF Moves
    <3>2. DeviceOK(device', 0)
      BY <3>1, FallingOK
    <3> QED
      BY <2>4, <3>2
  <2>5. CASE SCL = 1 /\ SCL' = 1
    <3>1. /\ device' = device \/ device' = Framing(device, Level(SDA', device))
          /\ DeviceOK(device, 1)
      BY <1>1, <1>8, <2>5 DEF Moves
    <3>2. DeviceOK(device', 1)
      BY <2>1, <3>1, FramingIs
    <3> QED
      BY <2>5, <3>2
  <2> QED
    <3>1. (SCL = 0 \/ SCL = 1) /\ (SCL' = 0 \/ SCL' = 1)
      BY <1>1, <1>7 DEF Levels
    <3> QED
      BY <2>2, <2>3, <2>4, <2>5, <3>1
<1>10. got' \in Seq(Levels)
  <2>1. Level(SDA', device') \in Levels
    BY <1>7, <1>9 DEF DeviceOK, Level, Levels
  <2> QED
    BY <1>1, <1>6, <2>1, AppendProperties
<1>11. Total' = Total
  BY <1>6 DEF Total, Kept
<1>12. I2cTypeOK'
  BY <1>3, <1>4, <1>6, <1>7, <1>9, <1>10, <1>11 DEF I2cTypeOK, Kept
<1> QED
  BY <1>3, <1>4, <1>5, <1>6, <1>8, <1>12

-----------------------------------------------------------------------------

\* A start: SDA falls while the clock is high, whoever has the clock before.
LEMMA StartSteps ==
  ASSUME I2cTypeOK, i2c_master_setDC, op = "start", StartInv
  PROVE  StartInv'
<1>1. /\ made' = made + 1 /\ made \in 0 .. 2 /\ Moves(Script[made + 1]) /\ I2cTypeOK'
  BY SettingMoves, TotalIs DEF I2cTypeOK
<1>2. /\ Script[1] = Set(1, SCL) /\ Script[2] = Set(1, 1) /\ Script[3] = Set(0, 1)
  BY ShortScripts DEF I2cTypeOK
<1>3. CASE made = 0
  <2>1. Moves(Set(1, SCL))
    BY <1>1, <1>2, <1>3
  <2>2. SDA' = 1 /\ SCL' = SCL /\ device' = device
    BY <1>3, <2>1 DEF Moves, Set, StartInv
  <2> QED
    BY <1>1, <1>3, <2>2 DEF StartInv, Open
<1>4. CASE made = 1
  <2>1. Moves(Set(1, 1))
    BY <1>1, <1>2, <1>4
  <2>2. SDA' = 1 /\ SCL' = 1
    BY <2>1 DEF Moves, Set
  <2>3. device'.mode \in {"off", "data"}
    <3>1. CASE SCL = 1
      BY <1>4, <2>1, <2>2, <3>1 DEF Moves, StartInv
    <3>2. CASE SCL = 0
      <4>1. device' = Rising(device, Level(SDA', device)) /\ Level(SDA', device) \in Levels
        BY <2>1, <2>2, <3>2 DEF Moves, Level, I2cTypeOK, DeviceOK, Levels
      <4>2. device.mode \in {"off", "data"} /\ DeviceOK(device, 0)
        BY <1>4, <3>2 DEF StartInv, Open, I2cTypeOK
      <4> QED
        BY <4>1, <4>2, RisingIs DEF Receiving
    <3> QED
      BY <3>1, <3>2 DEF I2cTypeOK, Levels
  <2> QED
    BY <1>1, <1>4, <2>2, <2>3 DEF StartInv
<1>5. CASE made = 2
  <2>1. Moves(Set(0, 1))
    BY <1>1, <1>2, <1>5
  <2>2. SDA' = 0 /\ SCL' = 1 /\ SDA = 1 /\ SCL = 1 /\ device.out = 1
    BY <1>5, <2>1 DEF Moves, Set, StartInv, I2cTypeOK, DeviceOK
  <2>3. device' = Framing(device, 0)
    BY <2>1, <2>2 DEF Moves, Level
  <2>4. DeviceOK(device, 1) /\ 0 \in Levels
    BY <2>2 DEF I2cTypeOK, Levels
  <2>5. device'.mode = "address" /\ device'.bits = <<>>
    BY <2>3, <2>4, FramingIs
  <2> QED
    BY <1>1, <1>5, <2>2, <2>5 DEF StartInv
<1> QED
  BY <1>1, <1>3, <1>4, <1>5

\* After both have been released the lines are high.
LEMMA ReleasedSteps ==
  ASSUME I2cTypeOK, i2c_master_setDC, op \in Released
  PROVE  ReleasedInv'
<1>1. /\ made' = made + 1 /\ made \in 0 .. 1 /\ Moves(Script[made + 1])
  BY SettingMoves, TotalIs DEF I2cTypeOK
<1>2. Script[2] = Set(1, 1)
  BY ShortScripts DEF I2cTypeOK
<1>3. CASE made = 0
  BY <1>1, <1>3 DEF ReleasedInv
<1>4. CASE made = 1
  <2>1. Moves(Set(1, 1))
    BY <1>1, <1>2, <1>4
  <2> QED
    BY <2>1 DEF Moves, Set, ReleasedInv
<1> QED
  BY <1>1, <1>3, <1>4

\* A stop: SDA rises while the clock is high.
LEMMA StopSteps ==
  ASSUME I2cTypeOK, i2c_master_setDC, op = "stop", StopInv
  PROVE  StopInv'
<1>1. /\ made' = made + 1 /\ made \in 0 .. 2 /\ Moves(Script[made + 1]) /\ I2cTypeOK'
  BY SettingMoves, TotalIs DEF I2cTypeOK
<1>2. /\ Script[1] = Set(0, SCL) /\ Script[2] = Set(0, 1) /\ Script[3] = Set(1, 1)
  BY ShortScripts DEF I2cTypeOK
<1>3. CASE made = 0
  <2>1. Moves(Set(0, SCL))
    BY <1>1, <1>2, <1>3
  <2>2. SDA' = 0 /\ SCL' = SCL /\ device' = device
    BY <1>3, <2>1 DEF Moves, Set, StopInv
  <2> QED
    BY <1>1, <1>3, <2>2 DEF StopInv, Open
<1>4. CASE made = 1
  <2>1. Moves(Set(0, 1)) /\ SCL = 0
    BY <1>1, <1>2, <1>4 DEF StopInv
  <2>2. SDA' = 0 /\ SCL' = 1
    BY <2>1 DEF Moves, Set
  <2>3. device' = Rising(device, 0) /\ 0 \in Levels
    BY <2>1, <2>2 DEF Moves, Level, Levels
  <2>4. device.mode \in {"off", "data"} /\ DeviceOK(device, 0)
    BY <1>4, <2>1 DEF StopInv, Open, I2cTypeOK
  <2>5. device'.mode \in {"off", "data"}
    BY <2>3, <2>4, RisingIs DEF Receiving
  <2> QED
    BY <1>1, <1>4, <2>2, <2>5 DEF StopInv
<1>5. CASE made = 2
  <2>1. Moves(Set(1, 1))
    BY <1>1, <1>2, <1>5
  <2>2. SDA' = 1 /\ SCL' = 1 /\ SDA = 0 /\ SCL = 1 /\ device.out = 1
    BY <1>5, <2>1 DEF Moves, Set, StopInv, I2cTypeOK, DeviceOK
  <2>3. device' = Framing(device, 1)
    BY <2>1, <2>2 DEF Moves, Level
  <2>4. DeviceOK(device, 1) /\ 1 \in Levels
    BY <2>2 DEF I2cTypeOK, Levels
  <2>5. device'.mode = "off"
    BY <2>3, <2>4, FramingIs
  <2> QED
    BY <1>1, <1>5, <2>2, <2>5 DEF StopInv
<1> QED
  BY <1>1, <1>3, <1>4, <1>5

\* SDA stands still while the clock is high, and one line moves.
Steady ==
  /\ ~(SCL = 1 /\ SCL' = 1)
  /\ SDA' = SDA \/ SCL' = SCL

\* The master's answer: the device reads it as it was meant.
LEMMA AckSteps ==
  ASSUME I2cTypeOK, i2c_master_setDC, NEW bit \in Levels, AckInv(bit),
         (op = "ack" /\ bit = 0) \/ (op = "nack" /\ bit = 1)
  PROVE  AckInv(bit)' /\ Steady
<1>1. /\ made' = made + 1 /\ made \in 0 .. 4 /\ Moves(Script[made + 1]) /\ I2cTypeOK'
  BY SettingMoves, TotalIs DEF I2cTypeOK
<1>2. /\ Script[1] = Set(SDA, 0) /\ Script[2] = Set(bit, 0)
      /\ Script[3] = Set(bit, 1) /\ Script[4] = Set(bit, 0) /\ Script[5] = Set(1, 0)
  BY ShortScripts DEF I2cTypeOK
<1>3. CASE made \in {0, 1, 4}
  <2>1. SCL = 0 /\ SCL' = 0 /\ device' = device /\ made' \in {1, 2, 5}
        /\ SDA' = IF made = 0 THEN SDA ELSE IF made = 1 THEN bit ELSE 1
    <3>1. CASE made = 0
      BY <1>1, <1>2, <3>1 DEF Moves, Set, AckInv
    <3>2. CASE made = 1
      BY <1>1, <1>2, <3>2 DEF Moves, Set, AckInv
    <3>3. CASE made = 4
      BY <1>1, <1>2, <3>3 DEF Moves, Set, AckInv
    <3> QED
      BY <1>3, <3>1, <3>2, <3>3
  <2>2. Steady
    BY <2>1 DEF Steady
  <2>3. AckInv(bit)'
    BY <1>1, <1>3, <2>1 DEF AckInv, Fresh
  <2> QED
    BY <2>2, <2>3
<1>4. CASE made = 2
  <2>1. Moves(Set(bit, 1)) /\ SCL = 0 /\ SDA = bit /\ device.mode = "asked" /\ device.out = 1
    BY <1>1, <1>2, <1>4 DEF AckInv, I2cTypeOK, DeviceOK
  <2>2. SDA' = bit /\ SCL' = 1
    BY <2>1 DEF Moves, Set
  <2>3. device' = Rising(device, bit) /\ DeviceOK(device, 0)
    BY <2>1, <2>2 DEF Moves, Level, I2cTypeOK, Levels
  <2>4. device'.mode = IF bit = 0 THEN "more" ELSE "off"
    BY <2>1, <2>3, RisingIs
  <2> QED
    BY <1>1, <1>4, <2>1, <2>2, <2>4 DEF AckInv, Steady
<1>5. CASE made = 3
  <2>1. /\ Moves(Set(bit, 0)) /\ SCL = 1 /\ SDA = bit
        /\ device.mode = IF bit = 0 THEN "more" ELSE "off"
    BY <1>1, <1>2, <1>5 DEF AckInv
  <2>2. SDA' = bit /\ SCL' = 0
    BY <2>1 DEF Moves, Set
  <2>3. device' \in Falling(device) /\ DeviceOK(device, 1)
    BY <2>1, <2>2 DEF Moves, I2cTypeOK
  <2>4. IF bit = 0 THEN FreshOf(device') ELSE device'.mode = "off"
    BY <2>1, <2>3, WaitingIs DEF Receiving
  <2> QED
    BY <1>1, <1>5, <2>1, <2>2, <2>4 DEF AckInv, Steady, Fresh
<1> QED
  BY <1>1, <1>3, <1>4, <1>5

\* The device's answer: what is read of it is what it holds SDA at.
LEMMA AnswerSteps ==
  ASSUME I2cTypeOK, i2c_master_setDC, op = "answer", AnswerInv
  PROVE  AnswerInv' /\ Steady
<1>1. /\ made' = made + 1 /\ made \in 0 .. 3 /\ Moves(Script[made + 1]) /\ I2cTypeOK' /\ rw' = rw
  BY SettingMoves, TotalIs DEF I2cTypeOK, Kept
<1>2. /\ Script[1] = Set(SDA, 0) /\ Script[2] = Set(1, 0)
      /\ Script[3] = SetAndRead /\ Script[4] = Set(1, 0)
  BY ShortScripts DEF I2cTypeOK
<1>3. CASE made \in {0, 1}
  <2>1. /\ SCL = 0 /\ SCL' = 0 /\ device' = device /\ got' = got
        /\ SDA' = IF made = 0 THEN SDA ELSE 1
    <3>1. CASE made = 0
      BY <1>1, <1>2, <3>1 DEF Moves, Set, AnswerInv
    <3>2. CASE made = 1
      BY <1>1, <1>2, <3>2 DEF Moves, Set, AnswerInv
    <3> QED
      BY <1>3, <3>1, <3>2
  <2>2. Steady
    BY <2>1 DEF Steady
  <2>3. AnswerInv'
    BY <1>1, <1>3, <2>1 DEF AnswerInv, Acknowledging
  <2> QED
    BY <2>2, <2>3
<1>4. CASE made = 2
  <2>1. Moves(SetAndRead) /\ SCL = 0 /\ SDA = 1 /\ Acknowledging /\ got = <<>>
    BY <1>1, <1>2, <1>4 DEF AnswerInv
  <2>2. SDA' = 1 /\ SCL' = 1 /\ got' = Append(got, Level(SDA', device'))
    BY <2>1 DEF Moves, SetAndRead
  <2>3. device' = Rising(device, Level(SDA', device)) /\ DeviceOK(device, 0)
    BY <2>1, <2>2 DEF Moves, I2cTypeOK
  <2>4. Level(SDA', device) \in Levels
    BY <2>2, <2>3 DEF Level, DeviceOK
  <2>5. device' = device
    BY <2>1, <2>3, <2>4, RisingIs DEF Receiving, Acknowledging
  <2>6. got' = <<device'.out>>
    BY <2>1, <2>2 DEF Level
  <2> QED
    BY <1>1, <1>4, <2>1, <2>2, <2>5, <2>6 DEF AnswerInv, Steady, Acknowledging
<1>5. CASE made = 3
  <2>1. Moves(Set(1, 0)) /\ SCL = 1 /\ SDA = 1 /\ Acknowledging /\ got = <<device.out>>
    BY <1>1, <1>2, <1>5 DEF AnswerInv
  <2>2. SDA' = 1 /\ SCL' = 0 /\ got' = got
    BY <2>1 DEF Moves, Set
  <2>3. device' \in Falling(device) /\ DeviceOK(device, 1)
    BY <2>1, <2>2 DEF Moves, I2cTypeOK
  <2>4. \/ device'.mode = "off" /\ got = <<1>>
        \/ device'.mode = "data" /\ device'.bits = <<>> /\ got = <<0>> /\ rw = 0
        \/ FreshOf(device') /\ got = <<0>> /\ rw = 1
    <3>1. CASE device.mode = "refused"
      BY <2>1, <2>3, <3>1, WaitingIs DEF Receiving, DeviceOK
    <3>2. CASE device.mode = "taken"
      BY <2>1, <2>3, <3>2, WaitingIs DEF Receiving, Acknowledging
    <3>3. CASE device.mode = "turn"
      BY <2>1, <2>3, <3>3, WaitingIs DEF Receiving, Acknowledging
    <3> QED
      BY <2>1, <3>1, <3>2, <3>3 DEF Acknowledging
  <2> QED
    BY <1>1, <1>5, <2>1, <2>2, <2>4 DEF AnswerInv, Steady, Fresh
<1> QED
  BY <1>1, <1>3, <1>4, <1>5

\* The first setting of a written byte: the clock falls, SDA stays.
LEMMA WriteFirst ==
  ASSUME I2cTypeOK, i2c_master_setDC, op = "write", WriteInv, made = 0
  PROVE  WriteInv' /\ Steady
<1>1. made' = made + 1 /\ Moves(Script[made + 1]) /\ rw' = rw /\ sent' = sent /\ made + 1 = 1
  BY SettingMoves DEF Kept
<1>2. Script[1] = Set(SDA, 0)
  BY LongScripts, SentBits8 DEF I2cTypeOK
<1>3. Moves(Set(SDA, 0))
  BY <1>1, <1>2
<1>4. SDA' = SDA /\ SCL' = 0
  BY <1>3 DEF Moves, Set
<1>5. Len(device.bits) = 0 /\ device.bits = <<>> /\ Receiving(device) /\ SCL \in Levels
  BY EmptySeq DEF WriteInv, Receiving, I2cTypeOK
<1>6. device' = device
  <2>1. CASE SCL = 0
    BY <1>3, <1>4, <2>1 DEF Moves
  <2>2. CASE SCL = 1
    <3>1. device' \in Falling(device) /\ DeviceOK(device, 1)
      BY <1>3, <1>4, <2>2 DEF Moves, I2cTypeOK
    <3>2. Len(device.bits) # 8
      BY <1>5
    <3> QED
      BY <1>5, <3>1, <3>2, WaitingIs
  <2> QED
    BY <1>5, <2>1, <2>2 DEF Levels
<1>7. made' = 1 /\ made' \div 3 = 0 /\ made' % 3 = 1
  BY <1>1
<1>8. SameTo(device.bits, sent, 0)
  BY <1>5 DEF SameTo
<1>9. WriteInv'
  BY <1>1, <1>4, <1>5, <1>6, <1>7, <1>8 DEF WriteInv, Receiving, SameTo
<1> QED
  BY <1>4, <1>9 DEF Steady

\* What is to be shown in the middle of a byte.
LEMMA WriteGoesOn ==
  ASSUME NEW n, NEW j, made' \in 1 .. 24, made' \div 3 = n, (made' - 2) \div 3 = j,
         Receiving(device'), SameTo(device'.bits, sent', n),
         SCL' = IF made' % 3 = 0 THEN 1 ELSE 0, SDA' = sent'[j + 1],
         device'.mode = "address" => rw' = sent'[8],
         device'.mode = "data" => rw' = 0
  PROVE  WriteInv'
<1>1. made' # 0 /\ made' # 25
  OBVIOUS
<1> QED
  BY <1>1 DEF WriteInv, Receiving, SameTo

\* What is to be shown at its end.
LEMMA WriteEnds ==
  ASSUME made' # 0, made' \notin 1 .. 24, device'.mode # "address", device'.mode # "data",
         SCL' = 0, Acknowledging', device'.bits = sent'
  PROVE  WriteInv'
BY DEF WriteInv

\* A written byte, bit by bit: set while the clock is low, read by the device when
\* it rises, answered at the fall after the eighth.
LEMMA WriteSteps ==
  ASSUME I2cTypeOK, i2c_master_setDC, op = "write", WriteInv
  PROVE  WriteInv' /\ Steady
<1>1. /\ made' = made + 1 /\ made \in 0 .. 24 /\ Moves(Script[made + 1]) /\ I2cTypeOK'
      /\ rw' = rw /\ sent' = sent
  BY SettingMoves, TotalIs DEF I2cTypeOK, Kept
<1>2. \A k \in 1 .. 24 : Script[1 + k] = Set(sent[((k - 1) \div 3) + 1], IF k % 3 = 2 THEN 1 ELSE 0)
  BY LongScripts, SentBits8 DEF I2cTypeOK
<1>3. sent \in [1 .. 8 -> Levels]
  BY SentBits8 DEF I2cTypeOK
<1>4. CASE made = 0
  BY <1>4, WriteFirst
<1>5. CASE made \in 1 .. 24
  <2>1. PICK j \in 0 .. 7 : made = 3 * j + 1 \/ made = 3 * j + 2 \/ made = 3 * j + 3
    <3>1. /\ (made - 1) \div 3 \in 0 .. 7
          /\ \/ made = 3 * ((made - 1) \div 3) + 1
             \/ made = 3 * ((made - 1) \div 3) + 2
             \/ made = 3 * ((made - 1) \div 3) + 3
      BY <1>5
    <3> QED
      BY <3>1
  <2>2. Moves(Set(sent[((made - 1) \div 3) + 1], IF made % 3 = 2 THEN 1 ELSE 0))
    <3>1. made + 1 = 1 + made
      BY <1>1
    <3> QED
      BY <1>1, <1>2, <1>5, <3>1
  <2>3. j + 1 \in 1 .. 8 /\ sent[j + 1] \in Levels
    BY <1>3
  <2>4. /\ Receiving(device) /\ SameTo(device.bits, sent, made \div 3)
        /\ SCL = (IF made % 3 = 0 THEN 1 ELSE 0)
        /\ made > 1 => SDA = sent[((made - 2) \div 3) + 1]
        /\ device.mode = "address" => rw = sent[8]
        /\ device.mode = "data" => rw = 0
        /\ device.out = 1
    BY <1>5 DEF WriteInv, I2cTypeOK, DeviceOK, Receiving
  <2>5. CASE made = 3 * j + 1
    <3>1. /\ (made - 1) \div 3 = j /\ made % 3 = 1 /\ made \div 3 = j
          /\ made' % 3 = 2 /\ made' \div 3 = j /\ (made' - 2) \div 3 = j
          /\ made' \in 1 .. 24 /\ made' > 1
      BY <1>1, <2>5
    <3>2. SDA' = sent[j + 1] /\ SCL' = 0 /\ SCL = 0 /\ device' = device
      BY <2>2, <2>4, <3>1 DEF Moves, Set
    <3>3. /\ Receiving(device') /\ SameTo(device'.bits, sent', j)
          /\ device'.mode = "address" => rw' = sent'[8]
          /\ device'.mode = "data" => rw' = 0
      BY <1>1, <2>4, <3>1, <3>2
    <3>4. SCL' = (IF made' % 3 = 0 THEN 1 ELSE 0) /\ SDA' = sent'[j + 1]
      BY <1>1, <3>1, <3>2
    <3>5. WriteInv'
      BY <3>1, <3>3, <3>4, WriteGoesOn
    <3> QED
      BY <3>2, <3>5 DEF Steady
  <2>6. CASE made = 3 * j + 2
    <3>1. /\ (made - 1) \div 3 = j /\ made % 3 = 2 /\ made \div 3 = j
          /\ (made - 2) \div 3 = j /\ made > 1
          /\ made' % 3 = 0 /\ made' \div 3 = j + 1 /\ (made' - 2) \div 3 = j
          /\ made' \in 1 .. 24 /\ made' > 1
      BY <1>1, <2>6
    <3>2. SDA' = sent[j + 1] /\ SCL' = 1 /\ SCL = 0 /\ SDA = sent[j + 1]
      BY <2>2, <2>4, <3>1 DEF Moves, Set
    <3>3. device' = Rising(device, SDA') /\ DeviceOK(device, 0) /\ SDA' \in Levels
      <4>1. Level(SDA', device) = SDA'
        BY <2>3, <2>4, <3>2 DEF Level, Levels
      <4> QED
        BY <2>2, <2>3, <3>2, <4>1 DEF Moves, I2cTypeOK
    <3>4. /\ device'.mode = device.mode /\ Len(device'.bits) = Len(device.bits) + 1
          /\ \A i \in 1 .. Len(device.bits) : device'.bits[i] = device.bits[i]
          /\ device'.bits[Len(device.bits) + 1] = SDA'
      BY <2>4, <3>3, RisingIs
    <3>5. SameTo(device'.bits, sent, j + 1)
      <4>1. Len(device.bits) = j /\ \A i \in 1 .. j : device.bits[i] = sent[i]
        BY <2>4, <3>1 DEF SameTo
      <4>2. \A i \in 1 .. j + 1 : i \in 1 .. j \/ i = j + 1
        OBVIOUS
      <4> QED
        BY <3>2, <3>4, <4>1, <4>2 DEF SameTo
    <3>6. /\ Receiving(device') /\ SameTo(device'.bits, sent', j + 1)
          /\ device'.mode = "address" => rw' = sent'[8]
          /\ device'.mode = "data" => rw' = 0
      BY <1>1, <2>4, <3>4, <3>5 DEF Receiving
    <3>7. SCL' = (IF made' % 3 = 0 THEN 1 ELSE 0) /\ SDA' = sent'[j + 1]
      BY <1>1, <3>1, <3>2
    <3>8. WriteInv'
      BY <3>1, <3>6, <3>7, WriteGoesOn
    <3> QED
      BY <3>2, <3>8 DEF Steady
  <2>7. CASE made = 3 * j + 3
    <3>1. /\ (made - 1) \div 3 = j /\ made % 3 = 0 /\ made \div 3 = j + 1
          /\ (made - 2) \div 3 = j /\ made > 1
          /\ made' % 3 = 1 /\ made' \div 3 = j + 1 /\ (made' - 2) \div 3 = j /\ made' > 1
      BY <1>1, <2>7
    <3>2. SDA' = sent[j + 1] /\ SCL' = 0 /\ SCL = 1 /\ SDA = sent[j + 1]
      BY <2>2, <2>4, <3>1 DEF Moves, Set
    <3>3. device' \in Falling(device) /\ DeviceOK(device, 1)
      BY <2>2, <3>2 DEF Moves, I2cTypeOK
    <3>4. Len(device.bits) = j + 1 /\ \A i \in 1 .. j + 1 : device.bits[i] = sent[i]
      BY <2>4, <3>1 DEF SameTo
    <3>5. CASE j < 7
      <4>1. Len(device.bits) # 8 /\ made' \in 1 .. 24
        BY <1>1, <2>7, <3>4, <3>5
      <4>2. device' = device
        BY <2>4, <3>3, <4>1, WaitingIs
      <4>3. /\ Receiving(device') /\ SameTo(device'.bits, sent', j + 1)
            /\ device'.mode = "address" => rw' = sent'[8]
            /\ device'.mode = "data" => rw' = 0
        BY <1>1, <2>4, <3>1, <4>2
      <4>4. SCL' = (IF made' % 3 = 0 THEN 1 ELSE 0) /\ SDA' = sent'[j + 1]
        BY <1>1, <3>1, <3>2
      <4>5. WriteInv'
        BY <3>1, <4>1, <4>3, <4>4, WriteGoesOn
      <4> QED
        BY <3>2, <4>5 DEF Steady
    <3>6. CASE j = 7
      <4>1. Len(device.bits) = 8 /\ (\A i \in 1 .. 8 : device.bits[i] = sent[i]) /\ made' = 25
        BY <1>1, <2>7, <3>4, <3>6
      <4>2. device.bits = sent
        <5>1. PICK n \in Nat : n = 8
          OBVIOUS
        <5>2. sent \in [1 .. n -> Levels] /\ Len(device.bits) = n
          BY <1>3, <4>1, <5>1
        <5>3. sent \in Seq(Levels) /\ Len(sent) = n
          BY <5>2, BitsAreSeq
        <5>4. \A i \in 1 .. n : device.bits[i] = sent[i]
          BY <4>1, <5>1
        <5>5. device.bits \in Seq(Levels)
          BY DEF I2cTypeOK, DeviceOK
        <5> QED
          BY <5>2, <5>3, <5>4, <5>5, SeqEqual
      <4>3. /\ device'.bits = device.bits
            /\ \/ device'.mode = "refused"
               \/ /\ device'.mode = "turn" /\ device.mode = "address" /\ device.bits[8] = 1
                  /\ device'.out = 0
               \/ /\ device'.mode = "taken" /\ (device.mode = "address" => device.bits[8] # 1)
                  /\ device'.out = 0
        BY <2>4, <3>3, <4>1, AnsweringIs
      <4>4. rw \in Levels
        BY DEF I2cTypeOK
      <4>5. Acknowledging'
        BY <1>1, <2>4, <4>2, <4>3, <4>4 DEF Acknowledging, Receiving, Levels
      <4>6. WriteInv'
        <5>1. made' # 0 /\ made' \notin 1 .. 24
          BY <4>1
        <5>2. device'.mode # "address" /\ device'.mode # "data"
          BY <4>5 DEF Acknowledging
        <5>3. device'.bits = sent'
          BY <1>1, <4>2, <4>3
        <5> QED
          BY <3>2, <4>5, <5>1, <5>2, <5>3, WriteEnds, Zenon
      <4> QED
        BY <3>2, <4>6 DEF Steady
    <3> QED
      BY <3>5, <3>6
  <2> QED
    BY <2>1, <2>5, <2>6, <2>7
<1> QED
  BY <1>1, <1>4, <1>5

\* A byte read, bit by bit: the device sets at the falls, the master reads at the
\* rises, so it has read as many bits as have been sent before the one on SDA.
LEMMA ReadSteps ==
  ASSUME I2cTypeOK, i2c_master_setDC, op = "read", ReadInv
  PROVE  ReadInv' /\ Steady
<1>1. /\ made' = made + 1 /\ made \in 0 .. 17 /\ Moves(Script[made + 1]) /\ I2cTypeOK'
  BY SettingMoves, TotalIs DEF I2cTypeOK
<1>2. /\ Script[1] = Set(SDA, 0) /\ Script[18] = Set(1, 0)
      /\ \A k \in 1 .. 16 : Script[1 + k] = IF k % 2 = 1 THEN Set(1, 0) ELSE SetAndRead
  BY LongScripts DEF I2cTypeOK
<1>3. /\ device.mode = "send" /\ device.byte \in Payloads /\ device.out = device.byte[SentBits + 1]
      /\ Len(device.left) = 7 - SentBits
      /\ \A i \in 1 .. 7 - SentBits : device.left[i] = device.byte[i + (SentBits + 1)]
      /\ SameTo(got, device.byte, ReadBits)
      /\ SCL = (IF made > 1 /\ made % 2 = 1 THEN 1 ELSE 0)
      /\ made >= 2 => SDA = 1
  BY <1>1 DEF ReadInv
<1>4. CASE made = 0
  <2>1. Moves(Set(SDA, 0))
    BY <1>1, <1>2, <1>4
  <2>2. SCL = 0 /\ SDA' = SDA /\ SCL' = 0 /\ device' = device /\ got' = got
    BY <1>3, <1>4, <2>1 DEF Moves, Set
  <2>3. made' = 1 /\ SentBits = 0 /\ SentBits' = 0 /\ ReadBits = 0 /\ ReadBits' = 0
    BY <1>1, <1>4 DEF SentBits, ReadBits
  <2>4. ReadInv'
    BY <1>3, <2>2, <2>3 DEF ReadInv, SameTo
  <2> QED
    BY <2>2, <2>4 DEF Steady
<1>5. CASE made = 1
  <2>1. Moves(Set(1, 0))
    BY <1>1, <1>2, <1>5
  <2>2. SCL = 0 /\ SDA' = 1 /\ SCL' = 0 /\ device' = device /\ got' = got
    BY <1>3, <1>5, <2>1 DEF Moves, Set
  <2>3. made' = 2 /\ SentBits = 0 /\ SentBits' = 0 /\ ReadBits = 0 /\ ReadBits' = 0
    BY <1>1, <1>5 DEF SentBits, ReadBits
  <2>4. ReadInv'
    BY <1>3, <2>2, <2>3 DEF ReadInv, SameTo
  <2> QED
    BY <2>2, <2>4 DEF Steady
<1>6. CASE made \in 2 .. 17 /\ made % 2 = 0
  <2>1. PICK j \in 0 .. 7 : made = 2 * j + 2
    <3>1. (made - 2) \div 2 \in 0 .. 7 /\ made = 2 * ((made - 2) \div 2) + 2
      BY <1>6
    <3> QED
      BY <3>1
  <2>2. /\ SentBits = j /\ SentBits' = j /\ ReadBits = j /\ ReadBits' = j + 1
        /\ made' \in 3 .. 17 /\ made' % 2 = 1
    BY <1>1, <2>1 DEF SentBits, ReadBits
  <2>3. Moves(SetAndRead)
    <3>1. made \in 1 .. 16 /\ made % 2 # 1 /\ made + 1 = 1 + made
      BY <1>6
    <3> QED
      BY <1>1, <1>2, <3>1
  <2>4. SCL = 0 /\ SDA = 1 /\ SDA' = 1 /\ SCL' = 1 /\ got' = Append(got, Level(SDA', device'))
    BY <1>3, <1>6, <2>3 DEF Moves, SetAndRead
  <2>5. device' = Rising(device, Level(SDA', device)) /\ DeviceOK(device, 0)
    BY <2>3, <2>4 DEF Moves, I2cTypeOK
  <2>6. Level(SDA', device) \in Levels /\ Level(SDA', device) = device.out
    BY <2>4, <2>5 DEF Level, DeviceOK
  <2>7. device' = device
    BY <1>3, <2>5, <2>6, RisingIs DEF Receiving
  <2>8. got' = Append(got, device.byte[j + 1]) /\ device.byte[j + 1] \in Levels
    BY <1>3, <2>2, <2>4, <2>6, <2>7
  <2>9. SameTo(got', device.byte, j + 1)
    <3>1. got \in Seq(Levels) /\ Len(got) = j /\ \A i \in 1 .. j : got[i] = device.byte[i]
      BY <1>3, <2>2 DEF SameTo, I2cTypeOK
    <3>2. /\ Len(got') = Len(got) + 1 /\ (\A i \in 1 .. Len(got) : got'[i] = got[i])
          /\ got'[Len(got) + 1] = device.byte[j + 1]
      BY <2>8, <3>1, AppendProperties
    <3>3. \A i \in 1 .. j + 1 : i \in 1 .. j \/ i = j + 1
      OBVIOUS
    <3> QED
      BY <3>1, <3>2, <3>3 DEF SameTo
  <2>10. ReadInv'
    <3>1. /\ made' \in 0 .. 17 /\ made' # 18 /\ made' >= 2 /\ made' > 1
      BY <2>2
    <3> QED
      BY <1>3, <2>2, <2>4, <2>7, <2>9, <3>1 DEF ReadInv, SameTo
  <2> QED
    BY <2>4, <2>10 DEF Steady
<1>7. CASE made \in 2 .. 17 /\ made % 2 = 1
  <2>1. PICK j \in 0 .. 7 : made = 2 * j + 3
    <3>1. (made - 3) \div 2 \in 0 .. 7 /\ made = 2 * ((made - 3) \div 2) + 3
      BY <1>7
    <3> QED
      BY <3>1
  <2>2. /\ SentBits = j /\ SentBits' = j + 1 /\ ReadBits = j + 1 /\ ReadBits' = j + 1
        /\ made' \in 4 .. 18 /\ made' % 2 = 0
    BY <1>1, <2>1 DEF SentBits, ReadBits
  <2>3. Moves(Set(1, 0))
    <3>1. CASE made = 17
      BY <1>1, <1>2, <3>1
    <3>2. CASE made # 17
      <4>1. made \in 1 .. 16 /\ made + 1 = 1 + made
        BY <1>7, <3>2
      <4> QED
        BY <1>1, <1>2, <1>7, <4>1
    <3> QED
      BY <3>1, <3>2
  <2>4. SCL = 1 /\ SDA = 1 /\ SDA' = 1 /\ SCL' = 0 /\ got' = got
    BY <1>3, <1>7, <2>3 DEF Moves, Set
  <2>5. device' \in Falling(device) /\ DeviceOK(device, 1)
    BY <2>3, <2>4 DEF Moves, I2cTypeOK
  <2>6. SameTo(got', device.byte, j + 1)
    BY <1>3, <2>2, <2>4 DEF SameTo
  <2>7. /\ device'.byte = device.byte
        /\ Len(device.left) = 0 => device'.mode = "asked" /\ device'.out = 1
        /\ Len(device.left) # 0 =>
              /\ device'.mode = "send" /\ device'.out = device.left[1]
              /\ Len(device'.left) = Len(device.left) - 1
              /\ \A i \in 1 .. Len(device'.left) : device'.left[i] = device.left[i + 1]
    BY <1>3, <2>5, SendingIs
  <2>8. CASE j = 7
    <3>1. made' = 18 /\ Len(device.left) = 0
      BY <1>1, <1>3, <2>1, <2>2, <2>8
    <3>2. device'.mode = "asked"
      BY <2>7, <3>1
    <3>3. got' = device.byte
      <4>1. PICK n \in Nat : n = 8
        OBVIOUS
      <4>2. device.byte \in [1 .. n -> Levels]
        BY <1>3, <4>1, I2cAssumption DEF Levels
      <4>3. device.byte \in Seq(Levels) /\ Len(device.byte) = n
        BY <4>2, BitsAreSeq
      <4>4. j + 1 = n
        BY <2>8, <4>1
      <4>5. got' \in Seq(Levels) /\ Len(got') = n /\ \A i \in 1 .. n : got'[i] = device.byte[i]
        BY <1>1, <2>6, <4>4 DEF SameTo, I2cTypeOK
      <4> QED
        BY <4>3, <4>5, SeqEqual
    <3>4. ReadInv'
      <4>1. made' \notin 0 .. 17
        BY <3>1
      <4> QED
        BY <2>4, <2>7, <3>2, <3>3, <4>1 DEF ReadInv
    <3> QED
      BY <2>4, <3>4 DEF Steady
  <2>9. CASE j < 7
    <3>1. Len(device.left) = 7 - j /\ 7 - j # 0 /\ 7 - (j + 1) = (7 - j) - 1
      BY <1>3, <2>2, <2>9
    <3>2. /\ device'.mode = "send" /\ device'.byte = device.byte /\ device'.out = device.left[1]
          /\ Len(device'.left) = 7 - (j + 1)
          /\ \A i \in 1 .. 7 - (j + 1) : device'.left[i] = device.left[i + 1]
      BY <2>7, <3>1
    <3>3. device'.out = device.byte[(j + 1) + 1]
      <4>1. 1 \in 1 .. 7 - j /\ 1 + (j + 1) = (j + 1) + 1
        BY <2>9
      <4> QED
        BY <1>3, <2>2, <3>2, <4>1
    <3>4. ASSUME NEW i \in 1 .. 7 - (j + 1) PROVE device'.left[i] = device.byte[i + ((j + 1) + 1)]
      <4>1. i + 1 \in 1 .. 7 - j /\ (i + 1) + (j + 1) = i + ((j + 1) + 1)
        BY <2>9
      <4> QED
        BY <1>3, <2>2, <3>2, <4>1
    <3>5. made' \in 0 .. 17 /\ made' # 18 /\ made' >= 2 /\ made' > 1
      BY <1>1, <2>1, <2>9
    <3>6. ReadInv'
      BY <1>3, <2>2, <2>4, <2>6, <3>2, <3>3, <3>4, <3>5 DEF ReadInv, SameTo
    <3> QED
      BY <2>4, <3>6 DEF Steady
  <2> QED
    BY <2>1, <2>8, <2>9
<1> QED
  BY <1>1, <1>4, <1>5, <1>6, <1>7

\* How many bits a device has received and has still to send.
LEMMA CountsOf ==
  ASSUME NEW scl \in Levels, NEW d, DeviceOK(d, scl)
  PROVE  /\ Len(d.bits) \in 0 .. 8 /\ Len(d.left) \in 0 .. 7
         /\ Receiving(d) /\ scl = 0 => Len(d.bits) \in 0 .. 7
<1>1. Len(d.bits) \in Nat /\ Len(d.left) \in Nat
  <2>1. d.bits \in Seq(Levels) /\ d.left \in Seq(Levels)
    BY DEF DeviceOK
  <2> QED
    BY <2>1, LenProperties
<1>2. Len(d.bits) <= 8 /\ Len(d.left) <= 7 /\ (Receiving(d) /\ scl = 0 => Len(d.bits) # 8)
  BY DEF DeviceOK
<1>3. PICK n \in Nat, m \in Nat : n = Len(d.bits) /\ m = Len(d.left)
  BY <1>1
<1>4. n <= 8 /\ m <= 7 /\ (Receiving(d) /\ scl = 0 => n # 8)
  BY <1>2, <1>3
<1>5. n \in 0 .. 8 /\ m \in 0 .. 7 /\ (Receiving(d) /\ scl = 0 => n \in 0 .. 7)
  BY <1>4
<1> QED
  BY <1>3, <1>5

\* The clock rises on a settling device: every bit it receives is 1.
LEMMA SettlingRises ==
  ASSUME NEW d, DeviceOK(d, 0), NEW r \in 0 .. 27, Settling(d, 0, r),
         NEW e, e = Rising(d, d.out)
  PROVE  Settling(e, 1, r)
<1>1. d.out \in Levels /\ 0 \in Levels /\ (d.mode \in {"data", "address", "asked"} => d.out = 1)
  BY DEF DeviceOK, Levels
<1>2. CASE Receiving(d)
  <2>1. PICK n \in 0 .. 7 : Len(d.bits) = n
    BY <1>1, <1>2, CountsOf
  <2>2. /\ e.mode = d.mode /\ Len(e.bits) = n + 1 /\ e.bits[n + 1] = 1
    BY <1>1, <1>2, <2>1, RisingIs DEF Receiving
  <2>3. CASE d.mode = "data"
    <3>1. (n + r) % 9 # 8
      BY <2>1, <2>3 DEF Settling
    <3>2. ((n + 1) + r) % 9 # 0
      BY <3>1
    <3> QED
      BY <2>2, <2>3, <3>2 DEF Settling
  <2>4. CASE d.mode = "address"
    <3>1. 28 - r <= n + 1
      BY <2>1, <2>4 DEF Settling
    <3>2. n + 1 # 0
      OBVIOUS
    <3> QED
      BY <2>2, <2>4, <3>1, <3>2 DEF Settling
  <2> QED
    BY <1>2, <2>3, <2>4 DEF Receiving
<1>3. CASE d.mode = "asked"
  <2>1. e.mode = "off"
    BY <1>1, <1>3, RisingIs
  <2> QED
    BY <2>1 DEF Settling
<1>4. CASE ~Receiving(d) /\ d.mode # "asked"
  <2>1. e = d
    BY <1>1, <1>4, RisingIs
  <2> QED
    BY <1>4, <2>1 DEF Settling, Receiving
<1> QED
  BY <1>2, <1>3, <1>4

\* The clock falls on a settling device.  Its bits and the falls that remain keep
\* their sum modulo 9, so no ninth bit, its answer, falls on the last clock.
LEMMA SettlingFalls ==
  ASSUME NEW d, DeviceOK(d, 1), NEW r \in 1 .. 27, Settling(d, 1, r),
         NEW e, e \in Falling(d)
  PROVE  Settling(e, 0, r - 1)
<1>1. 0 \in Levels /\ 1 \in Levels /\ DeviceOK(e, 0)
  BY FallingOK DEF Levels
<1>2. PICK n \in 0 .. 8 : Len(d.bits) = n
  BY <1>1, CountsOf
<1>3. PICK l \in 0 .. 7 : Len(d.left) = l
  BY <1>1, CountsOf
<1>4. CASE d.mode = "data" /\ n # 8
  <2>1. e = d
    BY <1>2, <1>4, WaitingIs DEF Receiving
  <2>2. (n + r) % 9 # 0
    BY <1>2, <1>4 DEF Settling
  <2>3. (n + (r - 1)) % 9 # 8
    BY <2>2
  <2> QED
    BY <1>2, <1>4, <2>1, <2>3 DEF Settling
<1>5. CASE d.mode = "data" /\ n = 8
  <2>1. e.mode = "refused" \/ e.mode = "taken"
    BY <1>2, <1>5, AnsweringIs DEF Receiving
  <2>2. (n + r) % 9 # 0
    BY <1>2, <1>5 DEF Settling
  <2>3. (r - 1) % 9 # 0
    BY <1>5, <2>2
  <2> QED
    BY <2>1, <2>3 DEF Settling
<1>6. CASE d.mode = "address" /\ n # 8
  <2>1. e = d
    BY <1>2, <1>6, WaitingIs DEF Receiving
  <2>2. 28 - r <= n
    BY <1>2, <1>6 DEF Settling
  <2>3. 28 - (r - 1) <= Len(e.bits) + 1
    BY <1>2, <2>1, <2>2
  <2>4. e.mode = "address"
    BY <1>6, <2>1
  <2> QED
    BY <2>3, <2>4 DEF Settling
<1>7. CASE d.mode = "address" /\ n = 8
  <2>1. 28 - r <= n /\ d.bits[n] = 1
    BY <1>2, <1>7 DEF Settling
  <2>2. e.mode = "refused" \/ e.mode = "turn"
    BY <1>2, <1>7, <2>1, AnsweringIs DEF Receiving
  <2>3. 28 - (r - 1) <= 9
    BY <1>7, <2>1
  <2> QED
    BY <2>2, <2>3 DEF Settling
<1>8. CASE d.mode = "taken"
  <2>1. e.mode = "data" /\ e.bits = <<>>
    BY <1>8, WaitingIs DEF Receiving
  <2>2. Len(e.bits) = 0
    BY <2>1, EmptySeq
  <2>3. r % 9 # 0
    BY <1>8 DEF Settling
  <2>4. (0 + (r - 1)) % 9 # 8
    BY <2>3
  <2> QED
    BY <2>1, <2>2, <2>4 DEF Settling
<1>9. CASE d.mode = "turn"
  <2>1. e.mode = "send"
    BY <1>9, WaitingIs DEF Receiving, FreshOf
  <2>2. PICK k \in 0 .. 7 : Len(e.left) = k
    BY <1>1, CountsOf
  <2>3. (28 - (r - 1)) + k <= 17
    BY <1>9 DEF Settling
  <2> QED
    BY <2>1, <2>2, <2>3 DEF Settling
<1>10. CASE d.mode = "send"
  <2>1. /\ l = 0 => e.mode = "asked"
        /\ l # 0 => e.mode = "send" /\ Len(e.left) = l - 1
    BY <1>3, <1>10, SendingIs
  <2>2. (28 - r) + l <= 17
    BY <1>3, <1>10 DEF Settling
  <2>3. l = 0 => 28 - (r - 1) <= 18
    BY <2>2
  <2>4. (28 - (r - 1)) + (l - 1) <= 17
    BY <2>2
  <2>5. CASE l = 0
    BY <2>1, <2>3, <2>5 DEF Settling
  <2>6. CASE l # 0
    BY <2>1, <2>4, <2>6 DEF Settling
  <2> QED
    BY <2>5, <2>6
<1>11. CASE d.mode \in {"off", "refused"}
  <2>1. e.mode = "off"
    BY <1>11, WaitingIs DEF Receiving
  <2> QED
    BY <2>1 DEF Settling
<1>12. d.mode # "more" /\ d.mode # "asked" /\ d.mode \in Modes
  BY DEF Settling, DeviceOK
<1> QED
  BY <1>4, <1>5, <1>6, <1>7, <1>8, <1>9, <1>10, <1>11, <1>12 DEF Modes

\* At the first fall of the clock there are 27 left.
LEMMA SettlingBegins ==
  ASSUME NEW d, DeviceOK(d, 1), Receiving(d) => Len(d.bits) # 8, NEW e, e \in Falling(d)
  PROVE  Settling(e, 0, 27)
<1>1. 0 \in Levels /\ 1 \in Levels /\ DeviceOK(e, 0)
  BY FallingOK DEF Levels
<1>2. PICK n \in 0 .. 8 : Len(e.bits) = n
  BY <1>1, CountsOf
<1>3. PICK l \in 0 .. 7 : Len(e.left) = l
  BY <1>1, CountsOf
<1>4. /\ Receiving(d) \/ d.mode \in {"off", "asked"} => e = d
      /\ d.mode = "refused" => e.mode = "off"
      /\ d.mode = "taken" => e.mode = "data"
      /\ d.mode \in {"turn", "more"} => e.mode = "send"
  BY WaitingIs DEF FreshOf
<1>5. d.mode = "send" => e.mode \in {"send", "asked"}
  BY SendingIs
<1>6. e.mode # "more" /\ e.mode # "taken" /\ e.mode # "turn"
  BY <1>4, <1>5 DEF DeviceOK, Modes, Receiving
<1>7. Receiving(e) => n \in 0 .. 7
  BY <1>1, <1>2, CountsOf
<1>8. /\ n \in 0 .. 7 => (n + 27) % 9 # 8
      /\ 28 - 27 <= n + 1
      /\ (28 - 27) + l <= 17
      /\ 28 - 27 <= 18
  OBVIOUS
<1> QED
  BY <1>2, <1>3, <1>6, <1>7, <1>8 DEF Settling, Receiving

\* When no fall is left the device does not hold SDA.
LEMMA SettlingEnds ==
  ASSUME NEW d, DeviceOK(d, 1), Settling(d, 1, 0)
  PROVE  d.out = 1
<1>1. d.mode # "taken" /\ d.mode # "turn"
  BY DEF Settling
<1>2. PICK l \in 0 .. 7 : Len(d.left) = l
  BY CountsOf DEF Levels
<1>3. d.mode # "send"
  BY <1>2 DEF Settling
<1> QED
  BY <1>1, <1>3 DEF DeviceOK

\* What is to be shown among the clocks of the initialisation.
LEMMA InitGoesOn ==
  ASSUME made' \in 1 .. 59, made' > 3 /\ made' % 2 = 1 => SCL' = 1,
         ~(made' > 3 /\ made' % 2 = 1) => SCL' = 0, made' # 2 => SDA' = 1,
         Settling(device', SCL', Rest(made'))
  PROVE  InitInv'
<1>1. made' # 0 /\ made' \notin 60 .. 61 /\ made' # 62
  OBVIOUS
<1> QED
  BY <1>1, Zenon DEF InitInv

\* What is to be shown in the stop after them.
LEMMA InitEnds ==
  ASSUME made' \in 60 .. 62,
         made' # 62 => SDA' = 0 /\ SCL' = 1 /\ device'.mode = "address",
         made' = 62 => SDA' = 1 /\ SCL' = 1 /\ device'.mode = "off"
  PROVE  InitInv'
<1>1. made' # 0 /\ made' \notin 1 .. 59 /\ (made' \in 60 .. 61 => made' # 62)
  OBVIOUS
<1> QED
  BY <1>1 DEF InitInv

\* The initialisation: 28 clocks settle the device, so it hears the stop.
LEMMA InitSteps ==
  ASSUME I2cTypeOK, i2c_master_setDC, op = "init", InitInv
  PROVE  InitInv'
<1>1. /\ made' = made + 1 /\ made \in 0 .. 61 /\ Moves(Script[made + 1]) /\ I2cTypeOK'
  BY SettingMoves, TotalIs DEF I2cTypeOK
<1>2. /\ Script[1] = Set(1, 0) /\ Script[2] = Set(0, 0) /\ Script[3] = Set(1, 0)
      /\ \A k \in 1 .. 56 : Script[3 + k] = IF k % 2 = 1 THEN Set(1, 0) ELSE Set(1, 1)
      /\ Script[60] = Set(0, SCL) /\ Script[61] = Set(0, 1) /\ Script[62] = Set(1, 1)
  BY LongScripts DEF I2cTypeOK
<1>3. /\ made \in 1 .. 59 =>
            /\ SCL = (IF made > 3 /\ made % 2 = 1 THEN 1 ELSE 0)
            /\ made # 2 => SDA = 1
            /\ Settling(device, SCL, Rest(made))
  BY DEF InitInv
<1>4. DeviceOK(device, SCL) /\ DeviceOK(device', SCL')
  BY <1>1 DEF I2cTypeOK
<1>5. CASE made = 0
  <2>1. Moves(Set(1, 0)) /\ SCL = 1
    BY <1>1, <1>2, <1>5 DEF InitInv
  <2>2. SDA' = 1 /\ SCL' = 0 /\ device' \in Falling(device)
    BY <2>1 DEF Moves, Set
  <2>3. Settling(device', 0, 27)
    BY <1>4, <1>5, <2>1, <2>2, SettlingBegins DEF InitInv
  <2>4. made' = 1 /\ Rest(made') = 27
    BY <1>1, <1>5 DEF Rest
  <2> QED
    BY <2>2, <2>3, <2>4 DEF InitInv
<1>6. CASE made \in 1 .. 3
  <2>1. Moves(Set(IF made = 1 THEN 0 ELSE 1, 0))
    <3>1. CASE made = 1
      BY <1>1, <1>2, <3>1
    <3>2. CASE made = 2
      BY <1>1, <1>2, <3>2
    <3>3. CASE made = 3
      <4>1. Script[3 + 1] = Set(1, 0)
        BY <1>2
      <4> QED
        BY <1>1, <3>3, <4>1
    <3> QED
      BY <1>6, <3>1, <3>2, <3>3
  <2>2. SCL = 0
    BY <1>3, <1>6
  <2>3. SDA' = (IF made = 1 THEN 0 ELSE 1) /\ SCL' = 0 /\ device' = device
    BY <2>1, <2>2 DEF Moves, Set
  <2>4. Rest(made) = 27 /\ Rest(made') = 27
    BY <1>1, <1>6 DEF Rest
  <2>5. Settling(device', SCL', Rest(made'))
    BY <1>3, <1>6, <2>2, <2>3, <2>4
  <2>6. made' \in 2 .. 4 /\ (made' = 2 <=> made = 1)
    BY <1>1, <1>6
  <2>7. made' # 2 => SDA' = 1
    BY <2>3, <2>6
  <2>8. made' \in 1 .. 59 /\ ~(made' > 3 /\ made' % 2 = 1)
    <3>1. made + 1 \in 1 .. 59
      BY <1>6
    <3>2. made + 1 > 3 => (made + 1) % 2 # 1
      BY <1>6
    <3> QED
      BY <1>1, <3>1, <3>2, Zenon
  <2> QED
    BY <2>3, <2>5, <2>7, <2>8, InitGoesOn, Zenon
<1>7. CASE made \in 4 .. 58 /\ made % 2 = 0
  <2>1. PICK k \in 1 .. 56 : made = 2 + k /\ k % 2 = 0 /\ made + 1 = 3 + k
    <3>1. /\ made - 2 \in 1 .. 56 /\ made = 2 + (made - 2)
          /\ (made - 2) % 2 = 0 /\ made + 1 = 3 + (made - 2)
      BY <1>7
    <3> QED
      BY <3>1
  <2>2. Moves(Set(1, 1))
    BY <1>1, <1>2, <2>1
  <2>3. SCL = 0
    BY <1>3, <1>7
  <2>4. SDA' = 1 /\ SCL' = 1 /\ device' = Rising(device, device.out)
    <3>1. device.out = Level(1, device)
      BY DEF Level
    <3> QED
      BY <2>2, <2>3, <3>1 DEF Moves, Set
  <2>5. PICK r \in 0 .. 27 : Rest(made) = r /\ Rest(made') = r
    <3>1. Rest(made) \in 0 .. 27 /\ Rest(made') = Rest(made)
      BY <1>1, <1>7 DEF Rest
    <3> QED
      BY <3>1
  <2>6. Settling(device, 0, r) /\ DeviceOK(device, 0)
    BY <1>3, <1>4, <1>7, <2>3, <2>5
  <2>7. Settling(device', 1, r)
    BY <2>4, <2>6, SettlingRises
  <2>8. made' \in 1 .. 59 /\ made' > 3 /\ made' % 2 = 1
    BY <1>1, <1>7
  <2>9. Settling(device', SCL', Rest(made'))
    BY <2>4, <2>5, <2>7, Zenon
  <2> QED
    BY <2>4, <2>8, <2>9, InitGoesOn, Zenon
<1>8. CASE made \in 5 .. 57 /\ made % 2 = 1
  <2>1. PICK k \in 1 .. 56 : made = 2 + k /\ k % 2 = 1 /\ made + 1 = 3 + k
    <3>1. /\ made - 2 \in 1 .. 56 /\ made = 2 + (made - 2)
          /\ (made - 2) % 2 = 1 /\ made + 1 = 3 + (made - 2)
      BY <1>8
    <3> QED
      BY <3>1
  <2>2. Moves(Set(1, 0))
    BY <1>1, <1>2, <2>1
  <2>3. SCL = 1
    BY <1>3, <1>8
  <2>4. SDA' = 1 /\ SCL' = 0 /\ device' \in Falling(device)
    BY <2>2, <2>3 DEF Moves, Set
  <2>5. PICK r \in 1 .. 27 : Rest(made) = r /\ Rest(made') = r - 1
    <3>1. Rest(made) \in 1 .. 27 /\ Rest(made') = Rest(made) - 1
      BY <1>1, <1>8 DEF Rest
    <3> QED
      BY <3>1
  <2>6. Settling(device, 1, r) /\ DeviceOK(device, 1)
    BY <1>3, <1>4, <1>8, <2>3, <2>5
  <2>7. Settling(device', 0, r - 1)
    BY <2>4, <2>6, SettlingFalls
  <2>8. made' \in 1 .. 59 /\ ~(made' > 3 /\ made' % 2 = 1)
    BY <1>1, <1>8
  <2>9. Settling(device', SCL', Rest(made'))
    BY <2>4, <2>5, <2>7, Zenon
  <2> QED
    BY <2>4, <2>8, <2>9, InitGoesOn, Zenon
<1>9. CASE made = 59
  <2>1. SCL = 1 /\ SDA = 1 /\ Settling(device, 1, 0)
    <3>1. made > 3 /\ made % 2 = 1 /\ made # 2 /\ made \in 1 .. 59 /\ Rest(made) = 0
      BY <1>9 DEF Rest
    <3> QED
      BY <1>3, <3>1
  <2>2. device.out = 1
    BY <1>4, <2>1, SettlingEnds
  <2>3. Moves(Set(0, 1))
    BY <1>1, <1>2, <1>9, <2>1
  <2>4. SDA' = 0 /\ SCL' = 1 /\ device' = Framing(device, 0)
    BY <2>1, <2>2, <2>3 DEF Moves, Set, Level
  <2>5. device'.mode = "address"
    BY <1>4, <2>1, <2>4, FramingIs DEF Levels
  <2>6. made' \in 60 .. 62 /\ made' # 62
    BY <1>1, <1>9
  <2> QED
    BY <2>4, <2>5, <2>6, InitEnds, Zenon
<1>10. CASE made = 60
  <2>1. SCL = 1 /\ SDA = 0 /\ device.mode = "address"
    BY <1>10 DEF InitInv
  <2>2. Moves(Set(0, 1))
    BY <1>1, <1>2, <1>10
  <2>3. SDA' = 0 /\ SCL' = 1 /\ device' = device
    BY <2>1, <2>2 DEF Moves, Set
  <2>4. made' \in 60 .. 62 /\ made' # 62
    BY <1>1, <1>10
  <2> QED
    BY <2>1, <2>3, <2>4, InitEnds, Zenon
<1>11. CASE made = 61
  <2>1. SCL = 1 /\ SDA = 0 /\ device.mode = "address" /\ device.out = 1
    BY <1>4, <1>11 DEF InitInv, DeviceOK
  <2>2. Moves(Set(1, 1))
    BY <1>1, <1>2, <1>11
  <2>3. SDA' = 1 /\ SCL' = 1 /\ device' = Framing(device, 1)
    BY <2>1, <2>2 DEF Moves, Set, Level
  <2>4. device'.mode = "off"
    BY <1>4, <2>1, <2>3, FramingIs DEF Levels
  <2>5. made' \in 60 .. 62 /\ made' = 62
    BY <1>1, <1>11
  <2> QED
    BY <2>3, <2>4, <2>5, InitEnds, Zenon
<1> QED
  <2>1. \/ made = 0 \/ made \in 1 .. 3 \/ (made \in 4 .. 58 /\ made % 2 = 0)
        \/ (made \in 5 .. 57 /\ made % 2 = 1) \/ made = 59 \/ made = 60 \/ made = 61
    BY <1>1
  <2> QED
    BY <1>5, <1>6, <1>7, <1>8, <1>9, <1>10, <1>11, <2>1

-----------------------------------------------------------------------------

\* An operation that begins keeps the types.
LEMMA BegunTypeOK ==
  ASSUME I2cTypeOK, op' \in Ops, made' = 0, got' = <<>>, UNCHANGED <<SDA, SCL, device>>,
         rw' \in Levels, lastBit' \in BOOLEAN,
         sent' \in {<<>>} \cup Addresses \cup Payloads, op' = "write" => sent' # <<>>
  PROVE  I2cTypeOK'
<1>1. Total' \in Nat
  BY DEF Total, SettingsOf, Ops, Released
<1>2. made' \in 0 .. Total'
  BY <1>1
<1>3. DeviceOK(device, SCL)' /\ got' \in Seq(Levels) /\ SDA' \in Levels /\ SCL' \in Levels
  BY DEF I2cTypeOK
<1> QED
  BY <1>2, <1>3 DEF I2cTypeOK

\* An operation is over when it has made all its settings.
LEMMA OverIs ==
  ASSUME I2cTypeOK
  PROVE  Over <=> made = Total
BY ScriptIs DEF Over

\* At power on the invariant holds.
LEMMA PowerOn ==
  I2cInit => I2cInv
<1> SUFFICES ASSUME I2cInit PROVE I2cInv
  OBVIOUS
<1>1. Total = 2 /\ op \in Ops
  BY DEF I2cInit, Total, SettingsOf, Ops, Released
<1>2. DeviceOK(device, SCL)
  <2>1. <<>> \in Seq(Levels) /\ Len(<<>>) = 0
    BY EmptySeq
  <2>2. device \in [mode : Modes, bits : Seq(Levels), left : Seq(Levels), out : Levels,
                     byte : {<<>>} \cup Payloads]
    BY <2>1 DEF I2cInit, Modes, Levels
  <2>3. device.bits = <<>> /\ device.left = <<>> /\ device.out = 1 /\ ~Receiving(device)
    BY DEF I2cInit, Receiving
  <2>4. Len(device.bits) <= 8 /\ Len(device.left) <= 7
    BY <2>1, <2>3
  <2> QED
    BY <2>2, <2>3, <2>4 DEF DeviceOK
<1>3. I2cTypeOK
  <2>1. made \in 0 .. Total
    <3>1. made = 2 /\ Total = 2
      BY <1>1 DEF I2cInit
    <3> QED
      BY <3>1
  <2>2. got = <<>> /\ SDA \in Levels /\ SCL \in Levels /\ rw \in Levels
    BY DEF I2cInit, Levels
  <2>3. got \in Seq(Levels)
    BY <2>2, EmptySeq
  <2>4. op # "write" /\ lastBit \in BOOLEAN /\ sent = <<>>
    BY DEF I2cInit
  <2> QED
    BY <1>1, <1>2, <2>1, <2>2, <2>3, <2>4 DEF I2cTypeOK
<1>4. ReleasedInv /\ OpInv
  BY DEF I2cInit, ReleasedInv, OpInv
<1> QED
  BY <1>3, <1>4 DEF I2cInv

\* After an answer, but of a device that is to send, the clock is low and SDA free.
LEMMA NotGranted ==
  ASSUME I2cTypeOK, OpInv, op \in {"answer", "nack"}, made = Total, ~Granted(1)
  PROVE  SCL = 0 /\ Open
<1>1. CASE op = "answer"
  <2>1. made = 4
    BY <1>1, TotalIs DEF I2cTypeOK
  <2>2. /\ SCL = 0
        /\ \/ device.mode = "off" /\ got = <<1>>
           \/ device.mode = "data" /\ device.bits = <<>> /\ got = <<0>> /\ rw = 0
           \/ Fresh /\ got = <<0>> /\ rw = 1
    BY <1>1, <2>1 DEF OpInv, AnswerInv
  <2>3. ~(got = <<0>> /\ rw = 1)
    BY <1>1 DEF Granted
  <2> QED
    BY <2>2, <2>3 DEF Open
<1>2. CASE op = "nack"
  <2>1. made = 5
    BY <1>2, TotalIs DEF I2cTypeOK
  <2>2. AckInv(1)
    BY <1>2 DEF OpInv
  <2> QED
    BY <2>1, <2>2 DEF AckInv, Open
<1> QED
  BY <1>1, <1>2

\* A start is asked for on a bus that is free or whose clock is low.
LEMMA StartMessageKeeps ==
  ASSUME I2cInv, StartMessage
  PROVE  I2cInv'
<1>1. /\ I2cTypeOK /\ op' = "start" /\ made' = 0 /\ got' = <<>>
      /\ UNCHANGED <<SDA, SCL, device, sent, rw, lastBit>>
      /\ op \in {"init", "stop", "answer", "nack"} /\ made = Total /\ ~Granted(1)
  BY OverIs DEF I2cInv, StartMessage, Plain, Begin
<1>2. I2cTypeOK'
  BY <1>1, BegunTypeOK DEF I2cTypeOK, Ops
<1>3. ASSUME Clear PROVE StartInv'
  <2>1. OpInv
    BY <1>3 DEF I2cInv
  <2>2. \/ SCL = 0 /\ Open
        \/ SCL = 1 /\ SDA = 1 /\ device.mode = "off"
    <3>1. CASE op = "init"
      BY <1>1, <2>1, <3>1, TotalIs DEF OpInv, InitInv, I2cTypeOK
    <3>2. CASE op = "stop"
      BY <1>1, <2>1, <3>2, TotalIs DEF OpInv, StopInv, I2cTypeOK
    <3>3. CASE op \in {"answer", "nack"}
      BY <1>1, <2>1, <3>3, NotGranted
    <3> QED
      BY <1>1, <3>1, <3>2, <3>3
  <2> QED
    BY <1>1, <2>2 DEF StartInv, Open
<1>4. Clear' = Clear /\ op' \notin Released
  BY <1>1 DEF Clear, Released
<1>5. Clear' => OpInv'
  BY <1>1, <1>3, <1>4 DEF OpInv
<1> QED
  BY <1>2, <1>4, <1>5 DEF I2cInv

\* A stop is asked for while the clock is low and SDA is free.
LEMMA StopMessageKeeps ==
  ASSUME I2cInv, StopMessage
  PROVE  I2cInv'
<1>1. /\ I2cTypeOK /\ op' = "stop" /\ made' = 0 /\ got' = <<>>
      /\ UNCHANGED <<SDA, SCL, device, sent, rw, lastBit>>
      /\ op \in {"answer", "nack"} /\ made = Total /\ ~Granted(1)
  BY OverIs DEF I2cInv, StopMessage, Plain, Begin
<1>2. I2cTypeOK'
  BY <1>1, BegunTypeOK DEF I2cTypeOK, Ops
<1>3. ASSUME Clear PROVE StopInv'
  <2>1. OpInv
    BY <1>3 DEF I2cInv
  <2>2. SCL = 0 /\ Open
    BY <1>1, <2>1, NotGranted
  <2> QED
    BY <1>1, <2>2 DEF StopInv, Open
<1>4. Clear' = Clear /\ op' \notin Released
  BY <1>1 DEF Clear, Released
<1>5. Clear' => OpInv'
  BY <1>1, <1>3, <1>4 DEF OpInv
<1> QED
  BY <1>2, <1>4, <1>5 DEF I2cInv

\* The initialisation begins with both lines high.
LEMMA InitKeeps ==
  ASSUME I2cInv, i2c_master_gpio_init
  PROVE  I2cInv'
<1>1. /\ I2cTypeOK /\ op' = "init" /\ made' = 0 /\ got' = <<>>
      /\ UNCHANGED <<SDA, SCL, device, sent, rw>>
      /\ lastBit' = (device.mode \in {"address", "data"} /\ Len(device.bits) = 8)
      /\ op \in Released /\ made = Total
  BY OverIs DEF I2cInv, i2c_master_gpio_init, Begin
<1>2. I2cTypeOK'
  BY <1>1, BegunTypeOK DEF I2cTypeOK, Ops
<1>3. SDA = 1 /\ SCL = 1
  BY <1>1, TotalIs DEF I2cInv, ReleasedInv, I2cTypeOK
<1>4. ASSUME Clear' PROVE InitInv'
  <2>1. Receiving(device') => Len(device'.bits) # 8
    BY <1>1, <1>4 DEF Clear, Receiving
  <2> QED
    BY <1>1, <1>3, <2>1 DEF InitInv
<1>5. op' \notin Released
  BY <1>1 DEF Released
<1>6. Clear' => OpInv'
  BY <1>1, <1>4 DEF OpInv
<1> QED
  BY <1>2, <1>5, <1>6 DEF I2cInv

\* A byte is written to a device that listens.
LEMMA WriteKeeps ==
  ASSUME I2cInv, NEW byte \in Addresses \cup Payloads, Write(byte)
  PROVE  I2cInv'
<1>1. /\ I2cTypeOK /\ op' = "write" /\ made' = 0 /\ got' = <<>> /\ sent' = byte
      /\ UNCHANGED <<SDA, SCL, device, lastBit>> /\ made = Total
      /\ \/ op = "start" /\ rw' = byte[8]
         \/ Granted(0) /\ UNCHANGED rw
  BY OverIs DEF I2cInv, Write, Begin
<1>2. byte \in [1 .. 8 -> Levels]
  BY I2cAssumption DEF Levels
<1>3. byte # <<>>
  <2>1. PICK n \in Nat : n = 8
    OBVIOUS
  <2>2. Len(byte) = n
    BY <1>2, <2>1, BitsAreSeq
  <2> QED
    BY <2>1, <2>2, EmptySeq
<1>4. rw' \in Levels
  BY <1>1, <1>2 DEF I2cTypeOK
<1>5. I2cTypeOK'
  BY <1>1, <1>3, <1>4, BegunTypeOK DEF I2cTypeOK, Ops
<1>6. ASSUME Clear PROVE WriteInv'
  <2>1. OpInv
    BY <1>6 DEF I2cInv
  <2>2. CASE op = "start" /\ rw' = byte[8]
    <3>1. SDA = 0 /\ SCL = 1 /\ device.mode = "address" /\ device.bits = <<>>
      BY <1>1, <2>1, <2>2, TotalIs DEF OpInv, StartInv, I2cTypeOK
    <3> QED
      BY <1>1, <2>2, <3>1 DEF WriteInv
  <2>3. CASE Granted(0) /\ UNCHANGED rw
    <3>1. op = "answer" /\ got = <<0>> /\ rw = 0
      BY <2>3 DEF Granted
    <3>2. made = 4 /\ AnswerInv
      BY <1>1, <2>1, <3>1, TotalIs DEF OpInv, I2cTypeOK
    <3>3. SCL = 0 /\ device.mode = "data" /\ device.bits = <<>>
      BY <3>1, <3>2 DEF AnswerInv
    <3> QED
      BY <1>1, <2>3, <3>1, <3>3 DEF WriteInv
  <2> QED
    BY <1>1, <2>2, <2>3
<1>7. Clear' = Clear /\ op' \notin Released
  BY <1>1 DEF Clear, Released
<1>8. Clear' => OpInv'
  BY <1>1, <1>6, <1>7 DEF OpInv
<1> QED
  BY <1>5, <1>7, <1>8 DEF I2cInv

\* An answer is asked for from a device that has a byte.
LEMMA AnswerKeeps ==
  ASSUME I2cInv, CheckAck
  PROVE  I2cInv'
<1>1. /\ I2cTypeOK /\ op' = "answer" /\ made' = 0 /\ got' = <<>>
      /\ UNCHANGED <<SDA, SCL, device, sent, rw, lastBit>>
      /\ op = "write" /\ made = Total
  BY OverIs DEF I2cInv, CheckAck, Plain, Begin
<1>2. I2cTypeOK'
  BY <1>1, BegunTypeOK DEF I2cTypeOK, Ops
<1>3. ASSUME Clear PROVE AnswerInv'
  <2>1. made = 25 /\ WriteInv
    BY <1>1, <1>3, TotalIs DEF I2cInv, OpInv, I2cTypeOK
  <2>2. SCL = 0 /\ Acknowledging
    BY <2>1 DEF WriteInv
  <2> QED
    BY <1>1, <2>2 DEF AnswerInv, Acknowledging
<1>4. Clear' = Clear /\ op' \notin Released
  BY <1>1 DEF Clear, Released
<1>5. Clear' => OpInv'
  BY <1>1, <1>3, <1>4 DEF OpInv
<1> QED
  BY <1>2, <1>4, <1>5 DEF I2cInv

\* A byte is read from a device that holds its first bit.
LEMMA ReadKeeps ==
  ASSUME I2cInv, ReadByte
  PROVE  I2cInv'
<1>1. /\ I2cTypeOK /\ op' = "read" /\ made' = 0 /\ got' = <<>>
      /\ UNCHANGED <<SDA, SCL, device, sent, rw, lastBit>>
      /\ op = "ack" \/ Granted(1)
      /\ made = Total
  BY OverIs DEF I2cInv, ReadByte, Plain, Begin
<1>2. I2cTypeOK'
  BY <1>1, BegunTypeOK DEF I2cTypeOK, Ops
<1>3. ASSUME Clear PROVE ReadInv'
  <2>1. OpInv
    BY <1>3 DEF I2cInv
  <2>2. SCL = 0 /\ FreshOf(device)
    <3>1. CASE op = "ack"
      <4>1. made = 5 /\ AckInv(0)
        BY <1>1, <2>1, <3>1, TotalIs DEF OpInv, I2cTypeOK
      <4> QED
        BY <4>1 DEF AckInv, Fresh
    <3>2. CASE Granted(1)
      <4>1. op = "answer" /\ got = <<0>> /\ rw = 1
        BY <3>2 DEF Granted
      <4>2. made = 4 /\ AnswerInv
        BY <1>1, <2>1, <4>1, TotalIs DEF OpInv, I2cTypeOK
      <4> QED
        BY <4>1, <4>2 DEF AnswerInv, Fresh
    <3> QED
      BY <1>1, <3>1, <3>2
  <2>3. device.byte \in [1 .. 8 -> Levels]
    BY <2>2, I2cAssumption DEF FreshOf, Levels
  <2>4. Len(device.left) = 7 /\ \A i \in 1 .. 7 : device.left[i] = device.byte[i + 1]
    <3>1. PICK n \in Nat : n = 7
      OBVIOUS
    <3>2. device.byte \in [1 .. n + 1 -> Levels]
      BY <2>3, <3>1
    <3>3. device.byte \in Seq(Levels) /\ Len(device.byte) = n + 1
      BY <3>2, BitsAreSeq
    <3>4. /\ Len(Tail(device.byte)) = n
          /\ \A i \in 1 .. n : Tail(device.byte)[i] = device.byte[i + 1]
      BY <3>3, FirstAndOthers
    <3> QED
      BY <2>2, <3>1, <3>4 DEF FreshOf
  <2>5. SentBits' = 0 /\ ReadBits' = 0
    BY <1>1 DEF SentBits, ReadBits
  <2>6. SameTo(got', device.byte, 0)
    <3>1. Len(got') = 0
      BY <1>1, EmptySeq
    <3> QED
      BY <3>1 DEF SameTo
  <2>7. /\ device.mode = "send" /\ device.byte \in Payloads /\ device.out = device.byte[0 + 1]
        /\ Len(device.left) = 7 - 0
        /\ \A i \in 1 .. 7 - 0 : device.left[i] = device.byte[i + (0 + 1)]
    BY <2>2, <2>4 DEF FreshOf
  <2> QED
    BY <1>1, <2>2, <2>5, <2>6, <2>7 DEF ReadInv, SameTo
<1>4. Clear' = Clear /\ op' \notin Released
  BY <1>1 DEF Clear, Released
<1>5. Clear' => OpInv'
  BY <1>1, <1>3, <1>4 DEF OpInv
<1> QED
  BY <1>2, <1>4, <1>5 DEF I2cInv

\* An answer is sent to a device that waits for it.
LEMMA AckKeeps ==
  ASSUME I2cInv, NEW level \in Levels, SendAck(level)
  PROVE  I2cInv'
<1>1. /\ I2cTypeOK /\ op' = (IF level = 0 THEN "ack" ELSE "nack") /\ made' = 0 /\ got' = <<>>
      /\ UNCHANGED <<SDA, SCL, device, sent, rw, lastBit>>
      /\ op = "read" /\ made = Total
  BY OverIs DEF I2cInv, SendAck, Plain, Begin
<1>2. I2cTypeOK'
  BY <1>1, BegunTypeOK DEF I2cTypeOK, Ops
<1>3. ASSUME Clear PROVE AckInv(level)'
  <2>1. made = 18 /\ ReadInv
    BY <1>1, <1>3, TotalIs DEF I2cInv, OpInv, I2cTypeOK
  <2>2. SCL = 0 /\ device.mode = "asked" /\ SDA = 1
    BY <2>1 DEF ReadInv
  <2> QED
    BY <1>1, <2>2 DEF AckInv
<1>4. Clear' = Clear /\ op' \notin Released
  BY <1>1 DEF Clear, Released
<1>5. Clear' => OpInv'
  BY <1>1, <1>3, <1>4 DEF OpInv, Levels
<1> QED
  BY <1>2, <1>4, <1>5 DEF I2cInv

\* A reset keeps what the lines and the device are.
LEMMA ResetKeeps ==
  ASSUME I2cInv, ResetI2c
  PROVE  I2cInv'
<1>1. /\ I2cTypeOK /\ op' \in Released /\ made' = 0 /\ got' = <<>>
      /\ UNCHANGED <<SDA, SCL, device, sent, rw, lastBit>>
  BY DEF I2cInv, ResetI2c
<1>2. op' # "write" /\ op' \in Ops
  BY <1>1 DEF Released, Ops
<1>3. I2cTypeOK'
  BY <1>1, <1>2, BegunTypeOK DEF I2cTypeOK
<1>4. ReleasedInv'
  BY <1>1 DEF ReleasedInv
<1>5. OpInv'
  BY <1>1 DEF OpInv, Released
<1> QED
  BY <1>3, <1>4, <1>5 DEF I2cInv

\* A setting keeps the invariant of its operation.
LEMMA SettingKeeps ==
  ASSUME I2cInv, i2c_master_setDC
  PROVE  I2cInv'
<1>1. I2cTypeOK /\ I2cTypeOK' /\ op' = op /\ lastBit' = lastBit
  BY SettingMoves DEF I2cInv, Kept
<1>2. op' \in Released => ReleasedInv'
  BY <1>1, ReleasedSteps
<1>3. ASSUME Clear PROVE OpInv'
  <2>1. OpInv
    BY <1>3 DEF I2cInv
  <2>2. op = "init" => InitInv'
    BY <1>1, <2>1, InitSteps DEF OpInv
  <2>3. op = "start" => StartInv'
    BY <1>1, <2>1, StartSteps DEF OpInv
  <2>4. op = "stop" => StopInv'
    BY <1>1, <2>1, StopSteps DEF OpInv
  <2>5. op = "write" => WriteInv'
    BY <1>1, <2>1, WriteSteps DEF OpInv
  <2>6. op = "answer" => AnswerInv'
    BY <1>1, <2>1, AnswerSteps DEF OpInv
  <2>7. op = "read" => ReadInv'
    BY <1>1, <2>1, ReadSteps DEF OpInv
  <2>8. op = "ack" => AckInv(0)'
    BY <1>1, <2>1, AckSteps DEF OpInv, Levels
  <2>9. op = "nack" => AckInv(1)'
    BY <1>1, <2>1, AckSteps DEF OpInv, Levels
  <2> QED
    BY <1>1, <2>2, <2>3, <2>4, <2>5, <2>6, <2>7, <2>8, <2>9 DEF OpInv
<1>4. Clear' = Clear
  BY <1>1 DEF Clear
<1> QED
  BY <1>1, <1>2, <1>3, <1>4 DEF I2cInv

\* Every step keeps the invariant.
LEMMA I2cInvSteps ==
  I2cInv /\ [I2cNext]_I2cVars => I2cInv'
<1> SUFFICES ASSUME I2cInv, [I2cNext]_I2cVars PROVE I2cInv'
  OBVIOUS
<1>1. CASE i2c_master_setDC
  BY <1>1, SettingKeeps
<1>2. CASE i2c_master_gpio_init
  BY <1>2, InitKeeps
<1>3. CASE StartMessage
  BY <1>3, StartMessageKeeps
<1>4. CASE StopMessage
  BY <1>4, StopMessageKeeps
<1>5. CASE CheckAck
  BY <1>5, AnswerKeeps
<1>6. CASE ReadByte
  BY <1>6, ReadKeeps
<1>7. CASE \E byte \in Addresses \cup Payloads : Write(byte)
  BY <1>7, WriteKeeps
<1>8. CASE \E level \in {0, 1} : SendAck(level)
  BY <1>8, AckKeeps DEF Levels
<1>9. CASE ResetI2c
  BY <1>9, ResetKeeps
<1>10. CASE UNCHANGED I2cVars
  <2>1. UNCHANGED <<SDA, SCL, op, made, got, sent, rw, device, lastBit>>
    BY <1>10 DEF I2cVars
  <2>2. /\ Total' = Total /\ DeviceOK(device, SCL)' = DeviceOK(device, SCL)
        /\ SentBits' = SentBits /\ ReadBits' = ReadBits
    BY <2>1 DEF Total, DeviceOK, Receiving, SentBits, ReadBits
  <2>3. I2cTypeOK'
    BY <2>1, <2>2 DEF I2cInv, I2cTypeOK
  <2>4. op' \in Released => ReleasedInv'
    BY <2>1 DEF I2cInv, ReleasedInv
  <2>5. ASSUME Clear PROVE OpInv'
    <3>1. OpInv
      BY <2>5 DEF I2cInv
    <3> QED
      BY <2>1, <2>2, <3>1 DEF OpInv, InitInv, StartInv, StopInv, WriteInv, AnswerInv, ReadInv, AckInv,
                       Settling, Receiving, Rest, Open, SameTo, Acknowledging, Fresh, FreshOf
  <2> QED
    BY <2>1, <2>3, <2>4, <2>5 DEF I2cInv, Clear
<1> QED
  BY <1>1, <1>2, <1>3, <1>4, <1>5, <1>6, <1>7, <1>8, <1>9, <1>10 DEF I2cNext

\* After a start, a stop and the initialisation the bus is as BusFramed says.
LEMMA FramedFollows ==
  I2cInv => BusFramed
<1> SUFFICES ASSUME I2cInv, Over, Clear
             PROVE  /\ op = "start" => device.mode = "address" /\ device.bits = <<>>
                    /\ op \in {"stop", "init"} => device.mode = "off" /\ Bus = 1 /\ SCL = 1
  BY DEF BusFramed
<1>1. made = Total /\ OpInv /\ op \in Ops /\ DeviceOK(device, SCL)
  BY OverIs DEF I2cInv, I2cTypeOK
<1>2. CASE op = "start"
  BY <1>1, <1>2, TotalIs DEF OpInv, StartInv
<1>3. CASE op \in {"stop", "init"}
  <2>1. SDA = 1 /\ SCL = 1 /\ device.mode = "off"
    BY <1>1, <1>3, TotalIs DEF OpInv, StopInv, InitInv
  <2>2. Bus = 1
    BY <1>1, <2>1 DEF Bus, Level, DeviceOK
  <2> QED
    BY <1>3, <2>1, <2>2
<1> QED
  BY <1>2, <1>3

\* After a byte or an answer both ends have the same.
LEMMA TransferFollows ==
  I2cInv => TransferRight
<1> SUFFICES ASSUME I2cInv, Over, Clear
             PROVE  /\ op = "write" => device.bits = sent
                    /\ op = "answer" => (got = <<0>> <=> device.mode \in {"data", "send"})
                    /\ op = "read" => got = device.byte
  BY DEF TransferRight
<1>1. made = Total /\ OpInv /\ op \in Ops
  BY OverIs DEF I2cInv, I2cTypeOK
<1>2. CASE op = "write"
  BY <1>1, <1>2, TotalIs DEF OpInv, WriteInv
<1>3. CASE op = "answer"
  <2>1. \/ device.mode = "off" /\ got = <<1>>
        \/ device.mode = "data" /\ got = <<0>>
        \/ device.mode = "send" /\ got = <<0>>
    BY <1>1, <1>3, TotalIs DEF OpInv, AnswerInv, Fresh, FreshOf
  <2>2. <<0>> # <<1>>
    OBVIOUS
  <2> QED
    BY <1>3, <2>1, <2>2
<1>4. CASE op = "read"
  BY <1>1, <1>4, TotalIs DEF OpInv, ReadInv
<1> QED
  BY <1>2, <1>3, <1>4

\* No step moves SDA while the clock is high but in a start or a stop.
LEMMA SteadyFollows ==
  I2cInv /\ I2cNext => SteadyWhileHigh
<1> SUFFICES ASSUME I2cInv, I2cNext PROVE SteadyWhileHigh
  OBVIOUS
<1>1. CASE i2c_master_setDC
  <2> SUFFICES ASSUME Clear, op \notin Moving PROVE Steady
    BY DEF SteadyWhileHigh, Steady
  <2>1. OpInv /\ I2cTypeOK
    BY DEF I2cInv
  <2>2. op \in {"write", "answer", "read", "ack", "nack"}
    BY <2>1 DEF Moving, I2cTypeOK, Ops
  <2>3. op = "write" => Steady
    BY <1>1, <2>1, WriteSteps DEF OpInv
  <2>4. op = "answer" => Steady
    BY <1>1, <2>1, AnswerSteps DEF OpInv
  <2>5. op = "read" => Steady
    BY <1>1, <2>1, ReadSteps DEF OpInv
  <2>6. op = "ack" => Steady
    BY <1>1, <2>1, AckSteps DEF OpInv, Levels
  <2>7. op = "nack" => Steady
    BY <1>1, <2>1, AckSteps DEF OpInv, Levels
  <2> QED
    BY <2>2, <2>3, <2>4, <2>5, <2>6, <2>7
<1>2. CASE ~i2c_master_setDC
  <2>1. UNCHANGED <<SDA, SCL, device>>
    BY <1>2 DEF I2cNext, i2c_master_gpio_init, StartMessage, StopMessage, CheckAck, ReadByte, Write,
                SendAck, ResetI2c, Plain, Begin
  <2> QED
    BY <2>1 DEF SteadyWhileHigh, Bus
<1> QED
  BY <1>1, <1>2

\* Whatever device is on the bus, which addresses it answers and what it sends, and
\* wherever the processor is reset: i2c_master.c moves SDA only as a message needs,
\* its starts, stops and initialisation are heard, and bytes and answers arrive.
THEOREM BusStaysRight == I2cSpec => BusRight
<1>1. I2cInit => I2cInv
  BY PowerOn
<1>2. I2cInv /\ [I2cNext]_I2cVars => I2cInv'
  BY I2cInvSteps
<1>3. I2cInv => BusFramed /\ TransferRight
  BY FramedFollows, TransferFollows
<1>4. I2cInv /\ I2cNext => SteadyWhileHigh
  BY SteadyFollows
<1> QED
  BY <1>1, <1>2, <1>3, <1>4, PTL DEF I2cSpec, BusRight
=============================================================================
