----------------------------- MODULE HspiOverlap ---------------------------
(***************************************************************************)
(* spi_overlap.c: one SPI master, HSPI, serves a device on its own pins and*)
(* up to three chips on the pins of the flash, by overlap.  Selecting a    *)
(* device changes only what differs from the device selected before, so    *)
(* what a device gets depends on the path to it.                           *)
(*                                                                         *)
(* HSPI is idle when a function goes on (WAIT_HSPI_IDLE), and nothing is   *)
(* transmitted inside one.                                                 *)
(***************************************************************************)
EXTENDS Naturals, Sequences

CONSTANTS
  Confs,        \* clk_polar and clk_div of callers
  ChipSize,     \* spi->chip_size
  ChunkBytes,   \* SPI_BUFF_BYTE_NUM, a number of words
  Reads         \* lengths of flash reads

ASSUME HspiAssumption ==
  /\ Confs \subseteq [polar : BOOLEAN, div : 0 .. 31]
  /\ ChipSize \in Nat /\ ChunkBytes \in Nat \ {0} /\ ChunkBytes % 4 = 0 /\ Reads \subseteq Nat

HSPI_CS_DEV == 0
SPI_CS1_DEV == 1
SPI_CS2_DEV == 2
SPI_CS0_FLASH == 3
HSPI_IDLE == 4
Devices == 0 .. 3
OnFlashPins == {SPI_CS1_DEV, SPI_CS2_DEV, SPI_CS0_FLASH}

VARIABLES
  io80m,      \* the flash runs at the system clock
  conf,       \* hspi_dev_conf
  selected,   \* selected_dev_num
  backedUp,   \* hspi_reg_backup_flag
  flashRegs,  \* hspi_flash_reg_backup
  devRegs,    \* hspi_dev_reg_backup
  regs,       \* HSPI's SPI_USER, SPI_CLOCK and the disabled lines of SPI_PIN
  overlap,    \* HOST_INF_SEL has reg_cspi_overlap
  devCs,      \* pin MTDO is HSPI's CS0
  readFunc,   \* hspi_overlap_read_flash_data is installed
  chunks,     \* reads that the last step, a flash read, was made of
  (* history, read by no action *)
  applied,    \* conf of the selected device when it was selected
  late        \* MTDO was made CS0 since the pins were last left to the flash

OverlapVars == <<io80m, conf, selected, backedUp, flashRegs, devRegs, regs,
                 overlap, devCs, readFunc, chunks, applied, late>>

Inactive == [active |-> FALSE, polar |-> FALSE, div |-> 0]
NoRegs == [user |-> {}, equ |-> FALSE, div |-> 0, off |-> {}]
Reset == 99      \* the divider HSPI starts with

-----------------------------------------------------------------------------

\* Registers of HSPI after reset; whether CS_SETUP is among them is open.
OverlapInit ==
  /\ io80m \in BOOLEAN
  /\ conf = [d \in Devices |-> Inactive] /\ selected = HSPI_CS_DEV
  /\ backedUp = FALSE /\ flashRegs = NoRegs /\ devRegs = NoRegs
  /\ \E setup \in SUBSET {"CS_SETUP"} :
       regs = [user |-> {"FLASH_MODE"} \cup setup, equ |-> FALSE, div |-> Reset, off |-> {1, 2}]
  /\ overlap = FALSE /\ devCs = FALSE /\ readFunc = FALSE /\ chunks = <<>>
  /\ applied = Inactive /\ late = FALSE

spi_master_init(r) ==
  [r EXCEPT !.user = (@ \cup {"CS_SETUP", "CS_HOLD", "USR_COMMAND"}) \ {"FLASH_MODE"},
            !.equ = FALSE, !.div = 1]

\* The first call backs up HSPI's registers as the flash needs them and as
\* devices do.
BackUp ==
  IF backedUp THEN UNCHANGED <<backedUp, flashRegs, devRegs, regs, selected>>
  ELSE /\ flashRegs' = [regs EXCEPT !.equ = io80m]
       /\ devRegs' = spi_master_init(flashRegs') /\ regs' = devRegs'
       /\ backedUp' = TRUE /\ selected' = HSPI_IDLE

hspi_master_dev_init(d, c) ==
  /\ BackUp
  /\ conf' = [conf EXCEPT ![d] = [active |-> TRUE, polar |-> c.polar, div |-> c.div]]
  /\ devCs' = (devCs \/ d = HSPI_CS_DEV)
  /\ late' = (late \/ (d = HSPI_CS_DEV /\ overlap))
  /\ chunks' = <<>>
  /\ UNCHANGED <<io80m, overlap, readFunc, applied>>

hspi_overlap_flash_init ==
  /\ BackUp
  /\ conf' = [conf EXCEPT ![SPI_CS0_FLASH] = [active |-> TRUE, polar |-> FALSE, div |-> 0]]
  /\ readFunc' = TRUE /\ chunks' = <<>>
  /\ UNCHANGED <<io80m, overlap, devCs, applied, late>>

-----------------------------------------------------------------------------
(* hspi_dev_sel, a step of it at a time; r are the registers so far.       *)

\* hspi_overlap_init and hspi_overlap_deinit, where the pins change hands.
TakePins(r, d) ==
  IF d \in OnFlashPins /\ selected \notin OnFlashPins
  THEN [r EXCEPT !.user = @ \cup {"CS_SETUP"}]
  ELSE IF d = HSPI_CS_DEV THEN [r EXCEPT !.user = @ \ {"CS_SETUP"}]
  ELSE r

\* spi_reg_recover: the flash has one set of registers, devices the other.
Recover(r, d) ==
  IF d = SPI_CS0_FLASH THEN flashRegs
  ELSE IF selected \in {SPI_CS0_FLASH, HSPI_IDLE} THEN devRegs
  ELSE r

\* At 80 MHz the chips on the flash pins keep the system clock; the divider
\* overwrites the register.
SetClock(r, d) ==
  IF d = SPI_CS0_FLASH
  THEN IF io80m /\ selected \notin OnFlashPins THEN [r EXCEPT !.equ = TRUE] ELSE r
  ELSE IF d \in OnFlashPins /\ io80m
  THEN IF selected \in {SPI_CS1_DEV, SPI_CS2_DEV} THEN r ELSE [r EXCEPT !.equ = TRUE]
  ELSE [r EXCEPT !.div = conf[d].div, !.equ = FALSE]

\* HSPI_FALLING_EDGE_SAMPLE, HSPI_RISING_EDGE_SAMPLE
SetEdge(r, d) ==
  IF d # SPI_CS0_FLASH /\ conf[d].polar THEN [r EXCEPT !.user = @ \cup {"CK_OUT_EDGE"}]
  ELSE [r EXCEPT !.user = @ \ {"CK_OUT_EDGE"}]

\* ACTIVE_HSPI_CS0, ACTIVE_HSPI_CS1, ACTIVE_HSPI_CS2
Line(d) == IF d \in {SPI_CS1_DEV, SPI_CS2_DEV} THEN d ELSE 0
Activate(r, d) == [r EXCEPT !.off = {0, 1, 2} \ {Line(d)}]

\* Mutant of PinsFor: the device's pins are left as they are.
PinsFor_Kept(d) ==
  /\ overlap' = (d \in OnFlashPins)
  /\ UNCHANGED devCs
  /\ late' = (late /\ selected \in OnFlashPins /\ d \in OnFlashPins)

\* DISABLE_HSPI_DEV_CS and ENABLE_HSPI_DEV_CS, with the overlap itself.
PinsFor(d) ==
  /\ overlap' = (d \in OnFlashPins)
  /\ devCs' = IF d = HSPI_CS_DEV THEN TRUE
              ELSE IF selected \in OnFlashPins THEN devCs ELSE FALSE
  /\ late' = (late /\ selected \in OnFlashPins /\ d \in OnFlashPins)

\* A device that has been initialised; the selected one is left alone.
hspi_dev_sel(d) ==
  /\ IF conf[d].active /\ d # selected
     THEN /\ regs' = Activate(SetEdge(SetClock(Recover(TakePins(regs, d), d), d), d), d)
          /\ PinsFor(d)
          /\ selected' = d /\ applied' = conf[d]
     ELSE UNCHANGED <<regs, overlap, devCs, late, selected, applied>>
  /\ UNCHANGED <<io80m, conf, backedUp, flashRegs, devRegs, readFunc>>

\* Mutant of Chunks: whole chunks only.
Chunks_Whole(addr, length) ==
  [i \in 1 .. length \div ChunkBytes |->
     [addr |-> addr + (i - 1) * ChunkBytes, bytes |-> ChunkBytes, words |-> (ChunkBytes + 3) \div 4]]

\* The reads a flash read is made of.
Chunks(addr, length) ==
  LET from[left \in 0 .. length] ==
        IF left = 0 THEN <<>>
        ELSE LET n == IF left >= ChunkBytes THEN ChunkBytes ELSE left
             IN  <<[addr |-> addr + length - left, bytes |-> n, words |-> (n + 3) \div 4]>>
                 \o from[left - n]
  IN  from[length]

\* The flash is selected first, then the range is checked.
hspi_overlap_read_flash_data(addr, length) ==
  /\ readFunc
  /\ hspi_dev_sel(SPI_CS0_FLASH)
  /\ chunks' = IF addr + length > ChipSize THEN <<>> ELSE Chunks(addr, length)

OverlapNext ==
  \/ \E d \in Devices, c \in Confs : hspi_master_dev_init(d, c)
  \/ hspi_overlap_flash_init
  \/ \E d \in Devices : hspi_dev_sel(d) /\ chunks' = <<>>
  \/ \E length \in Reads : hspi_overlap_read_flash_data(ChunkBytes, length)

OverlapSpec == OverlapInit /\ [][OverlapNext]_OverlapVars

-----------------------------------------------------------------------------

InUse == backedUp /\ selected # HSPI_IDLE

\* The chips that take part in a transfer: those on the flash pins by their
\* lines, the device on HSPI's pins if MTDO carries CS0.
Answering ==
  {d \in OnFlashPins : overlap /\ Line(d) \notin regs.off}
  \cup {d \in {HSPI_CS_DEV} : devCs /\ 0 \notin regs.off}

\* Exactly the selected chip answers, whatever was selected before.  The one
\* exception is a device whose init came late, with the flash pins in use: it
\* answers together with the flash.
OneChip ==
  InUse => \/ Answering = {selected}
           \/ late /\ selected = SPI_CS0_FLASH /\ Answering = {selected, HSPI_CS_DEV}

\* The selected chip gets its own edge and clock, as configured when it was
\* selected; on the flash pins at 80 MHz it gets the system clock.
TimingOfSelected ==
  InUse =>
    /\ "CK_OUT_EDGE" \in regs.user <=> applied.polar /\ selected # SPI_CS0_FLASH
    /\ regs.equ <=> io80m /\ selected \in OnFlashPins
    /\ ~regs.equ => regs.div = (IF selected = SPI_CS0_FLASH THEN Reset ELSE applied.div)

\* A device is driven with the device registers and the flash with its own.
\* CS_SETUP, which hspi_overlap_deinit clears, is there for the devices on the
\* flash pins at least.
ModeOfSelected ==
  InUse =>
    /\ "FLASH_MODE" \in regs.user <=> selected = SPI_CS0_FLASH
    /\ "USR_COMMAND" \in regs.user <=> selected # SPI_CS0_FLASH
    /\ selected \in {SPI_CS1_DEV, SPI_CS2_DEV} => "CS_SETUP" \in regs.user

\* A flash read reaches the flash, reads every byte of its range once and in
\* order, and stores no word but those the range touches.
FlashRead ==
  [][\A length \in Reads :
       hspi_overlap_read_flash_data(ChunkBytes, length) =>
         /\ selected' = SPI_CS0_FLASH
         /\ ChunkBytes + length <= ChipSize =>
              /\ \A b \in ChunkBytes .. ChunkBytes + length - 1 :
                   \E i \in DOMAIN chunks' :
                     /\ b \in chunks'[i].addr .. chunks'[i].addr + chunks'[i].bytes - 1
                     /\ \A j \in DOMAIN chunks' \ {i} :
                          b \notin chunks'[j].addr .. chunks'[j].addr + chunks'[j].bytes - 1
              /\ \A i \in DOMAIN chunks' :
                   i < Len(chunks') => chunks'[i].bytes = 4 * chunks'[i].words]_OverlapVars

\* The selected chip alone is driven, and as it needs, whatever the path of
\* selections to it.
DrivenAsMeant == OneChip /\ TimingOfSelected /\ ModeOfSelected
=============================================================================
