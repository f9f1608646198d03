------------------------------ MODULE FpgaRegs ------------------------------
(***************************************************************************)
(* The register exchange with an FPGA that speaks version 3 of the SPI     *)
(* protocol: fpgaDetect and fpga_periodic_task_v3 (src/dev/fpga/           *)
(* dev_fpga.c), which the FPGA task calls in RESET and in RUN.  A poll     *)
(* reads the SDB ROM that describes the FPGA, its CSR and, with a ROM that *)
(* has proved whole, the registers of the clock control core, from which   *)
(* the clock multiplexer takes its source.                                 *)
(*                                                                         *)
(* The FPGA may be reloaded with another image between any two transfers.  *)
(* A ROM is abstracted to the image it was read from; where its records    *)
(* say that the clock control lies is part of it.                          *)
(***************************************************************************)
EXTENDS Naturals

CONSTANTS
    Checked,      \* images with a ROM and its checksum
    Unchecked,    \* images with a ROM without a checksum
    Bare,         \* images without a ROM
    CoreSettings  \* contents of the clock control registers: [valid, source]

Images == Checked \cup Unchecked \cup Bare

ASSUME RegsAssumption ==
    /\ Images \cap {"none", "zero", "mixed"} = {}
    /\ CoreSettings \subseteq [valid : SUBSET {"VXS", "TTC"},
                              source : {"AUTO", "LOCAL", "TTC", "VXS", "other"}]

\* What may be read of the core: its registers are read one after the other.
CoreReadings ==
    [valid : {c.valid : c \in CoreSettings}, source : {c.source : c \in CoreSettings}]

VARIABLES
    fpga,          \* environment: the image loaded, the contents of its core
    step,          \* what the FPGA task does next
    rom,           \* priv.fpga.sdb: "zero", an image, or "mixed"
    sdbRead,       \* priv.fpga.sdb_read
    crcValid,      \* priv.fpga.sdb_crc_valid
    csr,           \* priv.fpga.csr: of which image, "none" without csr_read
    fpgaFound,     \* dev.device_status
    regs,          \* reg_status and reg_source of fpgaPollSdbClockControl
    clockSetting,  \* clock_control
    reloaded,      \* history: the FPGA was reloaded since the poll began
    regsGood       \* environment: transfers succeed, the FPGA stays as it is

regsVars == <<fpga, step, rom, sdbRead, crcValid, csr, fpgaFound, regs, clockSetting,
              reloaded, regsGood>>

Steps == {"standby", "detect", "poll", "magic", "rom", "check", "csr", "clock", "clockSource",
          "valid", "source", "writes", "pause", "error"}
Controlled == [bypass : BOOLEAN, valid : SUBSET {"VXS", "TTC"},
               source : {"AUTO", "LOCAL", "TTC", "VXS", "other"}]

\* What the PLL task sees of it.
C == INSTANCE ClockControl
       WITH Controls <- CoreReadings, fpgaOk <- (fpgaFound = "NORMAL"),
            clockControl <- clockSetting,
            pending <- IF step = "source" THEN {regs} ELSE {}

Broken == IF regsGood THEN {FALSE} ELSE BOOLEAN    \* a transfer fails

-----------------------------------------------------------------------------
(* The states of the FPGA task around the polls (module Fpga has them).    *)

\* The task is in STANDBY for one run at least, with what it knew of the FPGA cleared.
Standby ==
    /\ \/ step = "standby"
       \/ step \in {"detect", "poll", "pause"} /\ ~regsGood
    /\ step' \in {"standby", "detect"}
    /\ regsGood => step' = "detect"
    /\ fpgaFound' = "UNKNOWN"
    /\ rom' = "zero" /\ sdbRead' = FALSE /\ crcValid' = FALSE /\ csr' = "none"
    /\ UNCHANGED <<fpga, regs, clockSetting, reloaded, regsGood>>

\* An FPGA that is not found keeps the task in RESET until its timeout.
Detect ==
    /\ step = "detect"
    /\ csr' = "none"
    /\ \E broken \in Broken :
          IF broken THEN fpgaFound' = "UNKNOWN" /\ step' \in {"detect", "error"}
                    ELSE fpgaFound' = "NORMAL" /\ step' = "poll"
    /\ UNCHANGED <<fpga, rom, sdbRead, crcValid, regs, clockSetting, reloaded, regsGood>>

\* ERROR, and PAUSE between the polls.
Waits ==
    /\ \/ step = "error" /\ fpgaFound' = "FAIL" /\ step' \in {"error", "detect"}
       \/ step = "pause" /\ UNCHANGED fpgaFound /\ step' = "poll"
    /\ regsGood => step' # "error"
    /\ UNCHANGED <<fpga, rom, sdbRead, crcValid, csr, regs, clockSetting, reloaded,
                   regsGood>>

-----------------------------------------------------------------------------
(* fpga_periodic_task_v3                                                   *)

\* fpga_read_v3_spi_stats, and the memset with which fpga_read_sdb begins.
PollBegins ==
    /\ step = "poll"
    /\ \E broken \in Broken :
          IF broken THEN step' = "error" /\ UNCHANGED rom
                    ELSE step' = "magic" /\ rom' = "zero"
    /\ reloaded' = FALSE
    /\ UNCHANGED <<fpga, sdbRead, crcValid, csr, fpgaFound, regs, clockSetting, regsGood>>

\* Mutant: the ROM of the poll before still counts as read.
SdbFailsKeepsRead == UNCHANGED sdbRead /\ step' = "csr"

\* The label err of fpga_read_sdb.  The caller ignores the result.
SdbFails == sdbRead' = FALSE /\ step' = "csr"

ReadMagic ==
    /\ step = "magic"
    /\ \/ TRUE \in Broken /\ SdbFails /\ UNCHANGED rom
       \/ fpga.image \in Bare /\ SdbFails /\ UNCHANGED rom
       \/ fpga.image \notin Bare /\ rom' = fpga.image /\ step' = "rom" /\ UNCHANGED sdbRead
    /\ UNCHANGED <<fpga, crcValid, csr, fpgaFound, regs, clockSetting, reloaded, regsGood>>

\* The interconnect, the devices and the synthesis record, with yields between.
ReadRom ==
    /\ step = "rom"
    /\ \/ TRUE \in Broken /\ SdbFails /\ rom' \in {rom, "mixed"}
       \/ /\ rom' = IF rom = fpga.image THEN rom ELSE "mixed"
          /\ step' = "check"
          /\ UNCHANGED sdbRead
    /\ UNCHANGED <<fpga, crcValid, csr, fpgaFound, regs, clockSetting, reloaded, regsGood>>

\* Mutant: the validity of the checksum is not cleared first.
CheckRomKeepsValid ==
    /\ step = "check"
    /\ \/ rom \in Checked /\ crcValid' = TRUE /\ sdbRead' = TRUE /\ step' = "csr"
       \/ rom \in Unchecked /\ UNCHANGED crcValid /\ sdbRead' = TRUE /\ step' = "csr"
       \/ rom = "mixed" /\ UNCHANGED crcValid
                        /\ (SdbFails \/ (sdbRead' = TRUE /\ step' = "csr"))
    /\ UNCHANGED <<fpga, rom, csr, fpgaFound, regs, clockSetting, reloaded, regsGood>>

\* A ROM read from two images fails its checksum, if it has one, or the checks of
\* the interconnect, or passes without.
CheckRom ==
    /\ step = "check"
    /\ crcValid' = (rom \in Checked)
    /\ \/ sdbRead' = TRUE /\ step' = "csr"
       \/ rom = "mixed" /\ SdbFails
    /\ UNCHANGED <<fpga, rom, csr, fpgaFound, regs, clockSetting, reloaded, regsGood>>

\* fpga_read_base_csr, whose result is ignored too.
ReadCsr ==
    /\ step = "csr" /\ step' = "clock"
    /\ \E broken \in Broken : csr' = IF broken THEN "none" ELSE fpga.image
    /\ UNCHANGED <<fpga, rom, sdbRead, crcValid, fpgaFound, regs, clockSetting, reloaded,
                   regsGood>>

\* fpgaPollSdbDevices reads where the ROM says that the clock control is; an FPGA
\* with another image has anything there.
Core == IF rom = fpga.image THEN {fpga.control} ELSE CoreSettings

\* The control register, whose contents are not used, and the status.
ReadClockStatus ==
    /\ step = "clock"
    /\ \/ ~(sdbRead /\ crcValid) /\ step' = "writes" /\ UNCHANGED regs
       \/ sdbRead /\ crcValid /\ TRUE \in Broken /\ step' = "error" /\ UNCHANGED regs
       \/ /\ sdbRead /\ crcValid /\ step' = "clockSource"
          /\ \E c \in Core : regs' = [regs EXCEPT !.valid = c.valid]
    /\ UNCHANGED <<fpga, rom, sdbRead, crcValid, csr, fpgaFound, clockSetting, reloaded,
                   regsGood>>

ReadClockSource ==
    /\ step = "clockSource"
    /\ \/ TRUE \in Broken /\ step' = "error" /\ UNCHANGED regs
       \/ /\ step' = "valid"
          /\ \E c \in Core : regs' = [regs EXCEPT !.source = c.source]
    /\ UNCHANGED <<fpga, rom, sdbRead, crcValid, csr, fpgaFound, clockSetting, reloaded,
                   regsGood>>

StoreValid ==
    /\ step = "valid" /\ step' = "source"
    /\ clockSetting' = [clockSetting EXCEPT !.bypass = FALSE, !.valid = regs.valid]
    /\ UNCHANGED <<fpga, rom, sdbRead, crcValid, csr, fpgaFound, regs, reloaded, regsGood>>

\* Mutant: the valid sources are stored once more, of what the core has by now.
StoreSourceReadsAgain ==
    /\ step = "source" /\ step' = "writes"
    /\ clockSetting' = [clockSetting EXCEPT !.source = regs.source,
                                            !.valid = fpga.control.valid]
    /\ UNCHANGED <<fpga, rom, sdbRead, crcValid, csr, fpgaFound, regs, reloaded, regsGood>>

StoreSource ==
    /\ step = "source" /\ step' = "writes"
    /\ clockSetting' = [clockSetting EXCEPT !.source = regs.source]
    /\ UNCHANGED <<fpga, rom, sdbRead, crcValid, csr, fpgaFound, regs, reloaded, regsGood>>

\* The version, temperatures, addresses and states of the board are written.
WriteStatus ==
    /\ step = "writes"
    /\ \E broken \in Broken : step' = IF broken THEN "error" ELSE "pause"
    /\ UNCHANGED <<fpga, rom, sdbRead, crcValid, csr, fpgaFound, regs, clockSetting,
                   reloaded, regsGood>>

FpgaPoll ==
    \/ PollBegins \/ ReadMagic \/ ReadRom \/ CheckRom \/ ReadCsr
    \/ ReadClockStatus \/ ReadClockSource \/ StoreValid \/ StoreSource \/ WriteStatus

RegsTask == Standby \/ Detect \/ Waits \/ FpgaPoll

-----------------------------------------------------------------------------

RegsInit ==
    /\ fpga \in [image : Images, control : CoreSettings]
    /\ step = "standby"
    /\ rom = "zero"
    /\ sdbRead = FALSE
    /\ crcValid = FALSE
    /\ csr = "none"
    /\ fpgaFound = "UNKNOWN"
    /\ regs \in CoreReadings
    /\ clockSetting = C!Booted
    /\ reloaded = FALSE
    /\ regsGood = FALSE

\* Another image is loaded, or the contents of the core change.
FpgaChanges ==
    /\ ~regsGood
    /\ fpga' \in [image : Images, control : CoreSettings]
    /\ reloaded' = (reloaded \/ fpga'.image # fpga.image)
    /\ UNCHANGED <<step, rom, sdbRead, crcValid, csr, fpgaFound, regs, clockSetting,
                   regsGood>>

FpgaSettles ==
    /\ regsGood' = TRUE
    /\ UNCHANGED <<fpga, step, rom, sdbRead, crcValid, csr, fpgaFound, regs, clockSetting,
                   reloaded>>

RegsNext == RegsTask \/ FpgaChanges \/ FpgaSettles

RegsSpec == RegsInit /\ [][RegsNext]_regsVars

\* The task runs in a loop with a delay, and its transfers have timeouts.
RegsFairSpec == RegsSpec /\ WF_regsVars(RegsTask)

-----------------------------------------------------------------------------
(* Properties                                                              *)

\* Every variable stays in its type; a ROM that counts as read has been.
RegsTypeOK ==
    /\ fpga \in [image : Images, control : CoreSettings]
    /\ step \in Steps
    /\ rom \in Images \cup {"zero", "mixed"}
    /\ sdbRead \in BOOLEAN
    /\ \/ step \in {"rom", "check"}
       \/ sdbRead /\ step \in {"csr", "clock", "clockSource", "valid", "source", "writes",
                                  "pause"}
       => rom # "zero"
    /\ crcValid \in BOOLEAN
    /\ csr \in Images \cup {"none"}
    /\ fpgaFound \in {"UNKNOWN", "NORMAL", "FAIL"}
    /\ regs \in CoreReadings
    /\ clockSetting \in Controlled
    /\ reloaded \in BOOLEAN
    /\ regsGood \in BOOLEAN

\* The clock control is read by a ROM with its checksum only, and by that of the
\* image loaded unless the FPGA was reloaded since the poll began: neither a ROM of
\* an earlier poll, nor one read half before and half after a reload, nor the
\* validity of an earlier checksum is used.
ClockReadByItsRom ==
    step \in {"clockSource", "valid", "source"} =>
        rom \in Checked /\ (~reloaded => rom = fpga.image)

\* The two stores are what the PLL task expects of clock_control: of one reading,
\* of an FPGA that counts as NORMAL, the valid sources first.  Once the FPGA stays, with
\* a ROM with its checksum, the sources of the clock follow it.
ImplementsClockControl ==
    /\ C!CcSpec
    /\ <>[](regsGood /\ fpga.image \in Checked)
        => <>[](clockSetting = [bypass |-> FALSE, valid |-> fpga.control.valid,
                                 source |-> fpga.control.source])
=============================================================================
