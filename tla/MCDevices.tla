----------------------------- MODULE MCDevices -----------------------------
(***************************************************************************)
(* The drivers of a board that share no state, each on its own: the        *)
(* initial state chooses which one runs.  The others rest in one initial   *)
(* state each.                                                             *)
(***************************************************************************)
EXTENDS Fpga, FpgaRegs, Digipot, Sfpiic, VxsMaster, TLC

CONSTANTS sfpA, qsfpB, qsfpC, badD, boardA, boardB, boardC

UnevenRuns == {1, 2}
TwoChecked == {"first", "second"}
OneUnchecked == {"plain"}
OneBare == {"bare"}
Settings == {[valid |-> {"VXS"}, source |-> "TTC"], [valid |-> {}, source |-> "other"]}
Kinds == (sfpA :> "SFP") @@ (qsfpB :> "QSFP+") @@ (qsfpC :> "QSFP") @@ (badD :> "other")
Sensors == (boardA :> 3) @@ (boardB :> 1) @@ (boardC :> 0)

VARIABLE unit   \* the driver that runs

Units == {"fpga", "regs", "digipot", "sfpiic", "vxsiicm"}
devicesVars == <<unit, fpgaVars, regsVars, potVars, sfpVars, vxsVars>>

DevicesInit ==
    /\ unit \in Units
    /\ FpgaInit /\ RegsInit /\ DigipotInit /\ SfpInit /\ VxsInit
    /\ unit # "fpga" => donePin
    /\ unit # "regs" =>
          LET none == [valid |-> {}, source |-> "other"]
          IN  fpga = [image |-> "bare", control |-> none] /\ regs = none

Fpgas == unit = "fpga" /\ FpgaNext
             /\ UNCHANGED <<unit, regsVars, potVars, sfpVars, vxsVars>>
Registers == unit = "regs" /\ RegsNext
             /\ UNCHANGED <<unit, fpgaVars, potVars, sfpVars, vxsVars>>
Digipots == unit = "digipot" /\ DigipotNext
             /\ UNCHANGED <<unit, fpgaVars, regsVars, sfpVars, vxsVars>>
SfpModules == unit = "sfpiic" /\ SfpNext
             /\ UNCHANGED <<unit, fpgaVars, regsVars, potVars, vxsVars>>
VxsBoards == unit = "vxsiicm" /\ VxsNext
             /\ UNCHANGED <<unit, fpgaVars, regsVars, potVars, sfpVars>>

DevicesSpec ==
    /\ DevicesInit
    /\ [][Fpgas \/ Registers \/ Digipots \/ SfpModules \/ VxsBoards]_devicesVars
    /\ WF_fpgaVars(unit = "fpga" /\ \E d \in FpgaDurations : FpgaRun(sample, d))
    /\ WF_regsVars(unit = "regs" /\ RegsTask)
    /\ WF_potVars(unit = "digipot" /\ PotTask)
    /\ WF_potVars(unit = "digipot" /\ SendCommand)
    /\ WF_sfpVars(unit = "sfpiic" /\ SfpTask)
    /\ WF_vxsVars(unit = "vxsiicm" /\ VxsTask)

-----------------------------------------------------------------------------

\* Every variable stays in its type.
DeviceTypesOK == FpgaTypeOK /\ RegsTypeOK /\ DigipotTypeOK /\ SfpTypeOK /\ VxsTypeOK

\* Nothing is lost or taken for another whatever fails or is swapped under way: no block
\* of the mailbox, no SFP module, no board of the crate.
DevicesKeep == BlocksQueued /\ ReadsOwnSlot /\ PresentIsSupported /\ OneSlotOnly

\* No step gives up potentiometers that have no power, or stores something of a board
\* that is half read, or of another one than the board in the slot.
DeviceStepsKeep == NotGivenUpUnpowered /\ InfoChangesWhole /\ OwnBoardOnly

\* In the end the FPGA is polled, the potentiometers have moved as they were told, and
\* what the firmware shows of all that can be swapped, SFP modules and payload boards,
\* is what is plugged in, and where.
DevicesServe == FpgaFollowsPower /\ PotsServed /\ ModulesServed /\ CrateShown
=============================================================================
