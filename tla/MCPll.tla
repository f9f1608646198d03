------------------------------- MODULE MCPll -------------------------------
(***************************************************************************)
(* The drivers of the clock path that share no state, each on its own: the *)
(* AD9545 with the clock shift, the AD9516, the AD9548, and the clock      *)
(* multiplexer of TQDC with the FPGA's clock control.  The initial state   *)
(* chooses one; the others rest.                                           *)
(***************************************************************************)
EXTENDS ClockShift, ClockChips, TqdcClkmux

EvenShiftRuns == {1}
SmallFractions == {<<1, 1>>, <<1, 4>>, <<3, 4>>}

\* The contents of the clock control registers.
Settings == {[valid |-> {"VXS"}, source |-> "other"], [valid |-> {}, source |-> "LOCAL"]}

VARIABLE unit   \* the driver that runs

Units == {"shift", "auxpll", "ad9548", "clkmux"}
clkVars == <<ccVars, muxVars>>
unitVars == <<unit, shiftVars, auxVars, synVars, clkVars>>

UnitInit == unit \in Units /\ ShiftInit /\ AuxInit /\ SynInit /\ MuxInit

Shifts == unit = "shift" /\ ShiftNext /\ UNCHANGED <<unit, auxVars, synVars, clkVars>>
AuxClock == unit = "auxpll" /\ AuxNext /\ UNCHANGED <<unit, shiftVars, synVars, clkVars>>
SynthClock == unit = "ad9548" /\ SynNext /\ UNCHANGED <<unit, shiftVars, auxVars, clkVars>>
ClockSource == unit = "clkmux" /\ MuxNext /\ UNCHANGED <<unit, shiftVars, auxVars, synVars>>

UnitSpec ==
    /\ UnitInit
    /\ [][Shifts \/ AuxClock \/ SynthClock \/ ClockSource]_unitVars
    /\ WF_shiftVars(unit = "shift" /\ FpgaTask)
    /\ WF_shiftVars(unit = "shift" /\ ShiftPllTask)
    /\ WF_auxVars(unit = "auxpll" /\ AuxTask)
    /\ WF_synVars(unit = "ad9548" /\ SynTask)
    /\ WF_clkVars(unit = "clkmux" /\ MuxRun)

-----------------------------------------------------------------------------

\* Every variable stays in its type, and with them the limits of the recoveries.
ChipTypesOK == ShiftTypeOK /\ AuxTypeOK /\ SynTypeOK /\ MuxTypeOK

\* The clocks serve: whatever failed or was lost before, the shift that is asked for arrives
\* in a working chip, every driver brings a working chip up again, and the outputs of the
\* multiplexer have the source that the FPGA asks for.
ChipsServe == ShiftsArrive /\ ChipsRecover /\ ClockFollows
=============================================================================
