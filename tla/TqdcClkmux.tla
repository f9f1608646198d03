----------------------------- MODULE TqdcClkmux -----------------------------
(***************************************************************************)
(* The clock multiplexer of TQDC and TDC64VLE, dev_tqdc_clkmux_run         *)
(* (src/dev/tqdc_clkmux), which the PLL task calls and which takes the     *)
(* source that the FPGA asks for.  The multiplexer is a crossbar of four   *)
(* outputs and two selectors behind the ports B and A of an MCP23017 port  *)
(* expander.                                                               *)
(*                                                                         *)
(* The crossbar takes an input for an output while it is loaded, and       *)
(* applies what has been loaded when it is configured.  Nothing reaches it *)
(* while the expander's pins are inputs, as they are after a reset; only   *)
(* the detection makes them outputs.                                       *)
(***************************************************************************)
EXTENDS ClockControl, DevFsm

CONSTANTS
    MuxErrors,      \* MAX_ERROR_COUNT, 3
    MuxErrorDelay,  \* ERROR_DELAY_TICKS
    MuxPollDelay,   \* POLL_DELAY_TICKS
    MaxMuxTicks     \* saturation of the elapsed time

VARIABLES
    muxDev,      \* dev.fsm and dev.device_status
    errorCount,  \* error_count
    clkSource,   \* priv.clk_source: the source and whether the PLL is used
    route,       \* the step of the run: "run", "auto" or "set"
    chosen,      \* selected_source and pll_bypass of get_clk_source
    directions,  \* environment: the expander's pins are outputs
    portA,       \* environment: the selectors on port A
    loaded,      \* environment: the inputs loaded into the crossbar
    crossbar,    \* environment: the inputs its outputs have
    setFailed,   \* history: a transfer of the last setup has failed
    muxOutage,   \* history: an outage has reset the expander since its detection
    muxPower,    \* enable_power && system_power_present
    muxGood      \* environment: the expander answers, power and FPGA stay

chipsVars == <<directions, portA, loaded, crossbar>>
muxVars == <<muxDev, errorCount, clkSource, route, chosen, chipsVars, setFailed,
             muxOutage, muxPower, muxGood>>

Outputs == 0..3
Sources == {"LOCAL", "TTC", "VXS"}
Sought == Sources \cup {"AUTO", "other"}   \* the contents of the source register
ClkSources == [from : Sources, pll : BOOLEAN]
Unchosen == [from |-> "LOCAL", pll |-> FALSE]
NoSelector == [adc |-> FALSE, tdc |-> FALSE]

ASSUME MuxAssumption ==
    /\ MuxErrors \in Nat \ {0}
    /\ \A t \in {MuxErrorDelay, MuxPollDelay} : t \in Nat /\ t < MaxMuxTicks
    /\ MaxMuxTicks \in Nat
    /\ Controls \subseteq [valid : SUBSET Sources, source : Sought]

MuxStart == [state |-> "SHUTDOWN", ticks |-> 0, status |-> "UNKNOWN"]
MuxSaturate(t) == IF t > MaxMuxTicks THEN MaxMuxTicks ELSE t
MuxBroken == IF muxGood THEN {FALSE} ELSE BOOLEAN

\* The inputs of the outputs, and the selectors, for a source.
Inputs(s) ==
    [o \in Outputs |-> IF o = 2 THEN "PLL_FB"
                       ELSE CASE s.from = "VXS" -> "VXS"
                              [] s.from = "TTC" -> "REFIN"
                              [] OTHER -> "AD9516_DIV3"]
Selectors(s) == [adc |-> s.from = "LOCAL" /\ ~s.pll, tdc |-> s.pll]

FirstValid(valid) ==
    IF "VXS" \in valid THEN "VXS" ELSE IF "TTC" \in valid THEN "TTC" ELSE "LOCAL"

\* What the FPGA asks for.
Wanted(c) == IF c.source \in Sources THEN c.source ELSE FirstValid(c.valid)

-----------------------------------------------------------------------------
(* dev_tqdc_clkmux_run, in an iteration that takes a tick.  A setup is     *)
(* split where the FPGA task may come between.                             *)

Ends(d) ==
    /\ muxDev' = [d EXCEPT !.ticks = MuxSaturate(@ + 1)]
    /\ route' = "run"

MuxShutdown ==
    /\ route = "run"
    /\ ~muxPower \/ muxDev.state = "SHUTDOWN"
    /\ Ends([Change(muxDev, IF muxPower THEN "RESET" ELSE "SHUTDOWN")
               EXCEPT !.status = "UNKNOWN"])
    /\ UNCHANGED <<errorCount, clkSource, chosen>>

\* The failed detections are counted over all starts since the last ERROR that
\* has timed out, a loss of power included; beyond the limit it makes no difference.
Failures(broken) ==
    IF broken /\ errorCount < MuxErrors THEN errorCount + 1 ELSE errorCount

\* dev_tqdc_clkmux_detect: one that succeeds has written the directions of all pins.
Detect(broken) ==
    /\ directions' \in IF broken THEN {directions, TRUE} ELSE {TRUE}
    /\ muxOutage' = (muxOutage /\ broken)

MuxReset ==
    /\ route = "run" /\ muxPower /\ muxDev.state = "RESET"
    /\ clkSource' = [from |-> "LOCAL", pll |-> FALSE]
    /\ \E broken \in MuxBroken :
          /\ errorCount' = Failures(broken)
          /\ Ends([Change(muxDev, IF ~broken THEN "RUN"
                                  ELSE IF errorCount' >= MuxErrors THEN "ERROR"
                                  ELSE "RESET") EXCEPT !.status = "UNKNOWN"])
          /\ Detect(broken)
    /\ UNCHANGED <<chosen, portA, loaded, crossbar, setFailed>>

MuxWaits ==
    /\ route = "run" /\ muxPower
    /\ \/ /\ muxDev.state = "PAUSE"
          /\ Ends(Change(muxDev, IF muxDev.ticks > MuxPollDelay THEN "RUN" ELSE "PAUSE"))
          /\ UNCHANGED errorCount
       \/ /\ muxDev.state = "ERROR"
          /\ LET over == muxDev.ticks > MuxErrorDelay
             IN  /\ Ends([Change(muxDev, IF over THEN "RESET" ELSE "ERROR")
                            EXCEPT !.status = "FAIL"])
                 /\ errorCount' = IF over THEN 0 ELSE errorCount
    /\ UNCHANGED <<clkSource, chosen>>

\* get_clk_source, as far as the source ...
SelectSource ==
    /\ route = "run" /\ muxPower /\ muxDev.state = "RUN"
    /\ chosen' = IF fpgaOk
                   THEN [from |-> clockControl.source, pll |-> ~clockControl.bypass]
                   ELSE [from |-> "LOCAL", pll |-> TRUE]
    /\ route' = "auto"
    /\ UNCHANGED <<muxDev, errorCount, clkSource>>

\* ... and the choice among the valid ones, if it is automatic.
SelectAuto ==
    /\ route = "auto"
    /\ clkSource' = [chosen EXCEPT !.from =
                        IF @ \in Sources THEN @ ELSE FirstValid(clockControl.valid)]
    /\ route' = "set"
    /\ chosen' = Unchosen
    /\ UNCHANGED <<muxDev, errorCount>>

\* A setup ends in PAUSE with NORMAL, even when it has failed: after ERROR there
\* is no break.
SetEnds == Ends([Change(muxDev, "PAUSE") EXCEPT !.status = "NORMAL"])

\* The crossbar with the inputs of the first n outputs loaded, through pins that are
\* outputs.
Loaded(n) ==
    [o \in Outputs |-> IF directions /\ o < n THEN Inputs(clkSource)[o] ELSE loaded[o]]

\* Mutant: the crossbar is configured before the input is loaded.
ConfigureFirst(done) ==
    /\ loaded' = Loaded(done \div 2)
    /\ crossbar' = IF done = 0 \/ ~directions THEN crossbar ELSE Loaded((done - 1) \div 2)

\* For every output its input is loaded and the crossbar configured; of these
\* eight steps the first `done` have been done.
LoadAndConfigure(done) ==
    /\ loaded' = Loaded((done + 1) \div 2)
    /\ crossbar' = IF done < 2 \/ ~directions THEN crossbar ELSE Loaded(done \div 2)

\* dev_tqdc_clkmux_set.  The byte for port A goes to port B, and zeros after it;
\* neither loads anything.  A transfer that fails, done or not, is the last.  The
\* transfers succeed whatever the directions are.
SetSource ==
    /\ route = "set"
    /\ SetEnds
    /\ \/ LoadAndConfigure(8) /\ setFailed' = FALSE
       \/ /\ TRUE \in MuxBroken
          /\ \E done \in 0..8 : LoadAndConfigure(done)
          /\ setFailed' = TRUE
    /\ UNCHANGED <<errorCount, clkSource, chosen, directions, portA, muxOutage>>

MuxRun ==
    /\ \/ /\ MuxShutdown \/ MuxWaits \/ SelectSource \/ SelectAuto
          /\ UNCHANGED <<chipsVars, setFailed, muxOutage>>
       \/ MuxReset
       \/ SetSource
    /\ UNCHANGED <<muxPower, muxGood, ccVars>>

-----------------------------------------------------------------------------

MuxInit ==
    /\ CcInit
    /\ muxDev = MuxStart
    /\ errorCount = 0
    /\ clkSource = [from |-> "LOCAL", pll |-> FALSE]
    /\ route = "run"
    /\ chosen = Unchosen
    /\ directions = FALSE
    /\ portA = NoSelector
    /\ loaded = [o \in Outputs |-> "VXS"]
    /\ crossbar = [o \in Outputs |-> "VXS"]
    /\ setFailed = FALSE
    /\ muxOutage = FALSE
    /\ muxPower = TRUE
    /\ muxGood = FALSE

ChipsReset ==
    /\ directions' = FALSE
    /\ portA' = NoSelector
    /\ loaded' = [o \in Outputs |-> "VXS"]
    /\ crossbar' = [o \in Outputs |-> "VXS"]

\* Power is switched, or fails for a moment that no run sees.  Expander and crossbar
\* keep what they hold, or have their defaults: inputs for pins, input 0 for outputs.
MuxPowerChanges ==
    /\ ~muxGood
    /\ muxPower' \in BOOLEAN
    /\ \/ UNCHANGED <<chipsVars, muxOutage>>
       \/ ChipsReset /\ muxOutage' = TRUE
    /\ UNCHANGED <<muxDev, errorCount, clkSource, route, chosen, setFailed, muxGood,
                   ccVars>>

MuxSettles ==
    /\ muxPower /\ pending = {}
    /\ muxGood' = TRUE
    /\ UNCHANGED <<muxDev, errorCount, clkSource, route, chosen, chipsVars, setFailed,
                   muxOutage, muxPower, ccVars>>

\* The FPGA task.
FpgaSide == ~muxGood /\ CcNext /\ UNCHANGED muxVars

MuxNext == MuxRun \/ MuxPowerChanges \/ MuxSettles \/ FpgaSide

MuxSpec == MuxInit /\ [][MuxNext]_<<ccVars, muxVars>>

\* The PLL task runs in a loop with a delay, and its transfers have timeouts.
MuxFairSpec == MuxSpec /\ WF_<<ccVars, muxVars>>(MuxRun)

-----------------------------------------------------------------------------
(* Properties                                                              *)

\* Every variable stays in its type.
MuxTypeOK ==
    /\ fpgaOk \in BOOLEAN
    /\ clockControl \in [bypass : BOOLEAN, valid : SUBSET Sources, source : Sought]
    /\ pending \subseteq Controls
    /\ muxDev \in [state : FsmState, ticks : 0..MaxMuxTicks,
                   status : {"UNKNOWN", "NORMAL", "FAIL"}]
    /\ errorCount \in 0..MuxErrors
    /\ clkSource \in ClkSources
    /\ route \in {"run", "auto", "set"}
    /\ chosen \in [from : Sought, pll : BOOLEAN]
    /\ directions \in BOOLEAN
    /\ portA \in [adc : BOOLEAN, tdc : BOOLEAN]
    /\ {loaded, crossbar} \subseteq
          [Outputs -> {"VXS", "AD9516_DIV3", "REFIN", "PLL_FB"}]
    /\ setFailed \in BOOLEAN
    /\ muxOutage \in BOOLEAN
    /\ muxPower \in BOOLEAN
    /\ muxGood \in BOOLEAN

\* Between two setups the outputs have the inputs of the source that the driver reports,
\* unless a transfer of the last setup has failed: never a mixture with a source of
\* before, although source and crossbar are set in steps that others come between, and
\* the pins the setup writes to are made outputs in another state.  An outage that has
\* reset the expander since its detection is excluded (see OutputsServe).
OutputsOfOneSource ==
    muxDev.state = "PAUSE" /\ ~setFailed /\ ~muxOutage => crossbar = Inputs(clkSource)

\* Once power, expander and FPGA stay as they are, all outputs have the source that
\* the FPGA asks for, or the local one without an FPGA: a setup that failed, or that
\* took the new source with the old valid ones, is made up for by the next.  Only the
\* setups after an outage in RUN or PAUSE do not reach the outputs; an outage in the
\* other states, or one that is seen, does no harm.
ClockFollows ==
    <>[]muxGood => <>[](/\ clkSource.from =
                               IF fpgaOk THEN Wanted(clockControl) ELSE "LOCAL"
                        /\ crossbar = Inputs(clkSource) \/ muxOutage)

\* The same without the exception (fails: after an outage that the driver has not seen
\* the expander's pins are inputs, RUN and PAUSE never detect it again, and the driver
\* goes on reporting NORMAL).
OutputsServe == <>[]muxGood => <>[](crossbar = Inputs(clkSource))

\* The selectors for ADC and TDC follow the source too (fails: their byte is written
\* to port B).
SelectorsFollow ==
    muxDev.state = "PAUSE" /\ ~setFailed /\ ~muxOutage => portA = Selectors(clkSource)
=============================================================================
