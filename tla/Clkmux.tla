------------------------------- MODULE Clkmux -------------------------------
(***************************************************************************)
(* The driver of the clock multiplexer, dev_ttvxs_clkmux_run               *)
(* (src/dev/ttvxs_clkmux), as a function from the state before one run to  *)
(* the state after it.  dev_adc64ve_clkmux_run and dev_cru16_clkmux_run    *)
(* differ in what follows a failed setup; module TqdcClkmux has the one of *)
(* TQDC, which counts its failed detections.                               *)
(*                                                                         *)
(* The multiplexer is set through an MCP23017 port expander: detecting it  *)
(* makes its pins outputs, setting it writes the switches to them.         *)
(***************************************************************************)
EXTENDS DevFsm

CONSTANTS
    ClkDetectTimeout,  \* DETECT_TIMEOUT_TICKS
    ClkErrorDelay,     \* ERROR_DELAY_TICKS
    ClkPollDelay,      \* POLL_DELAY_TICKS
    ClkBreaks,         \* a failed setup leaves the RUN case at once
    MaxClkTicks        \* saturation of the elapsed time

ASSUME ClkBreaksAssumption == ClkBreaks \in BOOLEAN
ASSUME ClkTicksAssumption ==
    /\ MaxClkTicks \in Nat
    /\ \A t \in {ClkDetectTimeout, ClkErrorDelay, ClkPollDelay} :
          t \in Nat /\ t < MaxClkTicks

ClkStatus == {"UNKNOWN", "NORMAL", "FAIL"}
ClkmuxDevice == [state : FsmState, ticks : 0..MaxClkTicks, status : ClkStatus]

ClkInit == [state |-> "SHUTDOWN", ticks |-> 0, status |-> "UNKNOWN"]

ClkSaturate(t) == IF t > MaxClkTicks THEN MaxClkTicks ELSE t

\* Mutant: a failed setup is taken for a good one.
ClkSetupAnyway(c, works) == [Change(c, "PAUSE") EXCEPT !.status = "NORMAL"]

\* The case RUN, when the setup succeeds or not.  Without the break the ERROR
\* state is overwritten.
ClkSetup(c, works) ==
    IF ~works /\ ClkBreaks THEN Change(c, "ERROR")
    ELSE [Change(c, "PAUSE") EXCEPT !.status = "NORMAL"]

\* One run, in which the expander's transfers succeed or not.
ClkRun(clkmux, powered, works) ==
    LET c == IF powered THEN clkmux ELSE Change(clkmux, "SHUTDOWN")
    IN  CASE c.state = "SHUTDOWN" ->
               [Change(c, IF powered THEN "RESET" ELSE "SHUTDOWN")
                  EXCEPT !.status = "UNKNOWN"]
          [] c.state = "RESET" ->
               [Change(c, IF works THEN "RUN"
                          ELSE IF c.ticks > ClkDetectTimeout THEN "ERROR"
                          ELSE "RESET")
                  EXCEPT !.status = "UNKNOWN"]
          [] c.state = "RUN" -> ClkSetup(c, works)
          [] c.state = "PAUSE" ->
               Change(c, IF c.ticks > ClkPollDelay THEN "RUN" ELSE "PAUSE")
          [] c.state = "ERROR" ->
               [Change(c, IF c.ticks > ClkErrorDelay THEN "RESET" ELSE "ERROR")
                  EXCEPT !.status = "FAIL"]

\* What a run has the expander do.
Detects(clkmux, powered) == powered /\ clkmux.state = "RESET"
Sets(clkmux, powered) == powered /\ clkmux.state = "RUN"

\* ttvxs_clkmux_running
ClkRunning(clkmux) == clkmux.state \in {"RUN", "PAUSE"}
=============================================================================
