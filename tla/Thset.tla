-------------------------------- MODULE Thset -------------------------------
(***************************************************************************)
(* The thermometers and the thermal shutdown detector, as functions from   *)
(* the state before one run to the state after it:                         *)
(*   ThermRun   dev_max31725_run and dev_tmp421_run, which are the same    *)
(*              state machine but for what they make of power_on           *)
(*   ThsetNext  dev_thset_run                                              *)
(* A temperature is abstracted to hot (above tempMaxCrit) or not.          *)
(***************************************************************************)
EXTENDS DevFsm, FiniteSets

CONSTANTS
    ThermDetectTimeout,  \* DETECT_TIMEOUT_TICKS of the thermometers
    ThermErrorDelay,     \* ERROR_DELAY_TICKS
    ThermPollDelay,      \* POLL_DELAY_TICKS
    ShutdownPeriod,      \* thermal_shutdown_min_period_ticks
    MaxThermTicks        \* saturation of the elapsed times

ASSUME ThermAssumption ==
    /\ MaxThermTicks \in Nat
    /\ \A t \in {ThermDetectTimeout, ThermErrorDelay, ThermPollDelay, ShutdownPeriod} :
          t \in Nat /\ t < MaxThermTicks

ThermStatus == {"UNKNOWN", "NORMAL", "FAIL"}

\* A thermometer: its dev_fsm_t, its device_status, and the channels whose last
\* measured value is hot.
Thermometer(channels) ==
    [state: FsmState, ticks: 0..MaxThermTicks, status: ThermStatus,
     hot: SUBSET channels]

ThermInit == [state |-> "SHUTDOWN", ticks |-> 0, status |-> "UNKNOWN", hot |-> {}]

SaturateTherm(t) == IF t > MaxThermTicks THEN MaxThermTicks ELSE t

\* Time passes until the next run.
Elapse(t, d) == [t EXCEPT !.ticks = SaturateTherm(@ + d)]

\* One run, in which the chip answers its bus or not, and would show hot.  Some
\* boards stop the thermometer when there is no power, the others only start it
\* when there is.
ThermRun(thermometer, powered, stops, answers, hot) ==
    LET t == IF stops /\ ~powered THEN Change(thermometer, "SHUTDOWN")
             ELSE thermometer
    IN  CASE t.state = "SHUTDOWN" ->
               [Change(t, IF powered THEN "RESET" ELSE "SHUTDOWN")
                  EXCEPT !.status = "UNKNOWN"]
          [] t.state = "RESET" ->
               Change(t, IF answers THEN "RUN"
                         ELSE IF t.ticks > ThermDetectTimeout THEN "ERROR"
                         ELSE "RESET")
          [] t.state = "RUN" ->
               IF answers
                 THEN [Change(t, "PAUSE") EXCEPT !.status = "NORMAL", !.hot = hot]
                 ELSE Change(t, "ERROR")
          [] t.state = "PAUSE" ->
               Change(t, IF t.ticks > ThermPollDelay THEN "RUN" ELSE "PAUSE")
          [] t.state = "ERROR" ->
               [Change(t, IF t.ticks > ThermErrorDelay THEN "RESET" ELSE "ERROR")
                  EXCEPT !.status = "FAIL"]

-----------------------------------------------------------------------------
(* The detector sees the channels of all its sensors, the valid ones among *)
(* them, and the hot ones.                                                 *)

ShutdownCondition(valid, hot) == Cardinality(valid \cap hot) >= 2
RecoverOnOneCool(all, valid, hot) == valid \ hot # {}                \* mutant
RecoverCondition(all, valid, hot) == valid = all /\ valid \cap hot = {}

\* Where each state of the detector goes; period is the time since
\* thermal_shutdown_start_tick.
FromState0(valid, hot) ==
    IF ShutdownCondition(valid, hot) THEN "STATE_1" ELSE "STATE_0"

\* Mutant: a critical period is not broken off when the temperatures recover.
State1NeverClears(period, all, valid, hot) ==
    IF period >= ShutdownPeriod THEN "STATE_2" ELSE "STATE_1"

FromState1(period, all, valid, hot) ==
    IF RecoverCondition(all, valid, hot) THEN "STATE_0"
    ELSE IF period >= ShutdownPeriod THEN "STATE_2" ELSE "STATE_1"

\* Mutant: the latch is for good.
State2Latches(all, valid, hot) == "STATE_2"

FromState2(all, valid, hot) ==
    IF RecoverCondition(all, valid, hot) THEN "STATE_0" ELSE "STATE_2"

\* Mutant: a missing break lets STATE_0 fall through into STATE_1.
ThsetFallsThrough(th, period, all, valid, hot) ==
    IF Cardinality(valid) < 2 THEN th
    ELSE IF th = "STATE_2" THEN FromState2(all, valid, hot)
    ELSE IF th = "STATE_0" /\ FromState0(valid, hot) = "STATE_0" THEN "STATE_0"
    ELSE FromState1(period, all, valid, hot)

\* dev_thset_run: with fewer than two valid channels it does nothing.
ThsetNext(th, period, all, valid, hot) ==
    IF Cardinality(valid) < 2 THEN th
    ELSE CASE th = "STATE_0" -> FromState0(valid, hot)
           [] th = "STATE_1" -> FromState1(period, all, valid, hot)
           [] th = "STATE_2" -> FromState2(all, valid, hot)
=============================================================================
