---------------------------- MODULE BoardThermal ----------------------------
(***************************************************************************)
(* The whole loop of the powermon task on a TTVXS board                    *)
(* (src/app/ttvxs/src/rtos/app_task_powermon.c): it samples whether there  *)
(* is power, runs the thermometers with it, hands their values to the      *)
(* thermal shutdown detector, and then runs the power monitor of module    *)
(* Powermon.  The loop closes a circle: the power monitor's                *)
(* system_power_present decides whether the VCXO thermometer is powered,   *)
(* its validity decides whether the detector can recover, and the detector *)
(* decides whether the power monitor may leave OVERHEAT.                   *)
(***************************************************************************)
EXTENDS Powermon, Thset

CONSTANTS
    ThermShuts,      \* the board stops its VCXO thermometer without power
                     \* (BOARD_TTVXS and BOARD_CRU16 do, ADC64VE does not)
    ThermAnswers     \* the answers a thermometer may give on its bus

ASSUME ThermAnswersAssumption == ThermAnswers \subseteq BOOLEAN
ASSUME ThermShutsAssumption == ThermShuts \in BOOLEAN

VARIABLES
    therm1,         \* the MAX31725 at the VCXO, powered with the board
    therm2,         \* the TMP421 with a board and an FPGA channel
    period,         \* time since thermal_shutdown_start_tick
    cleanTicks,     \* history: time since the detector last saw every channel
                    \* valid and none hot
    heat,           \* environment: the channels that are hot now
    sampled         \* power_on once the loop has sampled it, else "no"

thermVars == <<therm1, therm2, period, cleanTicks>>
boardVars == <<vars, thermVars, heat, sampled>>

Channels1 == {"VCXO"}
Channels2 == {"Board", "FPGA"}
Channels == Channels1 \cup Channels2

-----------------------------------------------------------------------------

\* The task has the highest priority, so it samples power_on for the first time
\* before the CLI task has run at all.
BoardInit ==
    /\ Init
    /\ therm1 = ThermInit
    /\ therm2 = ThermInit
    /\ period = 0
    /\ cleanTicks = 0
    /\ heat = {}
    /\ sampled = "on"

\* The top of the loop: power_on is computed here and used further down, after
\* bus transfers during which the CLI task may toggle enable_power.
SamplePower ==
    /\ sampled = "no"
    /\ sampled' = IF enablePower /\ powerPresent THEN "on" ELSE "off"
    /\ UNCHANGED <<vars, thermVars, heat>>

MayAnswer == IF healthy THEN {TRUE} ELSE ThermAnswers

Valid(t1, t2) ==
    (IF t1.status = "NORMAL" THEN Channels1 ELSE {}) \cup
    (IF t2.status = "NORMAL" THEN Channels2 ELSE {})

\* The rest of the loop: thermometers, detector, power monitor, delay.
LoopBody(d) ==
    /\ sampled # "no"
    /\ sampled' = "no"
    /\ \E a1 \in MayAnswer, a2 \in MayAnswer :
         LET t1    == ThermRun(therm1, sampled = "on", ThermShuts, a1,
                               heat \cap Channels1)
             t2    == ThermRun(therm2, TRUE, TRUE, a2, heat \cap Channels2)
             valid == Valid(t1, t2)
             hot   == t1.hot \cup t2.hot
             th    == ThsetNext(thset, period, Channels, valid, hot)
             started == thset = "STATE_0" /\ th = "STATE_1"
         IN  /\ therm1' = Elapse(t1, d)
             /\ therm2' = Elapse(t2, d)
             /\ period' = SaturateTherm(IF started THEN d ELSE period + d)
             /\ cleanTicks' = SaturateTherm(
                    IF RecoverCondition(Channels, valid, hot) THEN d
                    ELSE cleanTicks + d)
             /\ Iteration(d, th)
    /\ UNCHANGED heat

\* A temperature crosses its limit.  Nothing reads it before the next iteration
\* of the loop, so it does so between two of them.
HeatChanges ==
    /\ ~healthy /\ sampled = "no"
    /\ \E c \in Channels :
         heat' = IF c \in heat THEN heat \ {c} ELSE heat \cup {c}
    /\ UNCHANGED <<vars, thermVars, sampled>>

BoardHealthy == BecomeHealthy /\ heat' = {} /\ UNCHANGED <<thermVars, sampled>>

BoardToggle == TogglePower /\ UNCHANGED <<thermVars, heat, sampled>>

Loop == SamplePower \/ \E d \in Durations : LoopBody(d)

BoardNext == Loop \/ HeatChanges \/ BoardHealthy \/ BoardToggle

BoardSpec == BoardInit /\ [][BoardNext]_boardVars

BoardFairSpec == BoardSpec /\ WF_boardVars(Loop)

-----------------------------------------------------------------------------
(* Properties                                                              *)

\* Every variable of the loop stays in its type.
BoardTypeOK ==
    /\ TypeOK
    /\ therm1 \in Thermometer(Channels1)
    /\ therm2 \in Thermometer(Channels2)
    /\ period \in 0..MaxThermTicks
    /\ cleanTicks \in 0..MaxThermTicks
    /\ heat \subseteq Channels
    /\ sampled \in {"no", "on", "off"}

\* The loop implements the power monitor with its arbitrary thermal input: the
\* real detector moves one state at a time, the real thermometers feed it any
\* value, and nothing of the power monitor changes between its iterations.
Abstract == INSTANCE Powermon WITH healthy <- FALSE
ImplementsPowermon == Abstract!Spec

\* The latch is never set within ShutdownPeriod of a clean reading (all channels
\* valid, none hot), however the thermometers fail, restart or keep old values.
TripNeedsPeriod == thset = "STATE_2" => cleanTicks >= ShutdownPeriod

\* A board that stays hot at two channels and enabled ends up in OVERHEAT, and
\* one cool reading of a single channel does not get it out.
SustainedHeatTrips ==
    <>[](Channels2 \subseteq heat /\ enablePower) => <>[](pmState = "OVERHEAT")

\* Once the board is cool and working for good, OVERHEAT is left for good: "Recovering
\* from thermal shutdown".
OverheatRecovers == <>[](healthy /\ enablePower) => <>[](pmState # "OVERHEAT")
=============================================================================
