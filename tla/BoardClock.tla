----------------------------- MODULE BoardClock -----------------------------
(***************************************************************************)
(* How the board gets its clock: the PLL task                              *)
(* (src/app/ttvxs/src/rtos/app_task_pll.c) runs the clock multiplexer and  *)
(* the PLL in a loop, each with the power as it finds it, and publishes    *)
(* main_clock_ready; the main task (app_task_main_impl.c) turns it and the *)
(* power into the powergood pin of the board.  Power comes and goes under  *)
(* both of them, as the power monitor and the operator have it.            *)
(***************************************************************************)
EXTENDS Ad9545, Clkmux

VARIABLES
    enablePower,     \* enable_power
    powerPresent,    \* system_power_present
    clkmux,          \* the dev.fsm and device_status of the multiplexer
    pc,              \* what the PLL task does next
    mainClockReady,  \* main_clock_ready
    powergood,       \* the pin, and old_clock_ready
    mux,             \* environment: the port expander and its multiplexer
    unseen           \* history: the expander lost its registers since SHUTDOWN

boardVars == <<pllVars, enablePower, powerPresent, clkmux, pc, mainClockReady,
               powergood, mux, unseen>>

PowerOn == enablePower /\ powerPresent

-----------------------------------------------------------------------------

ClockInit ==
    /\ PllInit
    /\ enablePower = TRUE
    /\ powerPresent = TRUE
    /\ clkmux = ClkInit
    /\ pc = "clkmux"
    /\ mainClockReady = FALSE
    /\ powergood = FALSE
    /\ mux = "reset"
    /\ unseen = FALSE

\* The expander's registers after a run: a failed setup may have written any of
\* them, a setup is of no use while the pins are inputs.
MuxAfter(powered, works) ==
    IF Detects(clkmux, powered)
      THEN IF works THEN {IF mux = "reset" THEN "outputs" ELSE mux}
           ELSE IF mux = "reset" THEN {"reset", "outputs"} ELSE {mux}
    ELSE IF Sets(clkmux, powered) /\ mux # "reset"
      THEN IF works THEN {"set"} ELSE {"outputs"}
    ELSE {mux}

\* dev_ttvxs_clkmux_run
RunClkmux ==
    /\ pc = "clkmux" /\ pc' = "pll"
    /\ \E works \in (IF pllGood THEN {TRUE} ELSE BOOLEAN) :
          /\ clkmux' = ClkRun(clkmux, PowerOn, works)
          /\ mux' \in MuxAfter(PowerOn, works)
    /\ unseen' = (unseen /\ PowerOn)
    /\ UNCHANGED <<pllVars, enablePower, powerPresent, mainClockReady, powergood>>

\* dev_ad9545_run, in an iteration that takes d
RunPll(d) ==
    /\ pc = "pll" /\ pc' = "publish"
    /\ PllRun(PowerOn, d)
    /\ clkmux' = [clkmux EXCEPT !.ticks = ClkSaturate(@ + d)]
    /\ UNCHANGED <<enablePower, powerPresent, mainClockReady, powergood, mux, unseen>>

Publish ==
    /\ pc = "publish" /\ pc' = "clkmux"
    /\ mainClockReady' = (ClkRunning(clkmux) /\ pllState = "RUN")
    /\ UNCHANGED <<pllVars, enablePower, powerPresent, clkmux, powergood, mux, unseen>>

PllTaskStep == RunClkmux \/ (\E d \in PllDurations : RunPll(d)) \/ Publish

\* Mutant: the pin is only ever raised.
RaiseClockReady ==
    /\ powergood' = (powergood \/ (PowerOn /\ mainClockReady))
    /\ UNCHANGED <<pllVars, enablePower, powerPresent, clkmux, pc, mainClockReady,
                   mux, unseen>>

\* check_clock_ready
CheckClockReady ==
    /\ powergood' = (PowerOn /\ mainClockReady)
    /\ UNCHANGED <<pllVars, enablePower, powerPresent, clkmux, pc, mainClockReady,
                   mux, unseen>>

\* The operator or the power monitor switches; the supplies may have been off.
PowerChanges ==
    /\ ~pllGood
    /\ enablePower' \in BOOLEAN
    /\ powerPresent' \in BOOLEAN
    /\ \/ UNCHANGED <<pllVars, mux, unseen>>
       \/ /\ mux' = "reset" /\ unseen' = (clkmux.state # "SHUTDOWN")
          /\ PllOutage
    /\ UNCHANGED <<clkmux, pc, mainClockReady, powergood>>

\* From now on power stays as it is, and both chips answer.
BoardGood ==
    /\ PllBecomesGood
    /\ UNCHANGED <<enablePower, powerPresent, clkmux, pc, mainClockReady, powergood,
                   mux, unseen>>

ClockNext == PllTaskStep \/ CheckClockReady \/ PowerChanges \/ BoardGood

ClockSpec == ClockInit /\ [][ClockNext]_boardVars

\* Both tasks run in loops with a delay, and their transfers have timeouts.
ClockFairSpec ==
    ClockSpec /\ WF_boardVars(PllTaskStep) /\ WF_boardVars(CheckClockReady)

-----------------------------------------------------------------------------
(* Properties                                                              *)

\* Every variable stays in its type.
ClockTypeOK ==
    /\ PllTypeOK
    /\ enablePower \in BOOLEAN
    /\ powerPresent \in BOOLEAN
    /\ clkmux \in ClkmuxDevice
    /\ pc \in {"clkmux", "pll", "publish"}
    /\ mainClockReady \in BOOLEAN
    /\ powergood \in BOOLEAN
    /\ mux \in {"reset", "outputs", "set"}
    /\ unseen \in BOOLEAN

\* The driver that takes the multiplexer to be set up (status NORMAL, waiting in
\* PAUSE for the next setup) has set it up, unless the expander lost its registers
\* in an outage that the driver has not seen.
MuxIsSet == clkmux.state = "PAUSE" /\ ~unseen => mux = "set"

\* Once power stays on and both chips answer, the clock is ready for good, and the
\* pin says so; it comes through unless the driver missed an outage.  Once power
\* stays off, the pin and the ready flag are low for good.
ClockFollowsPower ==
    /\ <>[](pllGood /\ PowerOn)
          => <>[](mainClockReady /\ powergood /\ (mux = "set" \/ unseen))
    /\ <>[](pllGood /\ ~PowerOn) => <>[](~mainClockReady /\ ~powergood)

\* The clock comes through whatever outages there have been (fails: RUN and PAUSE never
\* detect the expander again, whose pins an unseen outage has made inputs).
MuxServes == <>[](pllGood /\ PowerOn) => <>[](mux = "set")
=============================================================================
