------------------------------ MODULE Powermon ------------------------------
(***************************************************************************)
(* The power monitor of the board management controller: one High priority *)
(* FreeRTOS task runs task_powermon_run() in a loop                        *)
(* (src/tasks/base/app_task_powermon_impl.c).  Each iteration steps the    *)
(* power state machine (pmState), writes the supply switches, steps the    *)
(* sensor monitor state machine (monState, dev_pm_sensors_fsm.c) when a    *)
(* read is due, and publishes system_power_present to the other tasks.     *)
(*                                                                         *)
(* Time is counted in iterations: an iteration takes d \in Durations units *)
(* and the two tick counters of the code (stateStartTick, sensorReadTick)  *)
(* are kept as the time elapsed since them, saturating at MaxTicks.        *)
(***************************************************************************)
EXTENDS Integers, FiniteSets

CONSTANTS
    N,               \* number of INA226 sensors on the board, 1..N in bus order
    InputSensor,     \* the sensor of the input supply (VXS-1 5V on TTVXS)
    Optional,        \* sensors with isOptional set
    Switched,        \* sensors of supplies behind a power switch (monIsOn)
    InitTimeout,     \* INIT_TIMEOUT_TICKS
    RampTimeout,     \* RAMP_TIMEOUT_TICKS
    PowerfailDelay,  \* POWERFAIL_DELAY_TICKS
    ErrorDelay,      \* ERROR_DELAY_TICKS
    DetectTimeout,   \* DETECT_TIMEOUT_TICKS
    ReadIntervalRun, \* sensor_read_interval_run
    ReadIntervalRamp,\* sensor_read_interval_ramp
    Voltages,        \* the readings a powered sensor may show, by their class
    Durations,       \* the times one iteration may take
    MaxTicks         \* saturation of the elapsed time counters

Sensors == 1..N

ASSUME NAssumption == N \in Nat \ {0}
ASSUME SensorAssumption ==
    /\ InputSensor \in Sensors
    /\ Optional \subseteq Sensors
    /\ Switched \subseteq Sensors
    /\ Voltages \subseteq {"NORMAL", "WARNING", "CRITICAL"}
ASSUME TickAssumption ==
    /\ MaxTicks \in Nat
    /\ Durations \subseteq 1..MaxTicks
    /\ \A t \in {InitTimeout, RampTimeout, PowerfailDelay, ErrorDelay,
                 DetectTimeout, ReadIntervalRun, ReadIntervalRamp} :
          t \in Nat /\ t < MaxTicks

PmState == {"INIT", "WAITINPUT", "STANDBY", "RAMP", "RUN",
            "PWRFAIL", "FAILWAIT", "OFF", "OVERHEAT", "ERROR"}
MonState == {"INIT", "DETECT", "READ", "ERROR"}
DeviceStatus == {"UNKNOWN", "NORMAL", "FAIL"}
SensorStatus == {"UNKNOWN", "NORMAL", "WARNING", "CRITICAL"}
ThsetState == {"STATE_0", "STATE_1", "STATE_2"}

VARIABLES
    pmState,        \* priv->pmState
    monState,       \* priv->monState
    stateTicks,     \* time since priv->stateStartTick, the ONE start tick
                    \* that both state machines set and read
    readTicks,      \* time since sensorReadTick
    sw,             \* level written to the supply switch pins
    device,         \* sensors->arr[s].dev.device_status
    status,         \* sensors->arr[s].dev.sensor
    oldDetected,    \* old_num_detected
    stableCount,    \* stable_detect_count, saturating at StableLimit
    powerPresent,   \* system_power_present
    enablePower,    \* enable_power, toggled by the CLI task
    thset,          \* state of the thermal shutdown detector
    healthy         \* environment: the hardware works from now on

monVars == <<device, status, oldDetected, stableCount>>
vars == <<pmState, monState, stateTicks, readTicks, sw, device, status,
          oldDetected, stableCount, powerPresent, enablePower, thset, healthy>>

StableLimit == 2      \* stable_detect_count >= 2
DetectErrors == 2     \* monDetect stops once errors > 2
ReadErrors == 2       \* monReadValues stops reading once err >= 2

Saturate(t) == IF t > MaxTicks THEN MaxTicks ELSE t

-----------------------------------------------------------------------------
(* What the sensors say                                                    *)

\* pm_sensor_status
SensorStatusOf(dev, stat, s) ==
    IF dev[s] = "NORMAL" THEN stat[s] ELSE "UNKNOWN"

InputNormal == SensorStatusOf(device, status, InputSensor) = "NORMAL"
InputCritical == SensorStatusOf(device, status, InputSensor) = "CRITICAL"

\* Mutant: the optional sensors count too.
AllValid(dev, stat) ==
    \A s \in Sensors : SensorStatusOf(dev, stat, s) \in {"NORMAL", "WARNING"}

CriticalValid(dev, stat) ==
    \A s \in Sensors \ Optional :
        SensorStatusOf(dev, stat, s) \in {"NORMAL", "WARNING"}

CriticalFailure ==
    \E s \in Sensors \ Optional :
        SensorStatusOf(device, status, s) = "CRITICAL"

\* The sensors that answer during one bus scan, and the voltages they show.
\* A working board with its switches off shows its switched supplies at 0 V.
Answers == IF healthy THEN {Sensors} ELSE SUBSET Sensors

Readings ==
    IF healthy
      THEN {[s \in Sensors |-> IF s \in Switched /\ ~sw'
                                 THEN "CRITICAL" ELSE "NORMAL"]}
      ELSE [Sensors -> Voltages]

-----------------------------------------------------------------------------
(* The power state machine: the switch statement of task_powermon_run.     *)

(* th is the state of the thermal detector, which the loop has just run.   *)

\* A latched thermal shutdown overrides the state before the switch.
Effective(th) == IF th = "STATE_2" THEN "OVERHEAT" ELSE pmState

Goto(to) == pmState' = to /\ UNCHANGED sw
SwitchAndGoto(level, to) == sw' = level /\ pmState' = to

PmInit(th) ==
    /\ Effective(th) = "INIT"
    /\ IF enablePower THEN SwitchAndGoto(TRUE, "WAITINPUT") ELSE Goto("OFF")

PmWaitInput(th) ==
    /\ Effective(th) = "WAITINPUT"
    /\ \/ ~enablePower /\ Goto("OFF")
       \/ enablePower /\ InputNormal /\ Goto("RAMP")
       \/ enablePower /\ ~InputNormal /\ stateTicks > InitTimeout /\ Goto("OFF")
       \/ enablePower /\ ~InputNormal /\ stateTicks <= InitTimeout
                      /\ Goto("WAITINPUT")

PmStandby(th) ==
    /\ Effective(th) = "STANDBY"
    /\ IF enablePower /\ InputNormal
         THEN SwitchAndGoto(TRUE, "RAMP")
         ELSE Goto("STANDBY")

\* Leaving for RUN restarts the timer, so the timeout test that follows it in
\* the code can only fire when the supplies are not yet valid.
PmRamp(th) ==
    /\ Effective(th) = "RAMP"
    /\ LET ok == CriticalValid(device, status)
       IN  \/ ~enablePower /\ Goto("OFF")
           \/ enablePower /\ ok /\ Goto("RUN")
           \/ enablePower /\ ~ok /\ stateTicks > RampTimeout /\ Goto("PWRFAIL")
           \/ enablePower /\ ~ok /\ stateTicks <= RampTimeout /\ Goto("RAMP")

\* Mutant: a failed sensor monitor goes unnoticed.
PmRunIgnoresMonitor(th) ==
    /\ Effective(th) = "RUN"
    /\ \/ (~enablePower \/ InputCritical) /\ Goto("OFF")
       \/ enablePower /\ ~InputCritical
                      /\ Goto(IF CriticalFailure THEN "PWRFAIL" ELSE "RUN")

\* Mutant: the command of the operator goes unnoticed.
PmRunIgnoresOperator(th) ==
    /\ Effective(th) = "RUN"
    /\ IF InputCritical THEN Goto("OFF")
       ELSE Goto(IF CriticalFailure THEN "PWRFAIL"
                 ELSE IF monState = "READ" THEN "RUN" ELSE "ERROR")

PmRun(th) ==
    /\ Effective(th) = "RUN"
    /\ \/ (~enablePower \/ InputCritical) /\ Goto("OFF")
       \/ enablePower /\ ~InputCritical /\ CriticalFailure /\ Goto("PWRFAIL")
       \/ enablePower /\ ~InputCritical /\ ~CriticalFailure
                      /\ Goto(IF monState = "READ" THEN "RUN" ELSE "ERROR")

\* clear_thermal_shutdown drops the latch when the operator switches off.
PmOverheat(th) ==
    /\ Effective(th) = "OVERHEAT"
    /\ Goto(IF ~enablePower THEN "OFF"
            ELSE IF th = "STATE_0" THEN "STANDBY" ELSE "OVERHEAT")

ThsetAfterPm(th) ==
    IF Effective(th) = "OVERHEAT" /\ ~enablePower THEN "STATE_0" ELSE th

\* Mutant: the switches are not written.
PmPwrFailKeepsSupplies(th) == Effective(th) = "PWRFAIL" /\ Goto("FAILWAIT")

PmPwrFail(th) == Effective(th) = "PWRFAIL" /\ SwitchAndGoto(FALSE, "FAILWAIT")

PmFailWait(th) ==
    /\ Effective(th) = "FAILWAIT"
    /\ Goto(IF stateTicks > PowerfailDelay THEN "STANDBY" ELSE "FAILWAIT")

PmError(th) ==
    /\ Effective(th) = "ERROR"
    /\ Goto(IF stateTicks > ErrorDelay THEN "OFF" ELSE "ERROR")

\* Mutant: the switches are not written.
PmOffKeepsSupplies(th) == Effective(th) = "OFF" /\ Goto("STANDBY")

PmOff(th) == Effective(th) = "OFF" /\ SwitchAndGoto(FALSE, "STANDBY")

PmStep(th) ==
    \/ PmInit(th) \/ PmWaitInput(th) \/ PmStandby(th) \/ PmRamp(th)
    \/ PmRun(th) \/ PmOverheat(th) \/ PmPwrFail(th) \/ PmFailWait(th)
    \/ PmError(th) \/ PmOff(th)

\* Every change_state() to another state restarts the tick counter.
PmRestartsTimer(th) == pmState' # Effective(th) \/ Effective(th) # pmState
TicksAfterPm(th) == IF PmRestartsTimer(th) THEN 0 ELSE stateTicks

\* pm_clear_all in state INIT sends the sensor monitor back to INIT.
MonAfterPm(th) == IF Effective(th) = "INIT" THEN "INIT" ELSE monState

-----------------------------------------------------------------------------
(* The sensor monitor state machine: runMon.                               *)

\* The sensors monDetect reaches when only those in ans answer: it gives up
\* after more than DetectErrors silent ones.
Probed(ans) ==
    {s \in Sensors : Cardinality({r \in 1..(s-1) : r \notin ans}) <= DetectErrors}

\* The sensors monReadValues still reads: present ones, as long as fewer than
\* ReadErrors present ones before them failed to answer.
FailedBefore(ans, s) == {r \in 1..(s-1) : device[r] = "NORMAL" /\ r \notin ans}
StillReading(ans) ==
    {s \in Sensors : Cardinality(FailedBefore(ans, s)) < ReadErrors}
ReadFailed(ans) ==
    {s \in StillReading(ans) : device[s] = "NORMAL" /\ s \notin ans}

MonInit(th) == MonAfterPm(th) = "INIT" /\ monState' = "DETECT" /\ UNCHANGED monVars

MonDetect(th) ==
    /\ MonAfterPm(th) = "DETECT"
    /\ \E ans \in Answers :
         LET probed   == Probed(ans)
             detected == Cardinality(probed \cap ans)
             stable   == IF detected # oldDetected THEN 0
                         ELSE IF stableCount < StableLimit
                                THEN stableCount + 1 ELSE StableLimit
             timeout  == TicksAfterPm(th) > DetectTimeout
         IN  /\ device' = [s \in Sensors |->
                              IF s \notin probed THEN device[s]
                              ELSE IF s \in ans THEN "NORMAL" ELSE "FAIL"]
             /\ UNCHANGED status
             /\ \/ /\ detected = 0
                   /\ monState' = "INIT"
                   /\ UNCHANGED <<oldDetected, stableCount>>
                \/ /\ detected # 0
                   /\ stableCount' = stable
                   /\ oldDetected' = detected
                   /\ monState' = IF stable >= StableLimit \/ timeout
                                    THEN "READ" ELSE "DETECT"

MonRead(th) ==
    /\ MonAfterPm(th) = "READ"
    /\ \E ans \in Answers, volt \in Readings :
         LET reading == StillReading(ans)
             failed  == ReadFailed(ans)
         IN  /\ device' = [s \in Sensors |->
                              IF s \in failed THEN "FAIL" ELSE device[s]]
             /\ status' = [s \in Sensors |->
                              IF s \in failed \/ s \notin reading THEN "UNKNOWN"
                              ELSE IF device[s] = "NORMAL" THEN volt[s]
                              ELSE status[s]]
             /\ monState' = IF failed = {} THEN "READ" ELSE "ERROR"
             /\ UNCHANGED <<oldDetected, stableCount>>

MonError(th) == MonAfterPm(th) = "ERROR" /\ monState' = "INIT" /\ UNCHANGED monVars

MonRuns(th) == MonInit(th) \/ MonDetect(th) \/ MonRead(th) \/ MonError(th)
MonSkips(th) == monState' = MonAfterPm(th) /\ UNCHANGED monVars

\* The monitor runs when the read interval of the state just entered is over.
MonDue ==
    readTicks > (IF pmState' = "RAMP" THEN ReadIntervalRamp ELSE ReadIntervalRun)
MonStep(th) == IF MonDue THEN MonRuns(th) ELSE MonSkips(th)

\* runMon restarts the same start tick that the power state machine times with.
TicksAfterMon(th) == IF monState' # MonAfterPm(th) THEN 0 ELSE TicksAfterPm(th)

-----------------------------------------------------------------------------
(* The actions                                                             *)

Init ==
    /\ pmState = "INIT"
    /\ monState = "INIT"
    /\ stateTicks = 0
    /\ readTicks = 0
    /\ sw = FALSE
    /\ device = [s \in Sensors |-> "UNKNOWN"]
    /\ status = [s \in Sensors |-> "UNKNOWN"]
    /\ oldDetected = 0
    /\ stableCount = 0
    /\ powerPresent = TRUE
    /\ enablePower = TRUE
    /\ thset = "STATE_0"
    /\ healthy = FALSE

\* dev_thset_run, once per iteration: up one state while the temperature is
\* high, back to STATE_0 when it is normal.  Module Thset has the details.
ThsetMoves ==
    IF healthy THEN {"STATE_0"}
    ELSE {thset, "STATE_0", IF thset = "STATE_0" THEN "STATE_1" ELSE "STATE_2"}

\* One iteration of the task's loop, taking d: the thermal detector moves to th,
\* then task_powermon_run.
Iteration(d, th) ==
    /\ PmStep(th)
    /\ thset' = ThsetAfterPm(th)
    /\ MonStep(th)
    /\ stateTicks' = Saturate(TicksAfterMon(th) + d)
    /\ readTicks' = Saturate(IF MonDue THEN d ELSE readTicks + d)
    /\ powerPresent' = CriticalValid(device', status')
    /\ UNCHANGED <<enablePower, healthy>>

\* The operator presses 'p' (src/app/cli.c).
TogglePower ==
    /\ enablePower' = ~enablePower
    /\ UNCHANGED <<pmState, monState, stateTicks, readTicks, sw, device, status,
                   oldDetected, stableCount, powerPresent, thset, healthy>>

\* The last hardware fault is over: every sensor answers, every supply that is
\* switched on is in range, and every temperature is normal.
BecomeHealthy ==
    /\ ~healthy
    /\ healthy' = TRUE
    /\ UNCHANGED <<pmState, monState, stateTicks, readTicks, sw, device, status,
                   oldDetected, stableCount, powerPresent, enablePower, thset>>

Powermon == \E d \in Durations, th \in ThsetMoves : Iteration(d, th)

Next == Powermon \/ TogglePower \/ BecomeHealthy

Spec == Init /\ [][Next]_vars

\* The task has the highest priority of all and its loop blocks only in delays
\* and in bus transfers with a timeout.  Nothing is assumed of the operator.
FairSpec == Spec /\ WF_vars(Powermon)

-----------------------------------------------------------------------------
(* Properties                                                              *)

\* Every variable stays in its type.
TypeOK ==
    /\ pmState \in PmState
    /\ monState \in MonState
    /\ stateTicks \in 0..MaxTicks
    /\ readTicks \in 0..MaxTicks
    /\ sw \in BOOLEAN
    /\ device \in [Sensors -> DeviceStatus]
    /\ status \in [Sensors -> SensorStatus]
    /\ oldDetected \in 0..N
    /\ stableCount \in 0..StableLimit
    /\ powerPresent \in BOOLEAN
    /\ enablePower \in BOOLEAN
    /\ thset \in ThsetState
    /\ healthy \in BOOLEAN

\* The supplies are switched on in every state that waits for, ramps, uses or
\* diagnoses them, and off during the penalty wait that follows a failure.
\* Each state is reached over several paths, and only some of them write the
\* switches (update_power_switches in task_powermon_run).
SwitchesMatchState ==
    /\ pmState \in {"WAITINPUT", "RAMP", "RUN", "ERROR"} => sw
    /\ pmState = "FAILWAIT" => ~sw

\* STANDBY is entered with the supplies off from every state but OVERHEAT: the
\* states that lead there (OFF, FAILWAIT) have switched off one or several
\* iterations earlier, and nothing in between may have switched on again.
StandbyIsOff ==
    [][pmState' = "STANDBY" /\ pmState \notin {"STANDBY", "OVERHEAT"}
          => ~sw']_vars

\* RUN does not outlive the sensor monitor.  The monitor may still be detecting
\* in the iteration that enters RUN (the ramp test uses the last known status of
\* each sensor), and may fail in a later one, but the very next iteration leaves
\* RUN, before the monitor can restart unnoticed.
RunNeedsMonitor ==
    pmState = "RUN" /\ monState \notin {"READ", "ERROR"} => stateTicks \in Durations

\* The monitor reads, but without a sensor that did not answer in time when it
\* detected them: monReadValues passes over it, so nothing ever detects it again.
SensorWrittenOff ==
    monState = "READ" /\ \E s \in Sensors \ Optional : device[s] = "FAIL"

\* Once the hardware works for good and the operator leaves power enabled, the
\* board ends up in RUN and stays there, whatever happened before: no state, no
\* timeout and no monitor restart traps it, other than a critical sensor that is
\* written off for good.
Recovers ==
    <>[](healthy /\ enablePower) => <>[](pmState = "RUN") \/ <>[]SensorWrittenOff

\* Once the operator leaves power disabled, the supplies end up off ("Received
\* command power OFF").
PowerOffHonoured == <>[](healthy /\ ~enablePower) => <>[]~sw

\* STANDBY with the supplies on, which is how OVERHEAT may leave it, is the only
\* place where that command is lost: every other state notices it, at any moment and
\* in any state of the sensor monitor, and sees it through.
\* Nor do other tasks go on seeing power when the supplies stay off: the monitor gets
\* around to reading them from whatever state it was in.
PowerOffHonouredElsewhere ==
    /\ <>[](healthy /\ ~enablePower) => <>[]~sw \/ <>[](pmState = "STANDBY" /\ sw)
    /\ <>[](healthy /\ ~sw) => <>[]~powerPresent

\* Each of the states with a timeout is left at last.
TimeoutsFire ==
    /\ (pmState = "WAITINPUT") ~> (pmState # "WAITINPUT")
    /\ (pmState = "RAMP") ~> (pmState # "RAMP")
    /\ (pmState = "ERROR") ~> (pmState # "ERROR")
=============================================================================
