------------------------------- MODULE Ad9545 -------------------------------
(***************************************************************************)
(* The driver of the AD9545 clock synthesizer: dev_ad9545_run              *)
(* (src/dev/ad9545/dev_ad9545_fsm.c), which the PLL task calls in each     *)
(* iteration with whether the board has power.  It resets the chip, sets   *)
(* up its system clock, waits for its lock, sets up the rest and watches   *)
(* it; after an error it starts over, a limited number of times.           *)
(*                                                                         *)
(* The registers are abstracted to whether a transfer succeeds and to the  *)
(* two lock bits of the system clock.                                      *)
(***************************************************************************)
EXTENDS Naturals

CONSTANTS
    PllTimeout,      \* 2000 ticks, to find the chip and to see it lock
    PllErrorDelay,   \* 1000 ticks in ERROR
    PllFatalDelay,   \* 2000 ticks in FATAL
    RecoveryLimit,   \* 3 recoveries
    PllDurations,    \* the times one iteration of the PLL task may take
    MaxPllTicks      \* saturation of the elapsed time

ASSUME PllAssumption ==
    /\ RecoveryLimit \in Nat
    /\ MaxPllTicks \in Nat
    /\ PllDurations \subseteq 1..MaxPllTicks
    /\ \A t \in {PllTimeout, PllErrorDelay, PllFatalDelay} :
          t \in Nat /\ t < MaxPllTicks

VARIABLES
    pllState,       \* priv.fsm_state
    pllTicks,       \* time since priv.stateStartTick
    pllDevice,      \* dev.device_status
    sysclk,         \* priv.status.sysclk: not locked, locked, or also stable
    recoveryCount,  \* priv.recoveryCount
    pllEnable,      \* history: the argument of the last run
    failures,       \* history: entries of ERROR since the recoveries were
                    \* last counted from 0, up to RecoveryLimit + 3
    pllGood,        \* environment: the chip answers and locks from now on
    sysclkSet       \* environment: the chip has its system clock set up, and has
                    \* not been reset since

pllVars == <<pllState, pllTicks, pllDevice, sysclk, recoveryCount, pllEnable,
             failures, pllGood, sysclkSet>>

PllState == {"INIT", "RESET", "SETUP_SYSCLK", "SYSCLK_WAITLOCK", "SETUP",
             "RUN", "ERROR", "FATAL"}
SysClk == {"unlocked", "locked", "stable"}

\* The states in which the status registers are not read.
Quiet == {"INIT", "RESET", "ERROR", "FATAL"}

PllSaturate(t) == IF t > MaxPllTicks THEN MaxPllTicks ELSE t
FailuresCap == RecoveryLimit + 3
MayFail == IF pllGood THEN {FALSE} ELSE BOOLEAN

\* The recoveries are counted from 0 again, or go on.
ResetRecovery ==
    /\ recoveryCount' = 0
    /\ failures' = IF pllState' = "ERROR" THEN 1 ELSE 0
KeepRecovery ==
    /\ UNCHANGED recoveryCount
    /\ failures' = IF pllState' = "ERROR" /\ pllState # "ERROR" /\ failures < FailuresCap
                     THEN failures + 1 ELSE failures

\* What a run leaves of the system clock's setup, if it gets that far.
SysclkSetAfter == pllState = "SETUP_SYSCLK" \/ (sysclkSet /\ pllState # "RESET")

\* The registers may show any status, unless the chip works: then it locks when its
\* system clock has been set up, and never before.
Status == IF pllGood THEN {IF SysclkSetAfter THEN "stable" ELSE "unlocked"} ELSE SysClk

PllPhase ==
    CASE pllState = "INIT" -> "off"
      [] pllState = "RUN" -> "running"
      [] pllState = "ERROR" -> "failed"
      [] pllState = "FATAL" -> "fatal"
      [] OTHER -> "starting"

PllLife == INSTANCE PllLifecycle WITH recoveries <- recoveryCount, phase <- PllPhase

-----------------------------------------------------------------------------
(* A run ends with a look at the status registers; a failed transfer leads *)
(* to ERROR whatever state the switch statement has chosen.                *)

Read(to) ==
    IF to \in Quiet
      THEN pllState' = to /\ sysclk' = "unlocked"
      ELSE \/ pllState' = to /\ sysclk' \in Status
           \/ TRUE \in MayFail /\ pllState' = "ERROR"
             /\ sysclk' \in IF to = "RUN" THEN SysClk ELSE {sysclk}

\* A transfer of several registers: all of them, or an error.
Transfer(to) == Read(to) \/ (TRUE \in MayFail /\ Read("ERROR"))

RunInit ==
    /\ pllState = "INIT"
    /\ Transfer("RESET")
    /\ UNCHANGED pllDevice
    /\ KeepRecovery

RunReset ==
    /\ pllState = "RESET"
    /\ \/ /\ pllDevice' = "NORMAL"
          /\ Transfer("SETUP_SYSCLK")
       \/ /\ TRUE \in MayFail
          /\ pllDevice' = "FAIL"
          /\ Read(IF pllTicks > PllTimeout THEN "ERROR" ELSE "RESET")
    /\ KeepRecovery

RunSetupSysclk ==
    /\ pllState = "SETUP_SYSCLK"
    /\ Transfer("SYSCLK_WAITLOCK")
    /\ UNCHANGED pllDevice
    /\ KeepRecovery

\* A lock that comes with the timeout comes too late.
RunWaitLock ==
    /\ pllState = "SYSCLK_WAITLOCK"
    /\ Read(IF pllTicks > PllTimeout THEN "ERROR"
            ELSE IF sysclk = "stable" THEN "SETUP" ELSE "SYSCLK_WAITLOCK")
    /\ UNCHANGED pllDevice
    /\ KeepRecovery

RunSetup ==
    /\ pllState = "SETUP"
    /\ Transfer("RUN")
    /\ UNCHANGED pllDevice
    /\ KeepRecovery

\* Watching the lock, and the commands of module ClockShift.
RunRun ==
    /\ pllState = "RUN"
    /\ \/ sysclk = "unlocked" /\ Read("ERROR") /\ KeepRecovery
       \/ sysclk # "unlocked" /\ Read("RUN") /\ ResetRecovery
       \/ sysclk # "unlocked" /\ TRUE \in MayFail /\ Read("ERROR") /\ KeepRecovery
    /\ UNCHANGED pllDevice

RunError ==
    /\ pllState = "ERROR"
    /\ \/ /\ recoveryCount > RecoveryLimit
          /\ Read("FATAL")
          /\ KeepRecovery
       \/ /\ recoveryCount <= RecoveryLimit /\ pllTicks > PllErrorDelay
          /\ Read("INIT")
          /\ recoveryCount' = recoveryCount + 1
          /\ UNCHANGED failures
       \/ /\ recoveryCount <= RecoveryLimit /\ pllTicks <= PllErrorDelay
          /\ Read("ERROR")
          /\ KeepRecovery
    /\ UNCHANGED pllDevice

RunFatal ==
    /\ pllState = "FATAL"
    /\ pllDevice' = "FAIL"
    /\ \/ pllTicks > PllFatalDelay /\ Read("INIT") /\ ResetRecovery
       \/ pllTicks <= PllFatalDelay /\ Read("FATAL") /\ KeepRecovery

RunState ==
    \/ RunInit \/ RunReset \/ RunSetupSysclk \/ RunWaitLock
    \/ RunSetup \/ RunRun \/ RunError \/ RunFatal

\* Mutant: the device status stays.
ShutdownKeepsDevice ==
    /\ pllState' = "INIT"
    /\ UNCHANGED <<sysclk, pllDevice, recoveryCount, failures>>

\* Without power the chip is forgotten, its recoveries are not.
Shutdown ==
    /\ pllState' = "INIT"
    /\ pllDevice' = IF pllState = "INIT" THEN pllDevice ELSE "UNKNOWN"
    /\ UNCHANGED <<sysclk, recoveryCount, failures>>

\* Without power the chip may be reset; a reset or a setup that ends in failure may
\* have come far enough.
SysclkSets(enable) ==
    IF ~enable THEN {FALSE, sysclkSet}
    ELSE {SysclkSetAfter} \cup (IF pllState' \in {"RESET", "ERROR"} THEN {sysclkSet} ELSE {})

\* dev_ad9545_run, in an iteration that takes d.  It leaves dev.sensor NORMAL,
\* whatever it has found.
PllRun(enable, d) ==
    /\ \/ ~enable /\ Shutdown
       \/ enable /\ RunState
    /\ pllTicks' = PllSaturate(
          IF enable /\ pllState' # pllState THEN d ELSE pllTicks + d)
    /\ pllEnable' = enable
    /\ sysclkSet' \in SysclkSets(enable)
    /\ UNCHANGED pllGood

-----------------------------------------------------------------------------

PllInit ==
    /\ pllState = "INIT"
    /\ pllTicks = 0
    /\ pllDevice = "UNKNOWN"
    /\ sysclk = "unlocked"
    /\ recoveryCount = 0
    /\ pllEnable = FALSE
    /\ failures = 0
    /\ pllGood = FALSE
    /\ sysclkSet = FALSE

PllBecomesGood ==
    /\ ~pllGood
    /\ pllGood' = TRUE
    /\ UNCHANGED <<pllState, pllTicks, pllDevice, sysclk, recoveryCount,
                   pllEnable, failures, sysclkSet>>

\* An outage that no run of the driver sees resets the chip.
PllOutage ==
    /\ ~pllGood
    /\ sysclkSet' = FALSE
    /\ UNCHANGED <<pllState, pllTicks, pllDevice, sysclk, recoveryCount,
                   pllEnable, failures, pllGood>>

PllTask == \E enable \in BOOLEAN, d \in PllDurations : PllRun(enable, d)

PllNext == PllTask \/ PllOutage \/ PllBecomesGood

PllSpec == PllInit /\ [][PllNext]_pllVars

\* The task runs in a loop with a delay, and its transfers have timeouts: as long
\* as its argument stays the same, it goes on.
PllFairSpec ==
    PllSpec /\ WF_pllVars(\E d \in PllDurations : PllRun(pllEnable, d))

-----------------------------------------------------------------------------
(* What the other tasks see between two runs: getPllStatus.              *)

PllCritical ==
    \/ pllState \in {"ERROR", "FATAL"}
    \/ pllDevice # "NORMAL"
    \/ sysclk = "unlocked"

-----------------------------------------------------------------------------
(* Properties                                                              *)

\* Every variable stays in its type; the recoveries stay within their limit.
PllTypeOK ==
    /\ pllState \in PllState
    /\ pllTicks \in 0..MaxPllTicks
    /\ pllDevice \in {"UNKNOWN", "NORMAL", "FAIL"}
    /\ sysclk \in SysClk
    /\ recoveryCount \in 0..(RecoveryLimit + 1)
    /\ pllEnable \in BOOLEAN
    /\ failures \in 0..FailuresCap
    /\ pllGood \in BOOLEAN
    /\ sysclkSet \in BOOLEAN

\* The driver gives up only after the first failure and RecoveryLimit + 1
\* recoveries that failed too, with no good iteration of RUN between them,
\* however often the power has gone meanwhile.
FatalNeedsFailures == pllState = "FATAL" => failures >= RecoveryLimit + 2

\* The status the other tasks see is critical unless the chip of the present
\* start has been found and is being set up: no lock bits and no device status
\* of an earlier start, before an error or a loss of power, survive into it.
StatusNotStale ==
    ~PllCritical =>
        pllState \in {"SETUP_SYSCLK", "SYSCLK_WAITLOCK", "SETUP", "RUN"}

\* The driver keeps to the life cycle of the clock drivers.
PllImplementsLifecycle == PllLife!LifeSpec

\* A chip that works, on a board that keeps its power, ends up in RUN for good:
\* not in FATAL, nor in a loop of recoveries, nor waiting for the lock of a chip that
\* an outage has reset.
PllRecovers == <>[](pllGood /\ pllEnable) => <>[](pllState = "RUN")

=============================================================================
