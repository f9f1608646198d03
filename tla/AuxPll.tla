------------------------------- MODULE AuxPll -------------------------------
(***************************************************************************)
(* The driver of the AD9516, the auxiliary clock chip of TQDC16VS: the     *)
(* loop of auxpllTask with auxpll_task_run (src/dev/ad9516).  It resets    *)
(* and detects the chip, sets it up, reads its lock once and then leaves   *)
(* it alone for as long as there is power.                                 *)
(***************************************************************************)
EXTENDS Naturals

CONSTANTS
    AuxTimeout,      \* 2000 ticks, to find the chip
    AuxErrorDelay,   \* 1000 ticks in ERROR
    AuxFatalDelay,   \* 2000 ticks in FATAL
    AuxLimit,        \* 3 recoveries
    MaxAuxTicks      \* saturation of the elapsed time

ASSUME AuxAssumption ==
    /\ AuxLimit \in Nat /\ MaxAuxTicks \in Nat
    /\ \A t \in {AuxTimeout, AuxErrorDelay, AuxFatalDelay} : t \in Nat /\ t < MaxAuxTicks

VARIABLES
    auxState,     \* priv.fsm_state
    auxTicks,     \* time since priv.stateStartTick
    auxDevice,    \* dev.device_status
    dlock,        \* priv.status.pll_readback
    auxRecovery,  \* priv.recoveryCount
    auxPower,     \* enable_power && system_power_present
    auxReady,     \* aux_clock_ready
    auxChip,      \* environment: the registers are as after reset, or set up
    auxOutage,    \* history: the chip has lost them since it was set up
    auxGood       \* environment: the chip answers, power stays

auxVars == <<auxState, auxTicks, auxDevice, dlock, auxRecovery, auxPower, auxReady,
             auxChip, auxOutage, auxGood>>

AuxState == {"INIT", "RESET", "SETUP", "RUN", "PAUSE", "ERROR", "FATAL"}
AuxSaturate(t) == IF t > MaxAuxTicks THEN MaxAuxTicks ELSE t
AuxBroken == IF auxGood THEN {FALSE} ELSE BOOLEAN    \* a transfer fails

AuxPhase ==
    CASE auxState = "INIT" -> "off"
      [] auxState \in {"RUN", "PAUSE"} -> "running"
      [] auxState = "ERROR" -> "failed"
      [] auxState = "FATAL" -> "fatal"
      [] OTHER -> "starting"

AuxLife == INSTANCE PllLifecycle
       WITH RecoveryLimit <- AuxLimit, recoveries <- auxRecovery, phase <- AuxPhase

-----------------------------------------------------------------------------
(* auxpll_task_run                                                         *)

AuxTo(state) == auxState' = state /\ auxOutage' = auxOutage

AuxInitState ==
    /\ auxState = "INIT" /\ AuxTo("RESET")
    /\ dlock' = FALSE
    /\ UNCHANGED <<auxDevice, auxRecovery, auxChip>>

\* The software reset, then the detection.
AuxReset ==
    /\ auxState = "RESET"
    /\ \/ TRUE \in AuxBroken /\ AuxTo("ERROR") /\ UNCHANGED auxDevice
                             /\ auxChip' \in {auxChip, "reset"}
       \/ /\ auxChip' = "reset"
          /\ \E broken \in AuxBroken :
                /\ auxDevice' = IF broken THEN "FAIL" ELSE "NORMAL"
                /\ AuxTo(IF ~broken THEN "SETUP"
                         ELSE IF auxTicks > AuxTimeout THEN "ERROR" ELSE "RESET")
    /\ UNCHANGED <<dlock, auxRecovery>>

\* Mutant: the result of the setup is not looked at.
AuxSetupAnyway ==
    /\ auxState = "SETUP" /\ auxState' = "RUN"
    /\ \E broken \in AuxBroken : auxChip' = IF broken THEN auxChip ELSE "set"
    /\ auxOutage' = FALSE
    /\ UNCHANGED <<auxDevice, dlock, auxRecovery>>

\* auxpllSetup; that of the outputs may fail unnoticed, which leaves them off.
AuxSetup ==
    /\ auxState = "SETUP"
    /\ \/ auxState' = "RUN" /\ auxOutage' = FALSE
            /\ auxChip' \in IF auxGood THEN {"set"} ELSE {"set", "silent"}
       \/ TRUE \in AuxBroken /\ AuxTo("ERROR") /\ auxChip' \in {auxChip, "silent", "set"}
    /\ UNCHANGED <<auxDevice, dlock, auxRecovery>>

AuxRun ==
    /\ auxState = "RUN"
    /\ \/ AuxTo("PAUSE") /\ dlock' \in BOOLEAN /\ auxRecovery' = 0
       \/ TRUE \in AuxBroken /\ AuxTo("ERROR") /\ UNCHANGED <<dlock, auxRecovery>>
    /\ UNCHANGED <<auxDevice, auxChip>>

\* Nothing is read any more.
AuxPause ==
    /\ auxState = "PAUSE" /\ AuxTo("PAUSE")
    /\ auxRecovery' = 0
    /\ UNCHANGED <<auxDevice, dlock, auxChip>>

\* Mutant: ERROR has no limit.
AuxErrorUnlimited ==
    /\ auxState = "ERROR"
    /\ AuxTo(IF auxTicks > AuxErrorDelay THEN "INIT" ELSE "ERROR")
    /\ auxRecovery' = IF auxState' = "INIT" THEN auxRecovery + 1 ELSE auxRecovery
    /\ UNCHANGED <<auxDevice, dlock, auxChip>>

AuxError ==
    /\ auxState = "ERROR"
    /\ \/ auxRecovery > AuxLimit /\ AuxTo("FATAL") /\ UNCHANGED auxRecovery
       \/ /\ auxRecovery <= AuxLimit /\ auxTicks > AuxErrorDelay
          /\ AuxTo("INIT")
          /\ auxRecovery' = auxRecovery + 1
       \/ /\ auxRecovery <= AuxLimit /\ auxTicks <= AuxErrorDelay
          /\ AuxTo("ERROR") /\ UNCHANGED auxRecovery
    /\ UNCHANGED <<auxDevice, dlock, auxChip>>

\* Mutant: the count of the recoveries stays at its limit.
AuxFatalForever ==
    /\ auxState = "FATAL" /\ AuxTo("FATAL")
    /\ auxDevice' = "FAIL"
    /\ UNCHANGED <<dlock, auxChip, auxRecovery>>

AuxFatal ==
    /\ auxState = "FATAL"
    /\ auxDevice' = "FAIL"
    /\ IF auxTicks > AuxFatalDelay THEN AuxTo("INIT") /\ auxRecovery' = 0
                                   ELSE AuxTo("FATAL") /\ UNCHANGED auxRecovery
    /\ UNCHANGED <<dlock, auxChip>>

AuxShutdown ==
    /\ AuxTo("INIT")
    /\ IF auxState = "INIT" THEN UNCHANGED <<auxDevice, dlock>>
                            ELSE auxDevice' = "UNKNOWN" /\ dlock' = FALSE
    /\ UNCHANGED <<auxRecovery, auxChip>>

\* An iteration of auxpllTask, which takes a tick.
AuxTask ==
    /\ \/ ~auxPower /\ AuxShutdown
       \/ /\ auxPower
          /\ \/ AuxInitState \/ AuxReset \/ AuxSetup \/ AuxRun
             \/ AuxPause \/ AuxError \/ AuxFatal
    /\ auxTicks' = IF auxPower /\ auxState' # auxState THEN 0 ELSE AuxSaturate(auxTicks + 1)
    /\ auxReady' = (auxState' \in {"RUN", "PAUSE"})
    /\ UNCHANGED <<auxPower, auxGood>>

-----------------------------------------------------------------------------

AuxInit ==
    /\ auxState = "INIT"
    /\ auxTicks = 0
    /\ auxDevice = "UNKNOWN"
    /\ dlock = FALSE
    /\ auxRecovery = 0
    /\ auxPower = TRUE
    /\ auxReady = FALSE
    /\ auxChip = "reset"
    /\ auxOutage = FALSE
    /\ auxGood = FALSE

\* Power is switched, by the operator or the power monitor; a short loss is over
\* before the task looks.
AuxPowerChanges ==
    /\ ~auxGood
    /\ \/ auxPower' = ~auxPower /\ UNCHANGED <<auxChip, auxOutage>>
       \/ UNCHANGED auxPower /\ auxChip' = "reset" /\ auxOutage' = TRUE
    /\ UNCHANGED <<auxState, auxTicks, auxDevice, dlock, auxRecovery, auxReady, auxGood>>

AuxBecomesGood ==
    /\ auxGood' = TRUE
    /\ UNCHANGED <<auxState, auxTicks, auxDevice, dlock, auxRecovery, auxPower, auxReady,
                   auxChip, auxOutage>>

AuxNext == AuxTask \/ AuxPowerChanges \/ AuxBecomesGood

AuxSpec == AuxInit /\ [][AuxNext]_auxVars

\* The task runs in a loop with a delay, and its transfers have timeouts.
AuxFairSpec == AuxSpec /\ WF_auxVars(AuxTask)

-----------------------------------------------------------------------------
(* Properties                                                              *)

\* Every variable stays in its type.
AuxTypeOK ==
    /\ auxState \in AuxState
    /\ auxTicks \in 0..MaxAuxTicks
    /\ auxDevice \in {"UNKNOWN", "NORMAL", "FAIL"}
    /\ dlock \in BOOLEAN
    /\ auxRecovery \in 0..(AuxLimit + 1)
    /\ auxPower \in BOOLEAN
    /\ auxReady \in BOOLEAN
    /\ auxChip \in {"reset", "silent", "set"}
    /\ auxOutage \in BOOLEAN
    /\ auxGood \in BOOLEAN

\* A clock that counts as ready comes from a chip that has been set up, but for its
\* outputs, and has not lost its registers since: a setup that failed in the middle
\* is never taken for one.
ReadyIsSetUp == auxReady => auxChip # "reset" \/ auxOutage

\* The driver keeps to the life cycle of the clock drivers.
AuxImplementsLifecycle == AuxLife!LifeSpec

\* With power and a chip that answers the clock is ready in the end, without power it
\* is not, however many recoveries have been used up.
AuxFollowsPower ==
    /\ <>[](auxGood /\ auxPower) => <>[]auxReady
    /\ <>[](auxGood /\ ~auxPower) => <>[]~auxReady

\* The clock that is ready in the end comes from a chip that has not lost its registers
\* (fails: PAUSE reads nothing any more, and takes a chip that an unseen outage has
\* reset for one that runs).
ReadyServes == <>[](auxGood /\ auxPower) => <>[](auxChip # "reset")
=============================================================================
