------------------------------- MODULE Ad9548 -------------------------------
(***************************************************************************)
(* The driver of the AD9548, the clock chip of the older TDC and ADC       *)
(* boards: dev_ad9548_run (src/dev/ad9548/dev_ad9548_fsm.c) in the loop of *)
(* their PLL tasks.  The chip is on SPI, where a transfer succeeds whether *)
(* a chip has taken it or not, so that a setup may be lost unnoticed.      *)
(*                                                                         *)
(* Every run ends with a part that all states share: the chip is asked for *)
(* its identity, and in RUN for its status.                                *)
(***************************************************************************)
EXTENDS Naturals

CONSTANTS
    SynTimeout,      \* 2000 ticks, to find the chip and to lock
    SynErrorDelay,   \* 1000 ticks in ERROR
    SynFatalDelay,   \* 2000 ticks in FATAL
    SynLimit,        \* 3 recoveries
    MaxSynTicks      \* saturation of the elapsed time

ASSUME SynAssumption ==
    /\ SynLimit \in Nat /\ MaxSynTicks \in Nat
    /\ \A t \in {SynTimeout, SynErrorDelay, SynFatalDelay} : t \in Nat /\ t < MaxSynTicks

VARIABLES
    synState,     \* priv.fsm_state
    synTicks,     \* time since priv.stateStartTick
    synDevice,    \* dev.device_status
    synClock,     \* priv.status.sysclk
    dpllLock,     \* priv.status.DpllStat: frequency and phase are locked
    synRecovery,  \* priv.recoveryCount
    synPower,     \* power_on
    synReady,     \* main_clock_ready
    synChip,      \* environment: the registers that are set up
    synHealth     \* environment: SPI and chip are faulty, good or dead for ever

chipVars == <<synChip, synHealth>>
synVars == <<synState, synTicks, synDevice, synClock, dpllLock, synRecovery, synPower,
             synReady, chipVars>>

SynState == {"INIT", "RESET", "SETUP_SYSCLK", "SYSCLK_WAITLOCK", "SETUP", "RUN",
             "ERROR", "FATAL"}
Watched == {"SETUP_SYSCLK", "SYSCLK_WAITLOCK", "SETUP", "RUN"}    \* state_detected
SynClock == {"unlocked", "locked", "stable"}
Registers == {"sysclk", "rest"}

SynSaturate(t) == IF t > MaxSynTicks THEN MaxSynTicks ELSE t

\* A transfer may fail, or succeed.
Fails == synHealth # "good"
Passes == synHealth # "dead"

\* The system clock locks when it has been set up; a faulty bus reads anything.
ClockReads ==
    IF synHealth = "faulty" THEN SynClock
    ELSE IF "sysclk" \in synChip THEN {"stable"} ELSE {"unlocked"}

LockReads ==
    IF synHealth = "faulty" \/ synChip = Registers THEN BOOLEAN ELSE {FALSE}

\* What writing the registers r leaves in the chip.
Written(r) == IF synHealth = "good" THEN {synChip \cup {r}}
              ELSE {synChip, synChip \ {r}, synChip \cup {r}}

SynPhase ==
    CASE synState = "INIT" -> "off"
      [] synState = "RUN" -> "running"
      [] synState = "ERROR" -> "failed"
      [] synState = "FATAL" -> "fatal"
      [] OTHER -> "starting"

SynLife == INSTANCE PllLifecycle
       WITH RecoveryLimit <- SynLimit, recoveries <- synRecovery, phase <- SynPhase

-----------------------------------------------------------------------------
(* The end of a run, when its state machine has come to state s with the   *)
(* system clock status c.                                                  *)

\* Mutant: the status of the system clock outlives the chip's.
EndKeepsClock(s, c) ==
    \/ s \notin Watched /\ synState' = s /\ synClock' = c /\ dpllLock' = FALSE
    \/ s \in Watched /\ Fails /\ synState' = "ERROR" /\ synClock' = c /\ dpllLock' = FALSE
    \/ s \in Watched \ {"RUN"} /\ Passes /\ synState' = s /\ synClock' = c /\ dpllLock' = FALSE
    \/ /\ s = "RUN" /\ Passes
       /\ \/ synState' = "RUN" /\ synClock' \in ClockReads /\ dpllLock' \in LockReads
          \/ Fails /\ synState' = "ERROR" /\ synClock' \in {c} \cup ClockReads
                   /\ dpllLock' \in BOOLEAN

\* A chip with another identity is none of ad9548_check_id's failures.
End(s, c) ==
    \/ /\ s \notin Watched
       /\ synState' = s /\ synClock' = "unlocked" /\ dpllLock' = FALSE
    \/ /\ s \in Watched /\ Fails
       /\ synState' = "ERROR" /\ synClock' = c /\ dpllLock' = FALSE
    \/ /\ s \in Watched \ {"RUN"} /\ Passes
       /\ synState' = s /\ synClock' = c /\ dpllLock' = FALSE
    \/ /\ s = "RUN" /\ Passes
       /\ \/ synState' = "RUN" /\ synClock' \in ClockReads /\ dpllLock' \in LockReads
          \/ /\ Fails
             /\ synState' = "ERROR"
             /\ synClock' \in {c} \cup ClockReads /\ dpllLock' \in BOOLEAN

-----------------------------------------------------------------------------
(* The states of dev_ad9548_run                                            *)

\* The reset pin is pulsed, and read back.
SynInitState ==
    /\ synState = "INIT"
    /\ \/ End("RESET", synClock)
       \/ Fails /\ End("ERROR", synClock)
    /\ synChip' = {}
    /\ UNCHANGED <<synDevice, synRecovery>>

\* There is no timeout as long as it is the first transfer, the configuration of SPI,
\* that fails.
SynReset ==
    /\ synState = "RESET"
    /\ \/ Fails /\ End("RESET", synClock) /\ UNCHANGED synDevice
       \/ Passes /\ synDevice' = "NORMAL" /\ End("SETUP_SYSCLK", synClock)
       \/ /\ synHealth = "faulty"
          /\ synDevice' = "FAIL"
          /\ End(IF synTicks > SynTimeout THEN "ERROR" ELSE "RESET", synClock)
    /\ UNCHANGED <<synRecovery, synChip>>

SynSetupSysclk ==
    /\ synState = "SETUP_SYSCLK"
    /\ synChip' \in Written("sysclk")
    /\ \/ Passes /\ End("SYSCLK_WAITLOCK", synClock)
       \/ Fails /\ End("ERROR", synClock)
    /\ UNCHANGED <<synDevice, synRecovery>>

\* ERROR after a failed read is overruled when the status of before is a lock.
SynWaitLock ==
    /\ synState = "SYSCLK_WAITLOCK"
    /\ \E failed \in BOOLEAN :
          /\ IF failed THEN Fails ELSE Passes
          /\ \E c \in IF failed THEN {synClock} ELSE ClockReads :
             End(IF synTicks > SynTimeout THEN "ERROR"
                 ELSE IF c = "stable" THEN "SETUP"
                 ELSE IF failed THEN "ERROR" ELSE "SYSCLK_WAITLOCK", c)
    /\ UNCHANGED <<synDevice, synRecovery, synChip>>

SynSetup ==
    /\ synState = "SETUP"
    /\ synChip' \in Written("rest")
    /\ \/ Passes /\ End("RUN", synClock)
       \/ Fails /\ End("ERROR", synClock)
    /\ UNCHANGED <<synDevice, synRecovery>>

\* The status is that of the run before.
SynRun ==
    /\ synState = "RUN"
    /\ \/ synClock = "unlocked" /\ End("SYSCLK_WAITLOCK", synClock) /\ UNCHANGED synRecovery
       \/ synClock # "unlocked" /\ End("RUN", synClock) /\ synRecovery' = 0
    /\ UNCHANGED <<synDevice, synChip>>

\* Mutant: the driver gives up one recovery early.
SynErrorEarly ==
    /\ synState = "ERROR"
    /\ LET again == synRecovery < SynLimit /\ synTicks > SynErrorDelay
       IN  /\ End(IF synRecovery >= SynLimit THEN "FATAL"
                  ELSE IF again THEN "INIT" ELSE "ERROR", synClock)
           /\ synRecovery' = IF again THEN synRecovery + 1 ELSE synRecovery
    /\ UNCHANGED <<synDevice, synChip>>

SynError ==
    /\ synState = "ERROR"
    /\ LET again == synRecovery <= SynLimit /\ synTicks > SynErrorDelay
       IN  /\ End(IF synRecovery > SynLimit THEN "FATAL"
                  ELSE IF again THEN "INIT" ELSE "ERROR", synClock)
           /\ synRecovery' = IF again THEN synRecovery + 1 ELSE synRecovery
    /\ UNCHANGED <<synDevice, synChip>>

SynFatal ==
    /\ synState = "FATAL"
    /\ synDevice' = "FAIL"
    /\ LET over == synTicks > SynFatalDelay
       IN  /\ End(IF over THEN "INIT" ELSE "FATAL", synClock)
           /\ synRecovery' = IF over THEN 0 ELSE synRecovery
    /\ UNCHANGED synChip

\* The status of the system clock stays, and so do the recoveries.
SynShutdown ==
    /\ synState' = "INIT"
    /\ IF synState = "INIT" THEN UNCHANGED <<synDevice, dpllLock, synChip>>
                            ELSE synDevice' = "UNKNOWN" /\ dpllLock' = FALSE /\ synChip' = {}
    /\ UNCHANGED <<synClock, synRecovery>>

\* An iteration of the PLL task, which takes a tick.
SynTask ==
    /\ \/ ~synPower /\ SynShutdown
       \/ /\ synPower
          /\ \/ SynInitState \/ SynReset \/ SynSetupSysclk \/ SynWaitLock
             \/ SynSetup \/ SynRun \/ SynError \/ SynFatal
    /\ synTicks' = IF synPower /\ synState' # synState THEN 0 ELSE SynSaturate(synTicks + 1)
    /\ synReady' = (synState' = "RUN")
    /\ UNCHANGED <<synPower, synHealth>>

-----------------------------------------------------------------------------

SynInit ==
    /\ synState = "INIT"
    /\ synTicks = 0
    /\ synDevice = "UNKNOWN"
    /\ synClock = "unlocked"
    /\ dpllLock = FALSE
    /\ synRecovery = 0
    /\ synPower = TRUE
    /\ synReady = FALSE
    /\ synChip = {}
    /\ synHealth = "faulty"

\* Power is switched; a short loss is over before the task looks.
SynPowerChanges ==
    /\ synHealth = "faulty"
    /\ \/ synPower' = ~synPower /\ UNCHANGED synChip
       \/ synChip' = {} /\ UNCHANGED synPower
    /\ UNCHANGED <<synState, synTicks, synDevice, synClock, dpllLock, synRecovery, synReady,
                   synHealth>>

SynHealthSettles ==
    /\ synHealth = "faulty"
    /\ synHealth' \in {"good", "dead"}
    /\ UNCHANGED <<synState, synTicks, synDevice, synClock, dpllLock, synRecovery, synPower,
                   synReady, synChip>>

SynNext == SynTask \/ SynPowerChanges \/ SynHealthSettles

SynSpec == SynInit /\ [][SynNext]_synVars

\* The task runs in a loop with a delay, and its transfers have timeouts.
SynFairSpec == SynSpec /\ WF_synVars(SynTask)

-----------------------------------------------------------------------------
(* Properties                                                              *)

\* Every variable stays in its type.
SynTypeOK ==
    /\ synState \in SynState
    /\ synTicks \in 0..MaxSynTicks
    /\ synDevice \in {"UNKNOWN", "NORMAL", "FAIL"}
    /\ synClock \in SynClock
    /\ dpllLock \in BOOLEAN /\ synPower \in BOOLEAN /\ synReady \in BOOLEAN
    /\ synRecovery \in 0..(SynLimit + 1)
    /\ synChip \subseteq Registers
    /\ synHealth \in {"faulty", "good", "dead"}

\* In SYSCLK_WAITLOCK there is no lock of before, from an earlier start, from RUN or
\* from before a loss of power: so a read that fails is never overruled by one, and
\* the chip is not set up on it.
NoOldLock == synState = "SYSCLK_WAITLOCK" => synClock # "stable"

\* The driver keeps to the life cycle of the clock drivers.
SynImplementsLifecycle == SynLife!LifeSpec

\* With power and a chip that works the driver is in RUN in the end, and then the lock
\* it shows is that of a chip that has been set up, whatever was lost or misread before.
SynRecovers ==
    <>[](synHealth = "good" /\ synPower)
        => <>[](synState = "RUN" /\ (dpllLock => synChip = Registers))

\* A bus that is dead for good shows: the clock does not stay ready.
DeadNotReady == <>[](synHealth = "dead") => <>[]~synReady
=============================================================================
