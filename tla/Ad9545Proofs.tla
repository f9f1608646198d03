---------------------------- MODULE Ad9545Proofs ----------------------------
(***************************************************************************)
(* What holds of the AD9545 driver for all delays, durations and limits.   *)
(***************************************************************************)
EXTENDS Ad9545, TLAPS

\* The elapsed time saturates.
LEMMA SaturateType ==
    ASSUME NEW t \in Nat
    PROVE  PllSaturate(t) \in 0..MaxPllTicks
BY PllAssumption DEF PllSaturate

\* The look at the status registers that ends a run: it may only turn the state into
\* ERROR, and shows no lock in INIT, RESET and FATAL.
LEMMA ReadResult ==
    ASSUME PllTypeOK, NEW to \in PllState, Read(to)
    PROVE  /\ pllState' \in {to, "ERROR"}
           /\ to \in Quiet => pllState' = to
           /\ sysclk' \in SysClk
           /\ pllState' \in {"INIT", "RESET", "FATAL"} => sysclk' = "unlocked"
<1>1. sysclk \in SysClk /\ Status \subseteq SysClk
  BY Zenon DEF PllTypeOK, Status, SysClk
<1>2. CASE to \in Quiet
  BY <1>2 DEF Read, SysClk
<1>3. CASE to \notin Quiet
  BY <1>1, <1>3 DEF Read, Quiet
<1> QED BY <1>2, <1>3

\* A transfer leads on or to ERROR, and to no early state with the system clock locked.
LEMMA TransferResult ==
    ASSUME PllTypeOK, NEW to \in PllState, Transfer(to)
    PROVE  /\ pllState' \in {to, "ERROR"}
           /\ sysclk' \in SysClk
           /\ pllState' \in {"INIT", "RESET", "FATAL"} => sysclk' = "unlocked"
<1>1. CASE Read(to)
  BY <1>1, ReadResult
<1>2. CASE Read("ERROR")
  BY <1>2, ReadResult DEF PllState
<1> QED BY <1>1, <1>2 DEF Transfer

\* What a run leaves in the state, the status and the device status.
LEMMA RunStateResult ==
    ASSUME PllTypeOK, RunState
    PROVE  /\ pllState' \in PllState
           /\ pllDevice' \in {"UNKNOWN", "NORMAL", "FAIL"}
           /\ sysclk' \in SysClk
           /\ pllState' \in {"INIT", "RESET", "FATAL"} => sysclk' = "unlocked"
           /\ pllState' = "FATAL" => pllState \in {"ERROR", "FATAL"}
           /\ pllState' = "RUN" =>
                \/ pllState = "SETUP"
                \/ pllState = "RUN" /\ sysclk # "unlocked"
<1> USE ReadResult, TransferResult DEF PllState
<1>0. pllDevice \in {"UNKNOWN", "NORMAL", "FAIL"}
  BY DEF PllTypeOK
<1>1. CASE RunInit
  BY <1>0, <1>1 DEF RunInit
<1>2. CASE RunReset
  <2>1. \/ pllDevice' = "NORMAL" /\ Transfer("SETUP_SYSCLK")
        \/ pllDevice' = "FAIL" /\ Read("ERROR")
        \/ pllDevice' = "FAIL" /\ Read("RESET")
    BY <1>2 DEF RunReset
  <2> QED BY <2>1
<1>3. CASE RunSetupSysclk
  BY <1>0, <1>3 DEF RunSetupSysclk
<1>4. CASE RunWaitLock
  <2>1. UNCHANGED pllDevice /\ (Read("ERROR") \/ Read("SETUP") \/ Read("SYSCLK_WAITLOCK"))
    BY <1>4 DEF RunWaitLock
  <2> QED BY <1>0, <2>1
<1>5. CASE RunSetup
  BY <1>0, <1>5 DEF RunSetup
<1>6. CASE RunRun
  BY <1>0, <1>6 DEF RunRun
<1>7. CASE RunError
  BY <1>0, <1>7 DEF RunError
<1>8. CASE RunFatal
  BY <1>8 DEF RunFatal
<1> QED BY RunState, <1>1, <1>2, <1>3, <1>4, <1>5, <1>6, <1>7, <1>8 DEF RunState

\* How a run counts: the recoveries and failures go on, start again, or ERROR is left
\* for one more recovery or for FATAL.
LEMMA RunStateCounts ==
    ASSUME PllTypeOK, RunState
    PROVE  \/ KeepRecovery /\ (pllState' = "FATAL" => pllState = "FATAL")
           \/ KeepRecovery /\ pllState = "ERROR" /\ recoveryCount > RecoveryLimit
           \/ ResetRecovery /\ pllState' # "FATAL"
           \/ /\ pllState = "ERROR" /\ pllState' = "INIT"
              /\ recoveryCount <= RecoveryLimit
              /\ recoveryCount' = recoveryCount + 1
              /\ UNCHANGED failures
<1> USE ReadResult DEF PllState, Quiet
<1>1. CASE RunInit \/ RunReset \/ RunSetupSysclk \/ RunWaitLock \/ RunSetup
  <2>1. KeepRecovery /\ pllState \notin {"ERROR", "FATAL"}
    BY <1>1 DEF RunInit, RunReset, RunSetupSysclk, RunWaitLock, RunSetup
  <2> QED BY <2>1, RunStateResult
<1>2. CASE RunRun
  <2>1. pllState = "RUN" /\ (KeepRecovery \/ ResetRecovery)
    BY <1>2 DEF RunRun
  <2> QED BY <2>1, RunStateResult
<1>3. CASE RunError
  BY <1>3 DEF RunError
<1>4. CASE RunFatal
  BY <1>4 DEF RunFatal
<1> QED BY RunState, <1>1, <1>2, <1>3, <1>4 DEF RunState

\* A state keeps the counters of recoveries and failures to their limits.
LEMMA RunStateTypes ==
    ASSUME PllTypeOK, RunState
    PROVE  /\ recoveryCount' \in 0..(RecoveryLimit + 1)
           /\ failures' \in 0..FailuresCap
BY RunStateCounts, PllAssumption
   DEF PllTypeOK, KeepRecovery, ResetRecovery, FailuresCap

\* A run of the driver keeps the types.
LEMMA RunTypes ==
    ASSUME PllTypeOK, NEW enable \in BOOLEAN, NEW d \in PllDurations, PllRun(enable, d)
    PROVE  PllTypeOK'
<1>1. d \in Nat /\ pllTicks + d \in Nat
  BY PllAssumption DEF PllTypeOK
<1>2. pllTicks' \in 0..MaxPllTicks
  BY <1>1, SaturateType DEF PllRun
<1>3. sysclkSet' \in BOOLEAN
  <2>1. SysclkSetAfter \in BOOLEAN
    BY DEF SysclkSetAfter
  <2>2. SysclkSets(enable) \subseteq BOOLEAN
    BY <2>1 DEF SysclkSets, PllTypeOK
  <2> QED BY <2>2 DEF PllRun
<1>4. CASE enable
  BY <1>2, <1>3, <1>4, RunStateResult, RunStateTypes DEF PllRun, PllTypeOK
<1>5. CASE ~enable
  BY <1>2, <1>3, <1>5 DEF PllRun, Shutdown, PllTypeOK, PllState
<1> QED BY <1>4, <1>5

\* The types at the start.
LEMMA InitTypes == ASSUME PllInit PROVE PllTypeOK
<1>1. pllEnable \in BOOLEAN /\ pllGood \in BOOLEAN /\ sysclkSet \in BOOLEAN
  BY Zenon DEF PllInit
<1>2. MaxPllTicks \in Nat /\ RecoveryLimit \in Nat
  BY PllAssumption
<1>3. pllTicks \in 0..MaxPllTicks /\ recoveryCount \in 0..(RecoveryLimit + 1)
      /\ failures \in 0..FailuresCap
  BY <1>2 DEF PllInit, FailuresCap
<1> QED BY <1>1, <1>3 DEF PllInit, PllTypeOK, PllState, SysClk

\* The types when the outages end.
LEMMA GoodTypes == ASSUME PllTypeOK, PllBecomesGood PROVE PllTypeOK'
BY DEF PllTypeOK, PllBecomesGood

\* The types when an outage resets the chip.
LEMMA OutageTypes == ASSUME PllTypeOK, PllOutage PROVE PllTypeOK'
BY DEF PllTypeOK, PllOutage

\* The recoveries stay within their limit, the other variables in their types, for all
\* delays and durations and however often the power goes.
THEOREM PllTypeCorrect == PllSpec => []PllTypeOK
<1>1. PllInit => PllTypeOK
  BY InitTypes
<1>2. ASSUME PllTypeOK, [PllNext]_pllVars PROVE PllTypeOK'
  <2>1. CASE PllTask
    BY <1>2, <2>1, RunTypes DEF PllTask
  <2>2. CASE PllBecomesGood
    BY <1>2, <2>2, GoodTypes
  <2>3. CASE PllOutage
    BY <1>2, <2>3, OutageTypes
  <2>4. CASE UNCHANGED pllVars
    BY <1>2, <2>4 DEF pllVars, PllTypeOK
  <2> QED BY <1>2, <2>1, <2>2, <2>3, <2>4 DEF PllNext
<1> QED BY <1>1, <1>2, PTL DEF PllSpec

-----------------------------------------------------------------------------

\* The failures keep ahead of the recoveries: by one while the driver is in ERROR or
\* FATAL, and FATAL means that the recoveries are used up.
FailuresCounted ==
    /\ failures >= recoveryCount
    /\ pllState \in {"ERROR", "FATAL"} => failures >= recoveryCount + 1
    /\ pllState = "FATAL" => recoveryCount = RecoveryLimit + 1

\* A state counts its recoveries along with the failures.
LEMMA RunCountsFailures ==
    ASSUME PllTypeOK, FailuresCounted, RunState
    PROVE  FailuresCounted'
<1>1. /\ recoveryCount \in Nat /\ recoveryCount <= RecoveryLimit + 1
      /\ failures \in Nat /\ failures <= RecoveryLimit + 3
      /\ RecoveryLimit \in Nat
  BY PllAssumption DEF PllTypeOK, FailuresCap
<1>2. pllState' = "FATAL" => pllState \in {"ERROR", "FATAL"}
  BY RunStateResult
<1> QED BY <1>1, <1>2, RunStateCounts
        DEF FailuresCounted, KeepRecovery, ResetRecovery, FailuresCap

\* The driver gives up only after RecoveryLimit + 2 failures in a row, whatever the
\* limit, the delays and the interruptions by a loss of power.
THEOREM GivesUpLate == PllSpec => []FatalNeedsFailures
<1>1. PllInit => FailuresCounted
  BY DEF PllInit, FailuresCounted
<1>2. ASSUME PllTypeOK, FailuresCounted, [PllNext]_pllVars PROVE FailuresCounted'
  <2>1. CASE PllTask
    <3>1. PICK enable \in BOOLEAN, d \in PllDurations : PllRun(enable, d)
      BY <2>1 DEF PllTask
    <3>2. CASE enable
      BY <1>2, <3>1, <3>2, RunCountsFailures DEF PllRun
    <3>3. CASE ~enable
      BY <1>2, <3>1, <3>3 DEF PllRun, Shutdown, FailuresCounted
    <3> QED BY <3>2, <3>3
  <2>2. CASE PllBecomesGood \/ PllOutage
    BY <1>2, <2>2 DEF PllBecomesGood, PllOutage, FailuresCounted
  <2>3. CASE UNCHANGED pllVars
    BY <1>2, <2>3 DEF pllVars, FailuresCounted
  <2> QED BY <1>2, <2>1, <2>2, <2>3 DEF PllNext
<1>3. PllTypeOK /\ FailuresCounted => FatalNeedsFailures
  BY PllAssumption DEF PllTypeOK, FailuresCounted, FatalNeedsFailures
<1> QED BY <1>1, <1>2, <1>3, PllTypeCorrect, PTL DEF PllSpec

-----------------------------------------------------------------------------

\* A state shows nothing that is left over.
LEMMA RunShowsNothingStale ==
    ASSUME PllTypeOK, RunState
    PROVE  StatusNotStale'
BY RunStateResult DEF StatusNotStale, PllCritical, PllState

\* What the other tasks see of the PLL is never left over from an earlier start: a
\* driver that does not read the status registers shows a critical PLL.
THEOREM StatusIsFresh == PllSpec => []StatusNotStale
<1>1. PllInit => StatusNotStale
  BY DEF PllInit, StatusNotStale, PllCritical
<1>2. ASSUME PllTypeOK, StatusNotStale, [PllNext]_pllVars PROVE StatusNotStale'
  <2>1. CASE PllTask
    <3>1. PICK enable \in BOOLEAN, d \in PllDurations : PllRun(enable, d)
      BY <2>1 DEF PllTask
    <3>2. CASE enable
      BY <1>2, <3>1, <3>2, RunShowsNothingStale DEF PllRun
    <3>3. CASE ~enable
      BY <1>2, <3>1, <3>3 DEF PllRun, Shutdown, StatusNotStale, PllCritical
    <3> QED BY <3>2, <3>3
  <2>2. CASE PllBecomesGood \/ PllOutage
    BY <1>2, <2>2 DEF PllBecomesGood, PllOutage, StatusNotStale, PllCritical
  <2>3. CASE UNCHANGED pllVars
    BY <1>2, <2>3 DEF pllVars, StatusNotStale, PllCritical
  <2> QED BY <1>2, <2>1, <2>2, <2>3 DEF PllNext
<1> QED BY <1>1, <1>2, PllTypeCorrect, PTL DEF PllSpec

-----------------------------------------------------------------------------

\* A state of the driver is a step of the life cycle, or none.
LEMMA PllPhaseStep ==
    ASSUME PllTypeOK, RunState
    PROVE  [PllLife!LifeNext]_(PllLife!lifeVars)
<1> USE ReadResult, TransferResult
    DEF PllLife!LifeNext, PllLife!lifeVars, PllPhase, PllState, Quiet, KeepRecovery
<1>1. CASE RunInit
  BY <1>1 DEF RunInit, PllLife!Begins
<1>2. CASE RunReset
  <2>1. /\ pllState = "RESET" /\ UNCHANGED recoveryCount
        /\ Transfer("SETUP_SYSCLK") \/ Read("ERROR") \/ Read("RESET")
    BY <1>2 DEF RunReset
  <2> QED BY <2>1 DEF PllLife!Starts
<1>3. CASE RunSetupSysclk
  BY <1>3 DEF RunSetupSysclk, PllLife!Starts
<1>4. CASE RunWaitLock
  <2>1. /\ pllState = "SYSCLK_WAITLOCK" /\ UNCHANGED recoveryCount
        /\ Read("ERROR") \/ Read("SETUP") \/ Read("SYSCLK_WAITLOCK")
    BY <1>4 DEF RunWaitLock
  <2> QED BY <2>1 DEF PllLife!Starts
<1>5. CASE RunSetup
  BY <1>5 DEF RunSetup, PllLife!Starts
<1>6. CASE RunRun
  <2>1. /\ pllState = "RUN" /\ recoveryCount' \in {0, recoveryCount}
        /\ Read("ERROR") \/ Read("RUN")
    BY <1>6 DEF RunRun, ResetRecovery
  <2> QED BY <2>1 DEF PllLife!Works
<1>7. CASE RunError
  BY <1>7 DEF RunError, PllLife!Retries, PllLife!GivesUp
<1>8. CASE RunFatal
  BY <1>8 DEF RunFatal, ResetRecovery, PllLife!StartsOver
<1> QED BY RunState, <1>1, <1>2, <1>3, <1>4, <1>5, <1>6, <1>7, <1>8 DEF RunState

\* The driver of the AD9545 implements the life cycle of the clock drivers.
THEOREM PllRefines == PllSpec => PllImplementsLifecycle
<1>1. PllInit => PllLife!LifeInit
  BY DEF PllInit, PllLife!LifeInit, PllPhase
<1>2. ASSUME PllTypeOK, [PllNext]_pllVars PROVE [PllLife!LifeNext]_(PllLife!lifeVars)
  <2>1. CASE PllTask
    <3>1. PICK enable \in BOOLEAN, d \in PllDurations : PllRun(enable, d)
      BY <2>1 DEF PllTask
    <3>2. CASE enable
      BY <1>2, <3>1, <3>2, PllPhaseStep DEF PllRun
    <3>3. CASE ~enable
      BY <3>1, <3>3 DEF PllRun, Shutdown, PllLife!LifeNext, PllLife!PowerLost, PllPhase
    <3> QED BY <3>2, <3>3
  <2>2. CASE UNCHANGED <<pllState, recoveryCount>>
    BY <2>2 DEF PllLife!lifeVars, PllPhase
  <2> QED BY <1>2, <2>1, <2>2 DEF PllNext, PllBecomesGood, PllOutage, pllVars
<1> QED BY <1>1, <1>2, PllTypeCorrect, PTL DEF PllSpec, PllImplementsLifecycle, PllLife!LifeSpec
=============================================================================
