--------------------------- MODULE ClockChipProofs ---------------------------
(***************************************************************************)
(* What holds of the clock shift, for every clock period, step, set of     *)
(* fractions and number of requests; of the drivers of the AD9516 and the  *)
(* AD9548, and of all three chips, for all limits and delays; and of the   *)
(* clock multiplexer of TQDC, for all sources and settings.                *)
(***************************************************************************)
EXTENDS MCPll, Ad9545Proofs

-----------------------------------------------------------------------------
(* ClockShift                                                              *)

\* A part of a period is a whole number of picoseconds and not negative.
LEMMA ShiftType ==
    ASSUME NEW n \in 0..15, NEW m \in 0..15
    PROVE  Shift(n, m) \in Nat
<1>1. Period * n \in Nat
  BY PeriodAssumption
<1>2. ASSUME NEW p \in Nat, m # 0 PROVE p \div m \in Nat
  BY <1>2
<1> QED BY <1>1, <1>2 DEF Shift

\* The handshake: req and ack differ only while a request waits, numer and denom are
\* written only while none waits, and the phaser has taken every request it has
\* acknowledged.
Handshake ==
    /\ req \in Nat /\ ack \in Nat /\ phaserReq \in Nat
    /\ req \in {ack, ack + 1}
    /\ fpgaPc \in {"denom", "req"} => req = ack
    /\ pollPc # "ack" => phaserReq = ack
    /\ pollPc = "ack" => phaserReq \in {req, ack}

\* The types of the phaser and the FPGA task.
ShiftTypes ==
    /\ numer \in 0..15 /\ denom \in 0..15
    /\ fpgaPc \in {"poll", "check", "denom", "req", "status"}
    /\ pollPc \in {"run", "ack", "step"}
    /\ offset \in Nat /\ stop \in Nat /\ offset <= stop
    /\ chip \in Nat
    /\ asked \in Nat

ShiftInv ==
    PllTypeOK /\ Handshake /\ ShiftTypes /\ busy \in BOOLEAN /\ forgotten \in BOOLEAN

\* The invariant at the start.
LEMMA ShiftInitInv == ASSUME ShiftInit PROVE ShiftInv
<1>1. PllTypeOK
  BY InitTypes DEF ShiftInit
<1>2. busy \in BOOLEAN /\ forgotten \in BOOLEAN
  BY Zenon DEF ShiftInit
<1>3. Handshake /\ ShiftTypes
  BY DEF ShiftInit, Handshake, ShiftTypes
<1> QED BY <1>1, <1>2, <1>3 DEF ShiftInv

\* The steps of the FPGA task.
LEMMA FpgaTaskInv == ASSUME ShiftInv, FpgaTask PROVE ShiftInv'
<1>1. PllTypeOK'
  BY DEF ShiftInv, FpgaTask, PollFpga, TakeFraction, TakeDenominator, Request,
         WriteStatus, pllVars, PllTypeOK
<1>4. forgotten' \in BOOLEAN
  BY DEF ShiftInv, FpgaTask, PollFpga, TakeFraction, TakeDenominator, Request,
         WriteStatus, phaseVars
<1>2. busy' \in BOOLEAN
  <2>1. (ack # req) \in BOOLEAN
    OBVIOUS
  <2>2. CASE PollFpga
    <3>1. busy' = (ack # req) \/ busy' = busy
      BY <2>2 DEF PollFpga
    <3> QED BY <2>1, <3>1 DEF ShiftInv
  <2>3. CASE WriteStatus
    <3>1. busy' = (ack # req) \/ busy' = busy
      BY <2>3 DEF WriteStatus
    <3> QED BY <2>1, <3>1 DEF ShiftInv
  <2>4. CASE TakeFraction \/ TakeDenominator \/ Request
    BY <2>4 DEF TakeFraction, TakeDenominator, Request, ShiftInv
  <2> QED BY <2>2, <2>3, <2>4 DEF FpgaTask
<1>3. Handshake' /\ ShiftTypes'
  <2> USE DEF ShiftInv, Handshake, ShiftTypes, commandVars, phaserVars, phaseVars
  <2>1. CASE PollFpga
    <3>1. fpgaPc' \in {"poll", "check"}
      BY <2>1 DEF PollFpga
    <3> QED BY <2>1, <3>1 DEF PollFpga
  <2>2. CASE TakeFraction
    <3>1. numer' \in 0..15
      BY <2>2, FractionsAssumption DEF TakeFraction
    <3>2. fpgaPc' = "poll" \/ (fpgaPc' = "denom" /\ ack = req)
      BY <2>2 DEF TakeFraction
    <3> QED BY <2>2, <3>1, <3>2 DEF TakeFraction
  <2>3. CASE TakeDenominator
    <3>1. denom' \in 0..15
      BY <2>3, FractionsAssumption DEF TakeDenominator
    <3> QED BY <2>3, <3>1 DEF TakeDenominator
  <2>4. CASE Request
    <3>1. asked' \in Nat
      BY <2>4, ShiftType DEF Request
    <3> QED BY <2>4, <3>1 DEF Request
  <2>5. CASE WriteStatus
    BY <2>5 DEF WriteStatus
  <2> QED BY <2>1, <2>2, <2>3, <2>4, <2>5 DEF FpgaTask
<1> QED BY <1>1, <1>2, <1>3, <1>4 DEF ShiftInv

\* The steps of the PLL task.
LEMMA SetupPhaserInv == ASSUME ShiftInv, SetupPhaser PROVE ShiftInv'
<1>1. PllTypeOK' /\ busy' \in BOOLEAN /\ forgotten' \in BOOLEAN
  BY DEF ShiftInv, phaseVars, SetupPhaser, fpgaVars, pllVars, PllTypeOK
<1>2. Shift(numer, denom) \in Nat
  BY ShiftType DEF ShiftInv, ShiftTypes
<1>3. Handshake' /\ ShiftTypes'
  BY <1>2 DEF ShiftInv, SetupPhaser, PhaserComplete, Handshake, ShiftTypes,
              commandVars, fpgaVars, phaseVars
<1> QED BY <1>1, <1>3 DEF ShiftInv

\* The command keeps the invariant when it sees the acknowledge.
LEMMA AcknowledgeInv == ASSUME ShiftInv, Acknowledge PROVE ShiftInv'
<1>1. PllTypeOK' /\ busy' \in BOOLEAN /\ forgotten' \in BOOLEAN
  BY DEF ShiftInv, phaseVars, Acknowledge, fpgaVars, pllVars, PllTypeOK
<1>2. Handshake' /\ ShiftTypes'
  BY DEF ShiftInv, Acknowledge, Handshake, ShiftTypes, fpgaVars, phaserVars, phaseVars
<1> QED BY <1>1, <1>2 DEF ShiftInv

\* The phaser and the rest of the run keep the invariant.
LEMMA RunPhaserInv ==
    ASSUME ShiftInv, NEW d \in PllDurations, RunPhaser(d)
    PROVE  ShiftInv'
<1>1. PllTypeOK' /\ busy' \in BOOLEAN
  BY RunTypes DEF ShiftInv, RunPhaser, fpgaVars
<1>5. forgotten' \in BOOLEAN
  BY Zenon DEF ShiftInv, RunPhaser
<1>2. offset' \in Nat /\ offset' <= stop
  BY StepAssumption DEF ShiftInv, ShiftTypes, RunPhaser
<1>3. chip' \in {chip, offset'}
  BY DEF RunPhaser
<1>4. Handshake' /\ ShiftTypes'
  BY <1>2, <1>3 DEF ShiftInv, RunPhaser, Handshake, ShiftTypes, commandVars, fpgaVars
<1> QED BY <1>1, <1>4, <1>5 DEF ShiftInv

\* The other states of the driver keep the invariant.
LEMMA RunOtherInv ==
    ASSUME ShiftInv, NEW enable \in BOOLEAN, NEW d \in PllDurations, RunOther(enable, d)
    PROVE  ShiftInv'
<1>1. PllTypeOK' /\ busy' \in BOOLEAN
  BY RunTypes DEF ShiftInv, RunOther, fpgaVars
<1>5. forgotten' \in BOOLEAN
  BY Zenon DEF ShiftInv, RunOther
<1>2. chip' \in {0, chip, offset}
  BY DEF RunOther, ChipAfter
<1>3. Handshake' /\ ShiftTypes'
  BY <1>2 DEF ShiftInv, RunOther, Handshake, ShiftTypes, commandVars, fpgaVars,
              phaserVars
<1> QED BY <1>1, <1>3, <1>5 DEF ShiftInv

\* The end of the outages keeps the invariant.
LEMMA ChipBecomesGoodInv == ASSUME ShiftInv, ChipBecomesGood PROVE ShiftInv'
<1>1. PllTypeOK' /\ busy' \in BOOLEAN /\ forgotten' \in BOOLEAN
  BY GoodTypes DEF ShiftInv, ChipBecomesGood, fpgaVars, phaseVars
<1>2. Handshake' /\ ShiftTypes'
  BY DEF ShiftInv, ChipBecomesGood, Handshake, ShiftTypes, commandVars, fpgaVars,
         phaserVars, phaseVars
<1> QED BY <1>1, <1>2 DEF ShiftInv

\* And so does an outage.
LEMMA ChipOutageInv == ASSUME ShiftInv, ChipOutage PROVE ShiftInv'
<1>1. PllTypeOK' /\ busy' \in BOOLEAN
  BY OutageTypes DEF ShiftInv, ChipOutage, fpgaVars
<1>2. forgotten' \in BOOLEAN
  BY Zenon DEF ChipOutage
<1>3. Handshake' /\ ShiftTypes'
  BY DEF ShiftInv, ChipOutage, Handshake, ShiftTypes, commandVars, fpgaVars, phaserVars
<1> QED BY <1>1, <1>2, <1>3 DEF ShiftInv

\* The invariant does not depend on anything else.
LEMMA StutterInv == ASSUME ShiftInv, UNCHANGED shiftVars PROVE ShiftInv'
<1>1. PllTypeOK' /\ busy' \in BOOLEAN /\ forgotten' \in BOOLEAN
  BY DEF ShiftInv, phaseVars, shiftVars, fpgaVars, pllVars, PllTypeOK
<1>2. Handshake' /\ ShiftTypes'
  BY DEF ShiftInv, Handshake, ShiftTypes, shiftVars, commandVars, fpgaVars, phaserVars,
         phaseVars
<1> QED BY <1>1, <1>2 DEF ShiftInv

\* The handshake and the sums hold at every step of the two tasks.
THEOREM ShiftInvariant == ShiftSpec => []ShiftInv
<1>1. ShiftInit => ShiftInv
  BY ShiftInitInv
<1>2. ShiftInv /\ [ShiftNext]_shiftVars => ShiftInv'
  BY FpgaTaskInv, SetupPhaserInv, AcknowledgeInv, RunPhaserInv, RunOtherInv,
     ChipOutageInv, ChipBecomesGoodInv, StutterInv DEF ShiftNext, PollSteps
<1> QED BY <1>1, <1>2, PTL DEF ShiftSpec

\* Every variable stays in its type, one request at most waits, and the phase does not
\* go past its end, whatever the period and the step.
THEOREM ShiftTypeCorrect == ShiftSpec => []ShiftTypeOK
<1>1. ShiftInv => ShiftTypeOK
  BY DEF ShiftInv, Handshake, ShiftTypes, ShiftTypeOK
<1> QED BY <1>1, ShiftInvariant, PTL

-----------------------------------------------------------------------------

\* The shift that was handed over and not yet taken.
Waiting == IF req # phaserReq THEN Shift(numer, denom) ELSE 0

\* Every step keeps the sum of the shifts.
LEMMA SumKept ==
    ASSUME ShiftInv, ShiftsAddUp, [ShiftNext]_shiftVars
    PROVE  ShiftsAddUp'
<1>0. /\ asked = stop + Waiting
      /\ asked \in Nat /\ stop \in Nat /\ req \in Nat /\ Shift(numer, denom) \in Nat
      /\ offset \in Nat
  BY ShiftType DEF ShiftsAddUp, Waiting, ShiftInv, ShiftTypes, Handshake
<1>1. SUFFICES asked' = stop' + Waiting'
  BY DEF ShiftsAddUp, Waiting
<1>2. CASE UNCHANGED <<commandVars, phaserVars, asked>>
  BY <1>0, <1>2 DEF Waiting, commandVars, phaserVars
<1>3. CASE TakeFraction \/ TakeDenominator
  <2>1. CASE numer' = numer /\ denom' = denom
    BY <1>0, <1>3, <2>1 DEF TakeFraction, TakeDenominator, Waiting, phaserVars
  <2>2. CASE ~(numer' = numer /\ denom' = denom)
    <3>1. req = ack
      BY <1>3, <2>2 DEF TakeFraction, TakeDenominator, ShiftInv, Handshake
    <3>2. req = phaserReq
      BY <3>1 DEF ShiftInv, Handshake
    <3> QED BY <1>0, <1>3, <3>2 DEF TakeFraction, TakeDenominator, Waiting, phaserVars
  <2> QED BY <2>1, <2>2
<1>4. CASE Request
  <2>1. req = phaserReq
    BY <1>4 DEF Request, ShiftInv, Handshake
  <2>2. Waiting = 0 /\ Waiting' = Shift(numer, denom)
    BY <1>0, <1>4, <2>1 DEF Request, Waiting, phaserVars
  <2> QED BY <1>0, <1>4, <2>2 DEF Request, phaserVars
<1>5. CASE SetupPhaser
  <2>1. CASE req = ack
    BY <1>0, <1>5, <2>1 DEF SetupPhaser, Waiting, commandVars
  <2>2. CASE req # ack
    <3>1. phaserReq = ack
      BY <1>5 DEF SetupPhaser, ShiftInv, Handshake
    <3>2. Waiting = Shift(numer, denom) /\ Waiting' = 0
      BY <1>5, <2>2, <3>1 DEF SetupPhaser, Waiting, commandVars
    <3> QED BY <1>0, <1>5, <2>2, <3>2 DEF SetupPhaser, PhaserComplete
  <2> QED BY <2>1, <2>2
<1>6. CASE Acknowledge
  BY <1>0, <1>6 DEF Acknowledge, Waiting, phaserVars
<1>7. CASE \E d \in PllDurations : RunPhaser(d)
  BY <1>0, <1>7 DEF RunPhaser, Waiting, commandVars
<1> QED
  BY <1>2, <1>3, <1>4, <1>5, <1>6, <1>7
     DEF ShiftNext, FpgaTask, PollFpga, WriteStatus, PollSteps, RunOther,
         ChipOutage, ChipBecomesGood, shiftVars

\* No shift is lost, torn or done twice, for every clock period, step, set of fractions
\* and number of requests, whatever fails and however often the driver starts over.
THEOREM NoShiftLost == ShiftSpec => []ShiftsAddUp
<1>1. ShiftInit => ShiftsAddUp
  BY DEF ShiftInit, ShiftsAddUp
<1>2. ShiftInv /\ ShiftsAddUp /\ [ShiftNext]_shiftVars => ShiftsAddUp'
  BY SumKept
<1> QED BY <1>1, <1>2, ShiftInvariant, PTL DEF ShiftSpec

-----------------------------------------------------------------------------

\* Every step keeps the phase of the chip with a driver in RUN.
LEMMA ChipKept ==
    ASSUME ShiftInv, ChipFollows, [ShiftNext]_shiftVars
    PROVE  ChipFollows'
<1>1. CASE UNCHANGED <<pllState, chip, forgotten, offset>>
  BY <1>1 DEF ChipFollows
<1>2. CASE \E d \in PllDurations : RunPhaser(d)
  BY <1>2 DEF RunPhaser, ChipFollows
<1>4. CASE ChipOutage
  BY <1>4, Zenon DEF ChipOutage, PllOutage, ChipFollows
<1>3. ASSUME NEW enable \in BOOLEAN, NEW d \in PllDurations, RunOther(enable, d)
      PROVE  ChipFollows'
  <2>1. SUFFICES ASSUME pllState' = "RUN" PROVE chip' = offset'
    BY DEF ChipFollows
  <2>2. enable /\ RunState /\ pllEnable'
    BY <1>3, <2>1 DEF RunOther, PllRun, Shutdown
  <2>3. pllState = "SETUP"
    BY <1>3, <2>1, <2>2, RunStateResult DEF RunOther, Polls, ShiftInv
  <2>4. chip' = offset
    BY <1>3, <2>1, <2>2, <2>3 DEF RunOther, ChipAfter
  <2> QED BY <1>3, <2>4 DEF RunOther, phaserVars
<1> QED
  BY <1>1, <1>2, <1>3, <1>4
     DEF ShiftNext, FpgaTask, PollFpga, TakeFraction, TakeDenominator, Request,
         WriteStatus, PollSteps, SetupPhaser, Acknowledge, ChipBecomesGood,
         PllBecomesGood, shiftVars, pllVars, phaserVars, phaseVars

\* A chip whose driver is in RUN has the phase the phaser believes it has, also when it
\* has started over after a step that failed or after an outage, seen or not: the only
\* exception is a chip that an outage has reset since RUN was entered.
THEOREM ChipHasThePhase == ShiftSpec => []ChipFollows
<1>1. ShiftInit => ChipFollows
  BY DEF ShiftInit, PllInit, ChipFollows
<1>2. ShiftInv /\ ChipFollows /\ [ShiftNext]_shiftVars => ChipFollows'
  BY ChipKept
<1> QED BY <1>1, <1>2, ShiftInvariant, PTL DEF ShiftSpec

-----------------------------------------------------------------------------
(* AuxPll                                                                  *)

\* The elapsed time of the AD9516 keeps to its limit.
LEMMA AuxSaturateType ==
    ASSUME NEW t \in Nat
    PROVE  AuxSaturate(t) \in 0..MaxAuxTicks
BY AuxAssumption DEF AuxSaturate

\* The same, of its task.
LEMMA AuxTicksType ==
    ASSUME AuxTypeOK, AuxTask
    PROVE  auxTicks' \in 0..MaxAuxTicks
<1>1. auxTicks + 1 \in Nat
  BY AuxAssumption DEF AuxTypeOK
<1>2. AuxSaturate(auxTicks + 1) \in 0..MaxAuxTicks
  BY <1>1, AuxSaturateType
<1> QED BY <1>2, AuxAssumption DEF AuxTask

\* The states of auxpll_task_run, and the loss of power.
AuxStates ==
    \/ AuxInitState \/ AuxReset \/ AuxSetup \/ AuxRun
    \/ AuxPause \/ AuxError \/ AuxFatal \/ AuxShutdown

\* A state of the AD9516 keeps to the types of what it sets.
LEMMA AuxStatesTypes ==
    ASSUME AuxTypeOK, AuxStates
    PROVE  /\ auxState' \in AuxState
           /\ auxDevice' \in {"UNKNOWN", "NORMAL", "FAIL"}
           /\ dlock' \in BOOLEAN
           /\ auxRecovery' \in 0..(AuxLimit + 1)
           /\ auxChip' \in {"reset", "silent", "set"}
           /\ auxOutage' \in BOOLEAN
<1> USE AuxAssumption DEF AuxTypeOK, AuxState, AuxTo
<1>1. CASE AuxInitState
  BY <1>1 DEF AuxInitState
<1>2. CASE AuxReset
  BY <1>2 DEF AuxReset
<1>3. CASE AuxSetup
  BY <1>3 DEF AuxSetup
<1>4. CASE AuxRun
  <2>1. dlock' \in BOOLEAN
    BY <1>4, Zenon DEF AuxRun
  <2>2. /\ auxRecovery' \in {0, auxRecovery}
        /\ auxState' = "PAUSE" \/ auxState' = "ERROR"
        /\ UNCHANGED <<auxDevice, auxChip, auxOutage>>
    BY <1>4, Zenon DEF AuxRun
  <2> QED BY <2>1, <2>2
<1>5. CASE AuxPause
  BY <1>5 DEF AuxPause
<1>6. CASE AuxError
  BY <1>6 DEF AuxError
<1>7. CASE AuxFatal
  BY <1>7 DEF AuxFatal
<1>8. CASE AuxShutdown
  BY <1>8 DEF AuxShutdown
<1> QED BY <1>1, <1>2, <1>3, <1>4, <1>5, <1>6, <1>7, <1>8 DEF AuxStates

\* The recoveries stay within their limit, the other variables in their types.
THEOREM AuxTypeCorrect == AuxSpec => []AuxTypeOK
<1>1. ASSUME AuxInit PROVE AuxTypeOK
  <2>1. {dlock, auxPower, auxReady, auxOutage, auxGood} \subseteq BOOLEAN
    BY <1>1, Zenon DEF AuxInit
  <2>2. auxTicks \in 0..MaxAuxTicks /\ auxRecovery \in 0..(AuxLimit + 1)
    BY <1>1, AuxAssumption DEF AuxInit
  <2> QED BY <1>1, <2>1, <2>2 DEF AuxInit, AuxTypeOK, AuxState
<1>2. ASSUME AuxTypeOK, [AuxNext]_auxVars PROVE AuxTypeOK'
  <2>1. CASE AuxTask
    <3>1. AuxStates /\ UNCHANGED <<auxPower, auxGood>>
      BY <2>1 DEF AuxTask, AuxStates
    <3>2. auxReady' \in BOOLEAN
      BY <2>1 DEF AuxTask
    <3> QED BY <1>2, <2>1, <3>1, <3>2, AuxStatesTypes, AuxTicksType DEF AuxTypeOK
  <2>2. CASE AuxPowerChanges
    BY <1>2, <2>2 DEF AuxPowerChanges, AuxTypeOK
  <2>3. CASE AuxBecomesGood
    BY <1>2, <2>3 DEF AuxBecomesGood, AuxTypeOK
  <2>4. CASE UNCHANGED auxVars
    BY <1>2, <2>4 DEF auxVars, AuxTypeOK
  <2> QED BY <1>2, <2>1, <2>2, <2>3, <2>4 DEF AuxNext
<1> QED BY <1>1, <1>2, PTL DEF AuxSpec

-----------------------------------------------------------------------------

\* RUN and PAUSE have a chip that was set up; nothing else counts as ready.
AuxSetUp ==
    /\ auxReady => auxState \in {"RUN", "PAUSE"}
    /\ auxState \in {"RUN", "PAUSE"} => auxChip # "reset" \/ auxOutage

\* A clock that counts as ready is one of a chip that was set up, for all delays and
\* limits, whatever fails and however short the power is lost.
THEOREM ReadyMeansSetUp == AuxSpec => []ReadyIsSetUp
<1>1. AuxInit => AuxSetUp
  BY DEF AuxInit, AuxSetUp
<1>2. ASSUME AuxTypeOK, AuxSetUp, [AuxNext]_auxVars PROVE AuxSetUp'
  <2>1. CASE AuxTask
    <3>1. auxReady' = (auxState' \in {"RUN", "PAUSE"})
      BY <2>1 DEF AuxTask
    <3>2. ASSUME auxState' \in {"RUN", "PAUSE"} PROVE auxChip' # "reset" \/ auxOutage'
      <4>1. AuxSetup \/ AuxRun \/ AuxPause
        BY <2>1, <3>2 DEF AuxTask, AuxTo, AuxInitState, AuxReset, AuxError, AuxFatal, AuxShutdown
      <4>2. CASE AuxSetup
        BY <3>2, <4>2 DEF AuxSetup, AuxTo
      <4>3. CASE AuxRun
        BY <1>2, <4>3 DEF AuxRun, AuxTo, AuxSetUp
      <4>4. CASE AuxPause
        BY <1>2, <4>4 DEF AuxPause, AuxTo, AuxSetUp
      <4> QED BY <4>1, <4>2, <4>3, <4>4
    <3> QED BY <3>1, <3>2 DEF AuxSetUp
  <2>2. CASE AuxPowerChanges
    BY <1>2, <2>2 DEF AuxPowerChanges, AuxSetUp
  <2>3. CASE AuxBecomesGood
    BY <1>2, <2>3 DEF AuxBecomesGood, AuxSetUp
  <2>4. CASE UNCHANGED auxVars
    BY <1>2, <2>4 DEF auxVars, AuxSetUp
  <2> QED BY <1>2, <2>1, <2>2, <2>3, <2>4 DEF AuxNext
<1>3. AuxSetUp => ReadyIsSetUp
  BY DEF AuxSetUp, ReadyIsSetUp
<1> QED BY <1>1, <1>2, <1>3, AuxTypeCorrect, PTL DEF AuxSpec

-----------------------------------------------------------------------------

\* A state of the AD9516 is a step of the life cycle, or none.
LEMMA AuxPhaseStep ==
    ASSUME AuxTypeOK, AuxStates
    PROVE  [AuxLife!LifeNext]_(AuxLife!lifeVars)
<1> USE DEF AuxLife!LifeNext, AuxLife!lifeVars, AuxPhase, AuxTo
<1>1. CASE AuxInitState
  BY <1>1 DEF AuxInitState, AuxLife!Begins
<1>2. CASE AuxReset
  <2>1. UNCHANGED auxRecovery /\ auxState = "RESET" /\ auxState' \in {"ERROR", "SETUP", "RESET"}
    BY <1>2 DEF AuxReset
  <2> QED BY <2>1 DEF AuxLife!Starts
<1>3. CASE AuxSetup
  BY <1>3 DEF AuxSetup, AuxLife!Starts
<1>4. CASE AuxRun
  BY <1>4 DEF AuxRun, AuxLife!Works
<1>5. CASE AuxPause
  BY <1>5 DEF AuxPause, AuxLife!Works
<1>6. CASE AuxError
  BY <1>6 DEF AuxError, AuxLife!Retries, AuxLife!GivesUp
<1>7. CASE AuxFatal
  BY <1>7 DEF AuxFatal, AuxLife!StartsOver
<1>8. CASE AuxShutdown
  BY <1>8 DEF AuxShutdown, AuxLife!PowerLost
<1> QED BY <1>1, <1>2, <1>3, <1>4, <1>5, <1>6, <1>7, <1>8 DEF AuxStates

\* The driver of the AD9516 implements the life cycle of the clock drivers.
THEOREM AuxRefines == AuxSpec => AuxImplementsLifecycle
<1>1. AuxInit => AuxLife!LifeInit
  BY DEF AuxInit, AuxLife!LifeInit, AuxPhase
<1>2. ASSUME AuxTypeOK, [AuxNext]_auxVars PROVE [AuxLife!LifeNext]_(AuxLife!lifeVars)
  <2>1. CASE AuxTask
    <3>1. AuxStates
      BY <2>1 DEF AuxTask, AuxStates
    <3> QED BY <1>2, <3>1, AuxPhaseStep
  <2>2. CASE UNCHANGED <<auxState, auxRecovery>>
    BY <2>2 DEF AuxLife!lifeVars, AuxPhase
  <2> QED BY <1>2, <2>1, <2>2 DEF AuxNext, AuxPowerChanges, AuxBecomesGood, auxVars
<1> QED BY <1>1, <1>2, AuxTypeCorrect, PTL DEF AuxSpec, AuxImplementsLifecycle, AuxLife!LifeSpec

-----------------------------------------------------------------------------
(* The driver of the AD9548                                                *)

\* The elapsed time of the AD9548 keeps to its limit.
LEMMA SynTicksType ==
    ASSUME SynTypeOK, SynTask
    PROVE  synTicks' \in 0..MaxSynTicks
<1>1. SynSaturate(synTicks + 1) \in 0..MaxSynTicks
  BY SynAssumption DEF SynTypeOK, SynSaturate
<1> QED BY <1>1, SynAssumption DEF SynTask

\* The end of a run: it may only turn a watched state into ERROR, and outside the
\* watched states and ERROR no lock is left.
LEMMA EndResult ==
    ASSUME SynTypeOK, NEW s \in SynState, NEW c \in SynClock, End(s, c)
    PROVE  /\ synState' \in {s, "ERROR"}
           /\ s \notin Watched => synState' = s /\ synClock' = "unlocked"
           /\ synState' \in Watched => synClock' = c \/ synState' = "RUN"
           /\ synClock' \in SynClock
           /\ dpllLock' \in BOOLEAN
<1>1. ClockReads \subseteq SynClock
  BY DEF ClockReads, SynClock
<1>2. LockReads \subseteq BOOLEAN
  BY Zenon DEF LockReads
<1>3. dpllLock' \in BOOLEAN
  BY <1>2, Zenon DEF End
<1>4. \/ s \notin Watched /\ synState' = s /\ synClock' = "unlocked"
      \/ s \in Watched /\ synState' = "ERROR" /\ synClock' \in {c} \cup ClockReads
      \/ s \in Watched /\ synState' = s /\ synClock' = c
      \/ s = "RUN" /\ synState' = s /\ synClock' \in ClockReads
  <2>1. CASE s = "RUN" /\ Passes
    BY <2>1 DEF End, Watched
  <2>2. CASE ~(s = "RUN" /\ Passes)
    BY <2>2, Zenon DEF End
  <2> QED BY <2>1, <2>2
<1> QED BY <1>1, <1>3, <1>4 DEF SynClock, Watched

SynStates ==
    \/ SynInitState \/ SynReset \/ SynSetupSysclk \/ SynWaitLock \/ SynSetup
    \/ SynRun \/ SynError \/ SynFatal

\* Where a run goes from each state, and what becomes of the recoveries.
LEMMA SynStatesEnd ==
    ASSUME SynTypeOK, SynStates
    PROVE  \E s \in SynState, c \in SynClock :
              /\ End(s, c)
              /\ \/ /\ UNCHANGED synRecovery
                    /\ \/ synState = "INIT" /\ s \in {"RESET", "ERROR"}
                       \/ /\ synState = "RESET" /\ c = synClock
                          /\ s \in {"RESET", "SETUP_SYSCLK", "ERROR"}
                       \/ /\ synState = "SETUP_SYSCLK" /\ c = synClock
                          /\ s \in {"SYSCLK_WAITLOCK", "ERROR"}
                       \/ /\ synState = "SYSCLK_WAITLOCK"
                          /\ s \in {"SETUP", "SYSCLK_WAITLOCK", "ERROR"}
                          /\ s = "SYSCLK_WAITLOCK" => c # "stable"
                       \/ synState = "SETUP" /\ s \in {"RUN", "ERROR"}
                       \/ synState = "RUN" /\ s = "SYSCLK_WAITLOCK" /\ c = "unlocked"
                       \/ synState = "ERROR" /\ s = "FATAL" /\ synRecovery > SynLimit
                       \/ synState = s /\ s \in {"ERROR", "FATAL"}
                 \/ /\ synState = "ERROR" /\ s = "INIT" /\ synRecovery <= SynLimit
                    /\ synRecovery' = synRecovery + 1
                 \/ /\ synRecovery' = 0
                    /\ \/ synState = "RUN" /\ s = "RUN"
                       \/ synState = "FATAL" /\ s = "INIT"
<1> USE DEF SynState
<1>0. synClock \in SynClock /\ ClockReads \subseteq SynClock
  BY DEF SynTypeOK, ClockReads, SynClock
<1>1. CASE SynInitState
  BY <1>0, <1>1 DEF SynInitState
<1>2. CASE SynReset
  BY <1>0, <1>2 DEF SynReset
<1>3. CASE SynSetupSysclk
  BY <1>0, <1>3 DEF SynSetupSysclk
<1>4. CASE SynWaitLock
  <2>1. PICK failed \in BOOLEAN, c \in SynClock :
           End(IF synTicks > SynTimeout THEN "ERROR"
               ELSE IF c = "stable" THEN "SETUP"
               ELSE IF failed THEN "ERROR" ELSE "SYSCLK_WAITLOCK", c)
    BY <1>0, <1>4, Zenon DEF SynWaitLock
  <2>2. \E s \in {"ERROR", "SETUP", "SYSCLK_WAITLOCK"} :
           End(s, c) /\ (s = "SYSCLK_WAITLOCK" => c # "stable")
    BY <2>1
  <2> QED BY <1>4, <2>2 DEF SynWaitLock
<1>5. CASE SynSetup
  BY <1>0, <1>5 DEF SynSetup
<1>6. CASE SynRun
  BY <1>0, <1>6 DEF SynRun
<1>7. CASE SynError
  <2>1. synRecovery \in Nat /\ SynLimit \in Nat
    BY SynAssumption DEF SynTypeOK
  <2>2. CASE synRecovery > SynLimit
    BY <1>0, <1>7, <2>1, <2>2 DEF SynError
  <2>3. CASE synRecovery <= SynLimit /\ synTicks > SynErrorDelay
    BY <1>0, <1>7, <2>1, <2>3 DEF SynError
  <2>4. CASE synRecovery <= SynLimit /\ ~(synTicks > SynErrorDelay)
    BY <1>0, <1>7, <2>1, <2>4 DEF SynError
  <2> QED BY <2>1, <2>2, <2>3, <2>4
<1>8. CASE SynFatal
  BY <1>0, <1>8 DEF SynFatal
<1> QED BY <1>1, <1>2, <1>3, <1>4, <1>5, <1>6, <1>7, <1>8 DEF SynStates

\* A state of the AD9548 keeps to the types of what it sets.
LEMMA SynStatesTypes ==
    ASSUME SynTypeOK, SynStates
    PROVE  /\ synState' \in SynState
           /\ synDevice' \in {"UNKNOWN", "NORMAL", "FAIL"}
           /\ synClock' \in SynClock
           /\ dpllLock' \in BOOLEAN
           /\ synRecovery' \in 0..(SynLimit + 1)
           /\ synChip' \subseteq Registers
<1>1. /\ synState' \in SynState /\ synClock' \in SynClock /\ dpllLock' \in BOOLEAN
  BY SynStatesEnd, EndResult, Zenon DEF SynState
<1>2. synRecovery' \in 0..(SynLimit + 1)
  <2>1. \/ UNCHANGED synRecovery
        \/ synRecovery <= SynLimit /\ synRecovery' = synRecovery + 1
        \/ synRecovery' = 0
    BY SynStatesEnd, Zenon
  <2> QED BY <2>1, SynAssumption DEF SynTypeOK
<1>3. synDevice' \in {"UNKNOWN", "NORMAL", "FAIL"}
  <2>1. synDevice' = synDevice \/ synDevice' = "NORMAL" \/ synDevice' = "FAIL"
    BY Zenon DEF SynStates, SynInitState, SynReset, SynSetupSysclk, SynWaitLock, SynSetup,
       SynRun, SynError, SynFatal
  <2> QED BY <2>1 DEF SynTypeOK
<1>4. synChip' \subseteq Registers
  <2>1. \/ synChip' = synChip \/ synChip' = {}
        \/ \E r \in Registers : synChip' \in Written(r)
    BY DEF SynStates, SynInitState, SynReset, SynSetupSysclk, SynWaitLock, SynSetup,
       SynRun, SynError, SynFatal, Registers
  <2> QED BY <2>1 DEF SynTypeOK, Written, Registers
<1> QED BY <1>1, <1>2, <1>3, <1>4

\* The recoveries of the AD9548 stay within their limit, the other variables in their types.
THEOREM SynTypeCorrect == SynSpec => []SynTypeOK
<1>1. ASSUME SynInit PROVE SynTypeOK
  <2>1. dpllLock \in BOOLEAN /\ synPower \in BOOLEAN /\ synReady \in BOOLEAN
    BY <1>1, Zenon DEF SynInit
  <2>2. synTicks \in 0..MaxSynTicks /\ synRecovery \in 0..(SynLimit + 1)
    BY <1>1, SynAssumption DEF SynInit
  <2> QED BY <1>1, <2>1, <2>2 DEF SynInit, SynTypeOK, SynState, SynClock
<1>2. ASSUME SynTypeOK, [SynNext]_synVars PROVE SynTypeOK'
  <2>1. CASE SynTask
    <3>1. synReady' \in BOOLEAN /\ UNCHANGED <<synPower, synHealth>>
      BY <2>1 DEF SynTask
    <3>2. CASE SynStates
      BY <1>2, <2>1, <3>1, <3>2, SynStatesTypes, SynTicksType DEF SynTypeOK
    <3>3. CASE SynShutdown
      <4>1. /\ synState' = "INIT" /\ synChip' \in {synChip, {}}
            /\ UNCHANGED <<synClock, synRecovery>>
            /\ synDevice' = synDevice \/ synDevice' = "UNKNOWN"
        BY <3>3 DEF SynShutdown
      <4>2. dpllLock' \in BOOLEAN
        BY <1>2, <3>3, Zenon DEF SynShutdown, SynTypeOK
      <4>3. synTicks' \in 0..MaxSynTicks
        BY <1>2, <2>1, SynTicksType
      <4> QED BY <1>2, <3>1, <4>1, <4>2, <4>3 DEF SynTypeOK, SynState
    <3> QED BY <2>1, <3>2, <3>3 DEF SynTask, SynStates
  <2>2. CASE SynPowerChanges
    BY <1>2, <2>2 DEF SynPowerChanges, SynTypeOK
  <2>3. CASE SynHealthSettles
    BY <1>2, <2>3 DEF SynHealthSettles, SynTypeOK
  <2>4. CASE UNCHANGED synVars
    BY <1>2, <2>4 DEF synVars, chipVars, SynTypeOK
  <2> QED BY <1>2, <2>1, <2>2, <2>3, <2>4 DEF SynNext
<1> QED BY <1>1, <1>2, PTL DEF SynSpec

-----------------------------------------------------------------------------

\* No lock is left over when the driver begins to wait for one.
NoLockYet ==
    /\ NoOldLock
    /\ synState \in {"RESET", "SETUP_SYSCLK"} => synClock = "unlocked"

\* A lock that was read before, from an earlier start or before a loss of power, is
\* never taken for that of the chip that is being set up, for all delays and limits.
THEOREM LockIsNew == SynSpec => []NoOldLock
<1>1. SynInit => NoLockYet
  BY DEF SynInit, NoLockYet, NoOldLock
<1>2. ASSUME SynTypeOK, NoLockYet, [SynNext]_synVars PROVE NoLockYet'
  <2>1. CASE SynTask
    <3>1. CASE SynStates
      <4>1. PICK s \in SynState, c \in SynClock :
               /\ End(s, c)
               /\ s = "SYSCLK_WAITLOCK" => c # "stable"
               /\ s = "SETUP_SYSCLK" => c = "unlocked"
        BY <1>2, <3>1, SynStatesEnd, Zenon DEF NoLockYet
      <4>2. /\ synState' \in {s, "ERROR"}
            /\ s \notin Watched => synState' = s /\ synClock' = "unlocked"
            /\ synState' \in Watched => synClock' = c \/ synState' = "RUN"
        BY <1>2, <4>1, EndResult
      <4> QED BY <4>1, <4>2 DEF NoLockYet, NoOldLock, Watched
    <3>2. CASE SynShutdown
      BY <3>2 DEF SynShutdown, NoLockYet, NoOldLock
    <3> QED BY <2>1, <3>1, <3>2 DEF SynTask, SynStates
  <2>2. CASE UNCHANGED <<synState, synClock>>
    BY <1>2, <2>2 DEF NoLockYet, NoOldLock
  <2> QED BY <1>2, <2>1, <2>2
         DEF SynNext, SynPowerChanges, SynHealthSettles, synVars
<1>3. NoLockYet => NoOldLock
  BY DEF NoLockYet
<1> QED BY <1>1, <1>2, <1>3, SynTypeCorrect, PTL DEF SynSpec

-----------------------------------------------------------------------------

\* A state of the AD9548 is a step of the life cycle, or none.
LEMMA SynPhaseStep ==
    ASSUME SynTypeOK, SynStates
    PROVE  [SynLife!LifeNext]_(SynLife!lifeVars)
<1>1. PICK s \in SynState, c \in SynClock :
         /\ synState' \in {s, "ERROR"}
         /\ s \notin Watched => synState' = s
         /\ \/ /\ UNCHANGED synRecovery
               /\ \/ synState = "INIT" /\ s \in {"RESET", "ERROR"}
                  \/ synState = "RESET" /\ s \in {"RESET", "SETUP_SYSCLK", "ERROR"}
                  \/ synState = "SETUP_SYSCLK" /\ s \in {"SYSCLK_WAITLOCK", "ERROR"}
                  \/ /\ synState = "SYSCLK_WAITLOCK"
                     /\ s \in {"SETUP", "SYSCLK_WAITLOCK", "ERROR"}
                  \/ synState = "SETUP" /\ s \in {"RUN", "ERROR"}
                  \/ synState = "RUN" /\ s = "SYSCLK_WAITLOCK"
                  \/ synState = "ERROR" /\ s = "FATAL" /\ synRecovery > SynLimit
                  \/ synState = s /\ s \in {"ERROR", "FATAL"}
            \/ /\ synState = "ERROR" /\ s = "INIT" /\ synRecovery <= SynLimit
               /\ synRecovery' = synRecovery + 1
            \/ /\ synRecovery' = 0
               /\ \/ synState = "RUN" /\ s = "RUN"
                  \/ synState = "FATAL" /\ s = "INIT"
  BY SynStatesEnd, EndResult, Zenon
<1> QED BY <1>1
        DEF SynLife!LifeNext, SynLife!lifeVars, SynLife!Begins, SynLife!Starts, SynLife!Works,
            SynLife!Retries, SynLife!GivesUp, SynLife!StartsOver, SynPhase, Watched

\* The driver of the AD9548 implements the life cycle of the clock drivers.
THEOREM SynRefines == SynSpec => SynImplementsLifecycle
<1>1. SynInit => SynLife!LifeInit
  BY DEF SynInit, SynLife!LifeInit, SynPhase
<1>2. ASSUME SynTypeOK, [SynNext]_synVars PROVE [SynLife!LifeNext]_(SynLife!lifeVars)
  <2>1. CASE SynTask /\ SynStates
    BY <1>2, <2>1, SynPhaseStep
  <2>2. CASE SynShutdown
    BY <2>2 DEF SynShutdown, SynLife!LifeNext, SynLife!PowerLost, SynPhase
  <2>3. CASE UNCHANGED <<synState, synRecovery>>
    BY <2>3 DEF SynLife!lifeVars, SynPhase
  <2> QED BY <1>2, <2>1, <2>2, <2>3
         DEF SynNext, SynTask, SynStates, SynPowerChanges, SynHealthSettles, synVars
<1> QED BY <1>1, <1>2, SynTypeCorrect, PTL DEF SynSpec, SynImplementsLifecycle, SynLife!LifeSpec

\* All three drivers keep to the life cycle, for all limits and delays.
THEOREM ChipsRefine == ChipsSpec => ImplementLifecycle
BY GivesUpLate, PllRefines, AuxRefines, SynRefines, PTL DEF ChipsSpec, ImplementLifecycle

-----------------------------------------------------------------------------
(* The multiplexer of TQDC                                                 *)

MuxDevs == [state : FsmState, ticks : 0..MaxMuxTicks, status : {"UNKNOWN", "NORMAL", "FAIL"}]

\* An iteration that ends in a state and status keeps the device in its type.
LEMMA EndsType ==
    ASSUME NEW d \in MuxDevs, Ends(d)
    PROVE  muxDev' \in MuxDevs /\ muxDev'.state = d.state /\ route' = "run"
<1>1. MuxSaturate(d.ticks + 1) \in 0..MaxMuxTicks
  BY MuxAssumption DEF MuxDevs, MuxSaturate
<1> QED BY <1>1 DEF Ends, MuxDevs

\* So does a change of the state, with the status set or not.
LEMMA MuxChangeType ==
    ASSUME NEW d \in MuxDevs, NEW s \in FsmState
    PROVE  Change(d, s) \in MuxDevs /\ Change(d, s).state = s
<1>1. 0 \in 0..MaxMuxTicks
  BY MuxAssumption
<1>2. CASE s = d.state
  BY <1>2 DEF Change, MuxDevs
<1>3. CASE s # d.state
  BY <1>1, <1>3 DEF Change, MuxDevs
<1> QED BY <1>2, <1>3

LEMMA EndsChanged ==
    ASSUME NEW s \in FsmState, NEW status \in {"UNKNOWN", "NORMAL", "FAIL"}, muxDev \in MuxDevs,
           Ends([Change(muxDev, s) EXCEPT !.status = status])
    PROVE  muxDev' \in MuxDevs /\ muxDev'.state = s /\ route' = "run"
<1> DEFINE d == [Change(muxDev, s) EXCEPT !.status = status]
<1>1. d \in MuxDevs /\ d.state = s
  BY MuxChangeType DEF MuxDevs
<1> QED BY <1>1, EndsType

\* The first valid source is one.
LEMMA FirstValidType == \A valid : FirstValid(valid) \in Sources
BY DEF FirstValid, Sources

\* A source is applied while the driver is in RUN, through pins that the detection before
\* has made outputs, and between two setups the outputs are those of it.
PinsAreOutputs == muxDev.state \in {"RUN", "PAUSE"} /\ ~muxOutage => directions

MuxInv ==
    /\ MuxTypeOK
    /\ route # "run" => muxDev.state = "RUN"
    /\ PinsAreOutputs
    /\ OutputsOfOneSource

\* The parts of the run that set no output, and where they go.
MuxPasses == MuxShutdown \/ MuxReset \/ MuxWaits \/ SelectSource \/ SelectAuto

\* A part of the run that sets no output keeps its variables in their types, and comes to
\* PAUSE only from PAUSE, with the source as it is.
LEMMA MuxPassesTypes ==
    ASSUME MuxInv, MuxPasses
    PROVE  /\ muxDev' \in MuxDevs
           /\ errorCount' \in 0..MuxErrors
           /\ clkSource' \in ClkSources
           /\ route' \in {"run", "auto", "set"}
           /\ chosen' \in [from : Sought, pll : BOOLEAN]
           /\ route' # "run" => muxDev'.state = "RUN"
           /\ muxDev'.state = "PAUSE" => muxDev.state = "PAUSE" /\ UNCHANGED clkSource
           /\ muxDev'.state = "RUN" => muxDev.state \in {"RUN", "PAUSE"} \/ MuxReset
<1> USE DEF FsmState
<1>0. /\ muxDev \in MuxDevs /\ errorCount \in 0..MuxErrors /\ clkSource \in ClkSources
      /\ chosen \in [from : Sought, pll : BOOLEAN] /\ route \in {"run", "auto", "set"}
      /\ clockControl \in [bypass : BOOLEAN, valid : SUBSET Sources, source : Sought]
      /\ MuxErrors \in Nat
  BY MuxAssumption DEF MuxInv, MuxTypeOK, MuxDevs
<1>1. CASE MuxShutdown
  <2>1. PICK s \in {"RESET", "SHUTDOWN"} :
           Ends([Change(muxDev, s) EXCEPT !.status = "UNKNOWN"])
    BY <1>1 DEF MuxShutdown
  <2>2. muxDev' \in MuxDevs /\ muxDev'.state = s /\ route' = "run"
    BY <1>0, <2>1, EndsChanged
  <2> QED BY <1>0, <1>1, <2>2 DEF MuxShutdown
<1>2. CASE MuxReset
  <2>1. PICK broken \in BOOLEAN, s \in {"RUN", "ERROR", "RESET"} :
           /\ errorCount' = Failures(broken)
           /\ Ends([Change(muxDev, s) EXCEPT !.status = "UNKNOWN"])
    BY <1>2 DEF MuxReset, MuxBroken
  <2>2. muxDev' \in MuxDevs /\ muxDev'.state = s /\ route' = "run"
    BY <1>0, <2>1, EndsChanged
  <2>3. errorCount' \in 0..MuxErrors
    BY <1>0, <2>1 DEF Failures
  <2>4. clkSource' \in ClkSources
    BY <1>2 DEF MuxReset, ClkSources, Sources
  <2> QED BY <1>0, <1>2, <2>2, <2>3, <2>4 DEF MuxReset
<1>3. CASE MuxWaits
  <2>1. CASE muxDev.state = "PAUSE"
    <3>1. PICK s \in {"RUN", "PAUSE"} : Ends(Change(muxDev, s))
      BY <1>3, <2>1 DEF MuxWaits
    <3>2. muxDev' \in MuxDevs /\ muxDev'.state = s /\ route' = "run"
      BY <1>0, <3>1, MuxChangeType, EndsType
    <3> QED BY <1>0, <1>3, <2>1, <3>2 DEF MuxWaits
  <2>2. CASE muxDev.state = "ERROR"
    <3>1. PICK s \in {"RESET", "ERROR"} :
             Ends([Change(muxDev, s) EXCEPT !.status = "FAIL"])
      BY <1>3, <2>2 DEF MuxWaits
    <3>2. muxDev' \in MuxDevs /\ muxDev'.state = s /\ route' = "run"
      BY <1>0, <3>1, EndsChanged
    <3>3. errorCount' \in 0..MuxErrors
      BY <1>0, <1>3, <2>2 DEF MuxWaits
    <3> QED BY <1>0, <1>3, <2>2, <3>2, <3>3 DEF MuxWaits
  <2> QED BY <1>3, <2>1, <2>2 DEF MuxWaits
<1>4. CASE SelectSource
  <2>1. chosen' \in [from : Sought, pll : BOOLEAN]
    <3>1. CASE fpgaOk
      <4>1. PICK pll \in BOOLEAN : chosen' = [from |-> clockControl.source, pll |-> pll]
        BY <1>0, <1>4, <3>1, Zenon DEF SelectSource
      <4> QED BY <1>0, <4>1
    <3>2. CASE ~fpgaOk
      BY <1>4, <3>2 DEF SelectSource, Sought, Sources
    <3> QED BY <3>1, <3>2
  <2> QED BY <1>0, <1>4, <2>1 DEF SelectSource
<1>5. CASE SelectAuto
  <2>1. clkSource' \in ClkSources
    BY <1>0, <1>5, FirstValidType DEF SelectAuto, ClkSources
  <2>2. chosen' \in [from : Sought, pll : BOOLEAN]
    BY <1>5 DEF SelectAuto, Unchosen, Sought, Sources
  <2>3. muxDev.state = "RUN"
    BY <1>5, Zenon DEF SelectAuto, MuxInv
  <2> QED BY <1>0, <1>5, <2>1, <2>2, <2>3 DEF SelectAuto
<1> QED BY <1>1, <1>2, <1>3, <1>4, <1>5 DEF MuxPasses

Crossbars == [Outputs -> {"VXS", "AD9516_DIV3", "REFIN", "PLL_FB"}]

\* The inputs that have been loaded are inputs, and all eight steps of a setup apply the
\* source to all outputs.
LEMMA SetupLoads ==
    ASSUME MuxTypeOK
    PROVE  /\ \A done \in 0..8 : LoadAndConfigure(done) =>
                 loaded' \in Crossbars /\ crossbar' \in Crossbars
           /\ directions /\ LoadAndConfigure(8) => crossbar' = Inputs(clkSource)
<1>1. Inputs(clkSource) \in Crossbars
  BY DEF Inputs, Crossbars
<1>2. \A n : Loaded(n) \in Crossbars
  BY <1>1 DEF Loaded, MuxTypeOK, Crossbars
<1>3. \A done \in 0..8 : LoadAndConfigure(done) => loaded' \in Crossbars /\ crossbar' \in Crossbars
  BY <1>2 DEF LoadAndConfigure, MuxTypeOK, Crossbars
<1>4. ASSUME directions, LoadAndConfigure(8) PROVE crossbar' = Inputs(clkSource)
  <2>1. crossbar' = Loaded(4)
    BY <1>4 DEF LoadAndConfigure
  <2>2. Loaded(4) = [o \in Outputs |-> Inputs(clkSource)[o]]
    BY <1>4 DEF Loaded, Outputs
  <2> QED BY <1>1, <2>1, <2>2 DEF Crossbars
<1> QED BY <1>3, <1>4

\* A detection that succeeds leaves the pins outputs, and any keeps its variables in their
\* types.
LEMMA MuxResetResult ==
    ASSUME MuxInv, MuxReset
    PROVE  /\ directions' \in BOOLEAN /\ muxOutage' \in BOOLEAN
           /\ UNCHANGED <<portA, loaded, crossbar, setFailed>>
           /\ muxDev'.state = "RUN" => directions'
           /\ muxDev'.state # "PAUSE"
<1>1. muxDev \in MuxDevs /\ directions \in BOOLEAN
  BY DEF MuxInv, MuxTypeOK, MuxDevs
<1>2. PICK broken \in BOOLEAN :
         /\ Ends([Change(muxDev, IF ~broken THEN "RUN"
                                 ELSE IF errorCount' >= MuxErrors THEN "ERROR"
                                 ELSE "RESET") EXCEPT !.status = "UNKNOWN"])
         /\ directions' \in IF broken THEN {directions, TRUE} ELSE {TRUE}
         /\ muxOutage' = (muxOutage /\ broken)
  BY DEF MuxReset, MuxBroken, Detect
<1>3. directions' \in BOOLEAN /\ (~broken => directions')
  BY <1>1, <1>2
<1>4. muxOutage' \in BOOLEAN
  BY <1>2, Zenon
<1>5. CASE broken
  <2>1. muxDev'.state \in {"ERROR", "RESET"}
    BY <1>1, <1>2, <1>5, EndsChanged DEF FsmState
  <2> QED BY <1>3, <1>4, <2>1 DEF MuxReset
<1>6. CASE ~broken
  <2>1. muxDev'.state = "RUN"
    BY <1>1, <1>2, <1>6, EndsChanged DEF FsmState
  <2> QED BY <1>3, <1>4, <1>6, <2>1 DEF MuxReset
<1> QED BY <1>5, <1>6

\* A run of the multiplexer keeps the invariant.
LEMMA MuxRunKeepsInv == ASSUME MuxInv, MuxRun PROVE MuxInv'
<1>0. /\ muxDev \in MuxDevs /\ errorCount \in 0..MuxErrors /\ clkSource \in ClkSources
      /\ chosen \in [from : Sought, pll : BOOLEAN]
      /\ UNCHANGED <<muxPower, muxGood, fpgaOk, clockControl, pending>>
  BY DEF MuxRun, MuxInv, MuxTypeOK, MuxDevs, ccVars
<1>1. CASE MuxPasses /\ ~MuxReset /\ UNCHANGED <<chipsVars, setFailed, muxOutage>>
  <2>0. UNCHANGED <<directions, portA, loaded, crossbar, setFailed, muxOutage>>
    BY <1>1 DEF chipsVars
  <2>1. MuxTypeOK'
    BY <1>0, <1>1, <2>0, MuxPassesTypes DEF MuxInv, MuxTypeOK, MuxDevs
  <2>2. (route # "run" => muxDev.state = "RUN")'
    BY <1>1, MuxPassesTypes
  <2>3. ASSUME muxDev'.state = "PAUSE", ~setFailed', ~muxOutage' PROVE crossbar' = Inputs(clkSource)'
    <3>1. muxDev.state = "PAUSE" /\ UNCHANGED clkSource
      BY <1>1, <2>3, MuxPassesTypes
    <3>2. crossbar = Inputs(clkSource)
      BY <2>0, <2>3, <3>1, Zenon DEF MuxInv, OutputsOfOneSource
    <3> QED BY <2>0, <3>1, <3>2
  <2>4. ASSUME muxDev'.state \in {"RUN", "PAUSE"}, ~muxOutage' PROVE directions'
    <3>1. muxDev.state \in {"RUN", "PAUSE"}
      BY <1>1, <2>4, MuxPassesTypes
    <3> QED BY <2>0, <2>4, <3>1 DEF MuxInv, PinsAreOutputs
  <2> QED BY <2>1, <2>2, <2>3, <2>4 DEF MuxInv, OutputsOfOneSource, PinsAreOutputs
<1>2. CASE MuxReset
  <2>0. MuxPasses
    BY <1>2 DEF MuxPasses
  <2>1. MuxTypeOK'
    BY <1>0, <2>0, <1>2, MuxPassesTypes, MuxResetResult DEF MuxInv, MuxTypeOK, MuxDevs
  <2>2. (route # "run" => muxDev.state = "RUN")'
    BY <2>0, MuxPassesTypes
  <2> QED BY <1>2, <2>1, <2>2, MuxResetResult DEF MuxInv, OutputsOfOneSource, PinsAreOutputs
<1>3. CASE SetSource
  <2>1. muxDev' \in MuxDevs /\ muxDev'.state = "PAUSE" /\ route' = "run"
    BY <1>0, <1>3, EndsChanged DEF SetSource, SetEnds, FsmState
  <2>2. /\ UNCHANGED <<errorCount, clkSource, chosen, directions, portA, muxOutage>>
        /\ \/ LoadAndConfigure(8) /\ setFailed' = FALSE
           \/ (\E done \in 0..8 : LoadAndConfigure(done)) /\ setFailed' = TRUE
    BY <1>3 DEF SetSource
  <2>3. loaded' \in Crossbars /\ crossbar' \in Crossbars
    BY <2>2, SetupLoads DEF MuxInv
  <2>4. setFailed' \in BOOLEAN
    BY <2>2, Zenon
  <2>5. MuxTypeOK'
    BY <1>0, <2>1, <2>2, <2>3, <2>4 DEF MuxInv, MuxTypeOK, MuxDevs, Crossbars
  <2>6. ~muxOutage => directions
    <3>1. muxDev.state = "RUN"
      BY <1>3, Zenon DEF SetSource, MuxInv
    <3> QED BY <3>1 DEF MuxInv, PinsAreOutputs
  <2>7. ~setFailed' /\ ~muxOutage => crossbar' = Inputs(clkSource)
    BY <2>2, <2>6, SetupLoads, Zenon DEF MuxInv
  <2> QED BY <2>1, <2>2, <2>5, <2>6, <2>7 DEF MuxInv, OutputsOfOneSource, PinsAreOutputs
<1> QED BY <1>1, <1>2, <1>3 DEF MuxRun, MuxPasses

\* So does the environment: power that is switched, and what the FPGA task stores.
LEMMA MuxOthersKeepInv ==
    ASSUME MuxInv, MuxPowerChanges \/ MuxSettles \/ FpgaSide \/ UNCHANGED <<ccVars, muxVars>>
    PROVE  MuxInv'
<1>1. CASE MuxPowerChanges
  <2>1. muxPower' \in BOOLEAN
    BY <1>1, Zenon DEF MuxPowerChanges
  <2>2. [o \in Outputs |-> "VXS"] \in Crossbars /\ NoSelector \in [adc : BOOLEAN, tdc : BOOLEAN]
    BY DEF Crossbars, NoSelector
  <2>3. CASE UNCHANGED <<chipsVars, muxOutage>>
    <3>1. UNCHANGED <<directions, portA, loaded, crossbar, muxOutage>>
      BY <2>3 DEF chipsVars
    <3>2. MuxTypeOK'
      BY <1>1, <2>1, <3>1 DEF MuxPowerChanges, MuxInv, MuxTypeOK, ccVars
    <3> QED BY <1>1, <3>1, <3>2 DEF MuxPowerChanges, MuxInv, OutputsOfOneSource, PinsAreOutputs
  <2>4. CASE ChipsReset /\ muxOutage' = TRUE
    <3>1. MuxTypeOK'
      BY <1>1, <2>1, <2>2, <2>4
         DEF MuxPowerChanges, ChipsReset, MuxInv, MuxTypeOK, Crossbars, ccVars
    <3> QED BY <1>1, <2>4, <3>1 DEF MuxPowerChanges, MuxInv, OutputsOfOneSource, PinsAreOutputs
  <2> QED BY <1>1, <2>3, <2>4 DEF MuxPowerChanges
<1>2. CASE MuxSettles
  BY <1>2 DEF MuxSettles, MuxInv, MuxTypeOK, OutputsOfOneSource, PinsAreOutputs, chipsVars, ccVars
<1>3. CASE FpgaSide
  <2>1. /\ fpgaOk' \in BOOLEAN /\ pending' \subseteq Controls
        /\ clockControl' \in [bypass : BOOLEAN, valid : SUBSET Sources, source : Sought]
    <3>1. /\ fpgaOk \in BOOLEAN /\ pending \subseteq Controls
          /\ clockControl \in [bypass : BOOLEAN, valid : SUBSET Sources, source : Sought]
          /\ Controls \subseteq [valid : SUBSET Sources, source : Sought]
      BY MuxAssumption DEF MuxInv, MuxTypeOK
    <3>2. CASE CcStoreValid
      BY <3>1, <3>2 DEF CcStoreValid
    <3>3. CASE CcStoreSource
      BY <3>1, <3>3 DEF CcStoreSource
    <3>4. CASE CcStatus
      BY <3>1, <3>4, Zenon DEF CcStatus
    <3> QED BY <1>3, <3>2, <3>3, <3>4 DEF FpgaSide, CcNext
  <2> QED BY <1>3, <2>1
          DEF FpgaSide, muxVars, chipsVars, MuxInv, MuxTypeOK, OutputsOfOneSource, PinsAreOutputs
<1>4. CASE UNCHANGED <<ccVars, muxVars>>
  BY <1>4 DEF ccVars, muxVars, chipsVars, MuxInv, MuxTypeOK, OutputsOfOneSource, PinsAreOutputs
<1> QED BY <1>1, <1>2, <1>3, <1>4

LEMMA MuxInvariant == MuxSpec => []MuxInv
<1>1. ASSUME MuxInit PROVE MuxInv
  <2>1. /\ fpgaOk \in BOOLEAN /\ setFailed \in BOOLEAN /\ muxPower \in BOOLEAN /\ muxGood \in BOOLEAN
        /\ directions \in BOOLEAN /\ muxOutage \in BOOLEAN
        /\ clockControl \in [bypass : BOOLEAN, valid : SUBSET Sources, source : Sought]
        /\ pending \subseteq Controls
    BY <1>1, Zenon DEF MuxInit, CcInit, Booted, Sought
  <2>2. muxDev \in MuxDevs /\ muxDev.state = "SHUTDOWN" /\ errorCount \in 0..MuxErrors
    BY <1>1, MuxAssumption DEF MuxInit, MuxStart, MuxDevs, FsmState
  <2>3. clkSource \in ClkSources /\ chosen \in [from : Sought, pll : BOOLEAN]
    BY <1>1 DEF MuxInit, Unchosen, ClkSources, Sought, Sources
  <2>4. portA \in [adc : BOOLEAN, tdc : BOOLEAN] /\ loaded \in Crossbars /\ crossbar \in Crossbars
    BY <1>1 DEF MuxInit, NoSelector, Crossbars
  <2>5. MuxTypeOK
    BY <1>1, <2>1, <2>2, <2>3, <2>4 DEF MuxInit, MuxTypeOK, MuxDevs, Crossbars
  <2> QED BY <1>1, <2>2, <2>5 DEF MuxInit, MuxInv, OutputsOfOneSource, PinsAreOutputs
<1>2. MuxInv /\ [MuxNext]_<<ccVars, muxVars>> => MuxInv'
  BY MuxRunKeepsInv, MuxOthersKeepInv, Zenon DEF MuxNext
<1> QED BY <1>1, <1>2, PTL DEF MuxSpec

\* Every variable of the multiplexer of TQDC stays in its type, for all limits and delays
\* and whatever the FPGA asks for.
THEOREM MuxTypeCorrect == MuxSpec => []MuxTypeOK
<1>1. MuxInv => MuxTypeOK
  BY DEF MuxInv
<1> QED BY <1>1, MuxInvariant, PTL

\* Between two setups all outputs of TQDC's multiplexer have the inputs of the source that
\* the driver reports, unless a transfer of the last setup has failed, or an outage has
\* reset the expander since the driver last detected it.
THEOREM OutputsAreOfOneSource == MuxSpec => []OutputsOfOneSource
<1>1. MuxInv => OutputsOfOneSource
  BY DEF MuxInv
<1> QED BY <1>1, MuxInvariant, PTL

-----------------------------------------------------------------------------
(* All of them, each on its own                                            *)

\* The PLL task with the clock shift runs the driver of the AD9545 as its module says.
LEMMA ShiftRunsDriver == ShiftSpec => PllSpec
<1>1. ShiftInit => PllInit
  BY DEF ShiftInit
<1>2. ASSUME [ShiftNext]_shiftVars PROVE [PllNext]_pllVars
  <2>1. CASE FpgaTask \/ SetupPhaser \/ Acknowledge \/ UNCHANGED shiftVars
    BY <2>1, Zenon DEF FpgaTask, PollFpga, TakeFraction, TakeDenominator, Request, WriteStatus,
       SetupPhaser, Acknowledge, shiftVars
  <2>2. CASE \E d \in PllDurations : RunPhaser(d)
    BY <2>2, Zenon DEF RunPhaser, PllNext, PllTask
  <2>3. CASE \E enable \in BOOLEAN, d \in PllDurations : RunOther(enable, d)
    BY <2>3, Zenon DEF RunOther, PllNext, PllTask
  <2>4. CASE ChipBecomesGood \/ ChipOutage
    BY <2>4, Zenon DEF ChipBecomesGood, ChipOutage, PllNext
  <2> QED BY <1>2, <2>1, <2>2, <2>3, <2>4, Zenon DEF ShiftNext, PollSteps
<1> QED BY <1>1, <1>2, PTL DEF ShiftSpec, PllSpec

\* A behaviour of the units is one of each driver: a step of one is none of the others.
LEMMA UnitsRunAlone == UnitSpec => ShiftSpec /\ AuxSpec /\ SynSpec /\ MuxSpec
<1> DEFINE Next == Shifts \/ AuxClock \/ SynthClock \/ ClockSource
<1>1. UnitInit => ShiftInit /\ AuxInit /\ SynInit /\ MuxInit
  BY DEF UnitInit
<1>2. ASSUME [Next]_unitVars
      PROVE  /\ [ShiftNext]_shiftVars /\ [AuxNext]_auxVars /\ [SynNext]_synVars
             /\ [MuxNext]_<<ccVars, muxVars>>
  <2>1. CASE Shifts
    BY <2>1, Zenon DEF Shifts, clkVars
  <2>2. CASE AuxClock
    BY <2>2, Zenon DEF AuxClock, clkVars
  <2>3. CASE SynthClock
    BY <2>3, Zenon DEF SynthClock, clkVars
  <2>4. CASE ClockSource
    BY <2>4, Zenon DEF ClockSource
  <2>5. CASE UNCHANGED unitVars
    BY <2>5 DEF unitVars, clkVars
  <2> QED BY <1>2, <2>1, <2>2, <2>3, <2>4, <2>5
<1>3. UnitSpec => UnitInit /\ [][Next]_unitVars
  BY PTL DEF UnitSpec
<1> QED BY <1>1, <1>2, <1>3, PTL DEF ShiftSpec, AuxSpec, SynSpec, MuxSpec

\* Every variable of the four drivers stays in its type, and the recoveries of the three
\* chips in their limits, for all delays, limits, fractions and settings.
THEOREM ChipTypesCorrect == UnitSpec => []ChipTypesOK
<1>1. ShiftTypeOK /\ AuxTypeOK /\ SynTypeOK /\ MuxTypeOK => ChipTypesOK
  BY DEF ChipTypesOK
<1> QED BY <1>1, UnitsRunAlone, ShiftTypeCorrect, AuxTypeCorrect, SynTypeCorrect,
           MuxTypeCorrect, PTL

\* What is checked of the drivers in one run holds of them for all values of the
\* constants: their life cycle, the shifts, and that nothing old is shown or applied.
THEOREM UnitsKeepTheirPromises ==
    UnitSpec => /\ [](/\ StatusNotStale /\ ShiftsAddUp /\ ChipFollows /\ NoOldLock
                      /\ ReadyIsSetUp /\ OutputsOfOneSource)
                /\ ImplementLifecycle
<1>1. UnitSpec => PllSpec /\ ChipsSpec
  BY UnitsRunAlone, ShiftRunsDriver, PTL DEF ChipsSpec
<1> QED BY <1>1, UnitsRunAlone, StatusIsFresh, NoShiftLost, ChipHasThePhase, LockIsNew,
           ReadyMeansSetUp, OutputsAreOfOneSource, ChipsRefine, PTL

=============================================================================
