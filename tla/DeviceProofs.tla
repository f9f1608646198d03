---------------------------- MODULE DeviceProofs ----------------------------
(***************************************************************************)
(* What holds of the FPGA task and of its exchange of registers, for all   *)
(* delays, images and contents of the registers; of the potentiometers     *)
(* with their mailbox; and of the modules behind switches, for any number  *)
(* of channels, slots, modules and boards.                                 *)
(***************************************************************************)
EXTENDS MCDevices, TLAPS

\* The elapsed time keeps to its limit.
LEMMA FpgaSaturateType ==
    ASSUME NEW t \in Nat
    PROVE  FpgaSaturate(t) \in 0..MaxFpgaTicks
BY FpgaAssumption DEF FpgaSaturate

\* The states of fpga_task_run.
FpgaStates(i) ==
    \/ RunStandby(i) \/ RunLoad(i) \/ RunReset(i)
    \/ RunRun(i) \/ RunPause(i) \/ RunError(i)

\* A step of the state machine keeps to the types of what it sets.
LEMMA FpgaStatesTypes ==
    ASSUME FpgaTypeOK, NEW i \in Samples, FpgaStates(i)
    PROVE  /\ fpgaState' \in FpgaState
           /\ fpgaDevice' \in {"UNKNOWN", "NORMAL", "FAIL"}
           /\ access' \in {"none", "detect", "poll"}
<1> USE DEF FpgaTypeOK, FpgaState, Quietly
<1>1. CASE RunStandby(i)
  BY <1>1 DEF RunStandby
<1>2. CASE RunLoad(i)
  BY <1>2 DEF RunLoad
<1>3. CASE RunReset(i)
  BY <1>3 DEF RunReset, Detection
<1>4. CASE RunRun(i)
  BY <1>4 DEF RunRun
<1>5. CASE RunPause(i)
  BY <1>5 DEF RunPause
<1>6. CASE RunError(i)
  BY <1>6 DEF RunError
<1> QED BY <1>1, <1>2, <1>3, <1>4, <1>5, <1>6 DEF FpgaStates

\* Every variable of the FPGA task stays in its type.
THEOREM FpgaTypeCorrect == FpgaSpec => []FpgaTypeOK
<1>1. ASSUME FpgaInit PROVE FpgaTypeOK
  <2>1. sample \in Samples
    BY <1>1 DEF FpgaInit, Samples
  <2>2. fpgaTicks \in 0..MaxFpgaTicks
    BY <1>1, FpgaAssumption DEF FpgaInit
  <2> QED BY <1>1, <2>1, <2>2 DEF FpgaInit, FpgaTypeOK, FpgaState
<1>2. ASSUME FpgaTypeOK, [FpgaNext]_fpgaVars PROVE FpgaTypeOK'
  <2>1. CASE FpgaTask
    <3>1. PICK i \in Samples, d \in FpgaDurations : FpgaRun(i, d)
      BY <2>1 DEF FpgaTask
    <3>2. /\ fpgaState' \in FpgaState
          /\ fpgaDevice' \in {"UNKNOWN", "NORMAL", "FAIL"}
          /\ access' \in {"none", "detect", "poll"}
      BY <1>2, <3>1, FpgaStatesTypes DEF FpgaRun, FpgaStates
    <3>3. fpgaTicks' \in 0..MaxFpgaTicks
      <4>1. d \in Nat /\ fpgaTicks + d \in Nat
        BY <1>2, FpgaAssumption DEF FpgaTypeOK
      <4> QED BY <3>1, <4>1, FpgaSaturateType DEF FpgaRun
    <3>4. Samples' = Samples
      BY <3>1 DEF FpgaRun, Samples
    <3>5. /\ oldDone' \in {"never", "no", "yes"}
          /\ sample' \in Samples'
      BY <3>1, <3>4 DEF FpgaRun
    <3>6. interface' \in BOOLEAN
      BY <1>2, <3>1, Zenon DEF FpgaRun, FpgaTypeOK, Loaded, Samples
    <3>7. detected' \in BOOLEAN
      BY <3>1, Zenon DEF FpgaRun
    <3>8. overridden' \in BOOLEAN
      BY <3>1, Zenon DEF FpgaRun
    <3> QED BY <1>2, <3>1, <3>2, <3>3, <3>5, <3>6, <3>7, <3>8
         DEF FpgaRun, FpgaTypeOK
  <2>2. CASE FpgaBecomesGood
    BY <1>2, <2>2 DEF FpgaBecomesGood, FpgaTypeOK, Samples
  <2>3. CASE UNCHANGED fpgaVars
    BY <1>2, <2>3 DEF fpgaVars, FpgaTypeOK, Samples
  <2> QED BY <1>2, <2>1, <2>2, <2>3 DEF FpgaNext
<1> QED BY <1>1, <1>2, PTL DEF FpgaSpec

\* The interface is enabled since DONE was last seen, and the states that poll come
\* after a detection, or after the override.
FpgaInv ==
    /\ oldDone = "yes" => interface
    /\ fpgaState \in {"RUN", "PAUSE"} => detected \/ overridden

\* A step of the task keeps the invariant.
LEMMA FpgaRunKeepsInv ==
    ASSUME FpgaTypeOK, FpgaInv, NEW i \in Samples, NEW d \in FpgaDurations, FpgaRun(i, d)
    PROVE  FpgaInv' /\ PollsAreSafe'
<1>1. interface' = (IF oldDone' # oldDone THEN Loaded(i) ELSE interface)
  BY DEF FpgaRun
<1>2. oldDone' = (IF Loaded(i) THEN "yes" ELSE "no") /\ sample' = i
  BY DEF FpgaRun
<1>3. oldDone' = "yes" => Loaded(i) /\ interface'
  BY <1>1, <1>2 DEF FpgaInv
<1>4. detected' <=> Loaded(i) /\ (detected \/ (fpgaState' = "RUN" /\ access' = "detect"))
  BY DEF FpgaRun
<1>5. overridden' <=> IF fpgaState = "PAUSE" /\ ~Loaded(i) THEN fpgaState' = "RUN"
                      ELSE overridden /\ fpgaState' \notin {"STANDBY", "RESET"}
  BY DEF FpgaRun
<1>6. access' # "none" => Loaded(i)
  <2>1. ~donePin => i.done
    BY DEF Samples
  <2> QED BY <2>1 DEF FpgaRun, Quietly, RunStandby, RunLoad, RunReset, RunRun, RunPause,
               RunError, Loaded
<1>7. ASSUME fpgaState' \in {"RUN", "PAUSE"} \/ access' = "poll"
      PROVE  detected' \/ overridden'
  <2>1. RunReset(i) \/ RunRun(i) \/ RunPause(i)
    BY <1>7 DEF FpgaRun, Quietly, RunStandby, RunLoad, RunError
  <2>2. CASE RunReset(i)
    BY <1>4, <1>6, <1>7, <2>2 DEF RunReset, Quietly, Detection
  <2>3. CASE RunRun(i)
    BY <1>4, <1>5, <1>7, <2>3 DEF RunRun, Quietly, FpgaInv
  <2>4. CASE RunPause(i)
    BY <1>4, <1>5, <1>7, <2>4 DEF RunPause, Quietly, FpgaInv
  <2> QED BY <2>1, <2>2, <2>3, <2>4
<1> QED BY <1>2, <1>3, <1>6, <1>7
     DEF FpgaInv, PollsAreSafe, AccessNeedsInterface, DetectedBeforePolled

\* However the power, the clock and the pins go, every access to the registers finds
\* an FPGA that is powered, loaded, connected and detected, for all delays.
THEOREM AccessesAreSafe == FpgaSpec => []PollsAreSafe
<1>1. FpgaInit => FpgaInv /\ PollsAreSafe
  BY DEF FpgaInit, FpgaInv, PollsAreSafe, AccessNeedsInterface, DetectedBeforePolled
<1>2. ASSUME FpgaTypeOK, FpgaInv, PollsAreSafe, [FpgaNext]_fpgaVars
      PROVE  FpgaInv' /\ PollsAreSafe'
  <2>1. CASE FpgaTask
    BY <1>2, <2>1, FpgaRunKeepsInv DEF FpgaTask
  <2>2. CASE FpgaBecomesGood \/ UNCHANGED fpgaVars
    BY <1>2, <2>2 DEF FpgaBecomesGood, fpgaVars, FpgaInv, PollsAreSafe,
       AccessNeedsInterface, DetectedBeforePolled
  <2> QED BY <1>2, <2>1, <2>2 DEF FpgaNext
<1> QED BY <1>1, <1>2, FpgaTypeCorrect, PTL DEF FpgaSpec

-----------------------------------------------------------------------------
(* The exchange of registers.                                              *)

\* A reading mixes what the registers may hold, and either of them may be read again.
LEMMA ReadingParts ==
    ASSUME NEW r \in CoreReadings
    PROVE  /\ r.valid \in SUBSET {"VXS", "TTC"}
           /\ r.source \in {"AUTO", "LOCAL", "TTC", "VXS", "other"}
           /\ \A c \in CoreSettings : /\ [r EXCEPT !.valid = c.valid] \in CoreReadings
                                     /\ [r EXCEPT !.source = c.source] \in CoreReadings
BY RegsAssumption DEF CoreReadings

\* What the FPGA has where the ROM says is the contents of a core.
LEMMA CoreReads == RegsTypeOK => Core \subseteq CoreSettings
BY DEF RegsTypeOK, Core

\* Every variable of the exchange stays in its type, and no ROM counts as read that
\* was only cleared.
THEOREM RegsTypeCorrect == RegsSpec => []RegsTypeOK
<1>1. ASSUME RegsInit PROVE RegsTypeOK
  BY <1>1, RegsAssumption DEF RegsInit, RegsTypeOK, Steps, Controlled, C!Booted
<1>2. ASSUME RegsTypeOK, [RegsNext]_regsVars PROVE RegsTypeOK'
  <2> USE DEF RegsTypeOK
  <2>1. CASE Standby
    BY <1>2, <2>1 DEF Standby, Steps
  <2>2. CASE Detect
    BY <1>2, <2>2 DEF Detect, Steps
  <2>3. CASE Waits
    BY <1>2, <2>3 DEF Waits, Steps
  <2>4. CASE PollBegins
    BY <1>2, <2>4 DEF PollBegins, Steps
  <2>5. CASE ReadMagic
    BY <1>2, <2>5, RegsAssumption DEF ReadMagic, SdbFails, Steps
  <2>6. CASE ReadRom
    BY <1>2, <2>6, RegsAssumption DEF ReadRom, SdbFails, Steps
  <2>7. CASE CheckRom
    <3>1. crcValid' \in BOOLEAN
      <4>1. crcValid' = (rom \in Checked)
        BY <2>7 DEF CheckRom
      <4> QED BY <4>1
    <3>2. sdbRead' \in BOOLEAN /\ step' = "csr" /\ rom' = rom /\ rom # "zero"
      BY <1>2, <2>7 DEF CheckRom, SdbFails
    <3> QED BY <1>2, <2>7, <3>1, <3>2 DEF CheckRom, Steps
  <2>8. CASE ReadCsr
    BY <1>2, <2>8 DEF ReadCsr, Steps
  <2>9. CASE ReadClockStatus \/ ReadClockSource
    <3>1. regs' \in CoreReadings
      <4>0. Core \subseteq CoreSettings /\ regs \in CoreReadings
        BY <1>2, CoreReads
      <4>1. \A c \in Core : /\ [regs EXCEPT !.valid = c.valid] \in CoreReadings
                           /\ [regs EXCEPT !.source = c.source] \in CoreReadings
        BY <4>0, ReadingParts
      <4>2. CASE ReadClockStatus
        BY <4>0, <4>1, <4>2 DEF ReadClockStatus
      <4>3. CASE ReadClockSource
        BY <4>0, <4>1, <4>3 DEF ReadClockSource
      <4> QED BY <2>9, <4>2, <4>3
    <3>2. /\ step' \in {"clockSource", "valid", "writes", "error"}
          /\ sdbRead /\ step' \in {"clockSource", "valid", "writes"} => rom # "zero"
          /\ UNCHANGED <<fpga, rom, sdbRead, crcValid, csr, fpgaFound, clockSetting,
                        reloaded, regsGood>>
      BY <1>2, <2>9 DEF ReadClockStatus, ReadClockSource
    <3> QED BY <1>2, <3>1, <3>2 DEF Steps
  <2>10. CASE StoreValid
    BY <1>2, <2>10, ReadingParts DEF StoreValid, Steps, Controlled
  <2>11. CASE StoreSource
    BY <1>2, <2>11, ReadingParts DEF StoreSource, Steps, Controlled
  <2>12. CASE WriteStatus
    BY <1>2, <2>12 DEF WriteStatus, Steps
  <2>13. CASE FpgaChanges
    BY <1>2, <2>13 DEF FpgaChanges
  <2>14. CASE FpgaSettles
    BY <1>2, <2>14 DEF FpgaSettles
  <2>15. CASE UNCHANGED regsVars
    BY <1>2, <2>15 DEF regsVars
  <2> QED BY <1>2, <2>1, <2>2, <2>3, <2>4, <2>5, <2>6, <2>7, <2>8, <2>9, <2>10, <2>11,
          <2>12, <2>13, <2>14, <2>15 DEF RegsNext, RegsTask, FpgaPoll
<1> QED BY <1>1, <1>2, PTL DEF RegsSpec

\* The ROM of a poll, as long as the FPGA is not reloaded, is that of the image; one
\* that has proved whole has a checksum; and only an FPGA that was found is polled.
OwnRom == ~reloaded => rom = fpga.image
RegsInv ==
    /\ step \in {"rom", "check"} => OwnRom
    /\ step \in {"csr", "clock"} /\ sdbRead /\ crcValid => rom \in Checked /\ OwnRom
    /\ step \in {"clockSource", "valid", "source"} => rom \in Checked /\ OwnRom
    /\ step \notin {"standby", "detect", "error"} => fpgaFound = "NORMAL"

\* A step of the exchange keeps the invariant.
LEMMA RegsStepKeepsInv ==
    ASSUME RegsTypeOK, RegsInv, [RegsNext]_regsVars
    PROVE  RegsInv'
<1> USE DEF RegsInv, OwnRom
<1>1. CASE Standby \/ Detect \/ Waits
  BY <1>1 DEF Standby, Detect, Waits, RegsTypeOK, Steps
<1>2. CASE PollBegins
  BY <1>2 DEF PollBegins
<1>3. CASE ReadMagic
  BY <1>3 DEF ReadMagic, SdbFails
<1>4. CASE ReadRom
  BY <1>4 DEF ReadRom, SdbFails
<1>5. CASE CheckRom
  BY <1>5 DEF CheckRom, SdbFails
<1>6. CASE ReadCsr
  BY <1>6 DEF ReadCsr
<1>7. CASE ReadClockStatus \/ ReadClockSource
  BY <1>7 DEF ReadClockStatus, ReadClockSource
<1>8. CASE StoreValid \/ StoreSource \/ WriteStatus
  BY <1>8 DEF StoreValid, StoreSource, WriteStatus
<1>9. CASE FpgaChanges
  BY <1>9 DEF FpgaChanges
<1>10. CASE FpgaSettles \/ UNCHANGED regsVars
  BY <1>10 DEF FpgaSettles, regsVars
<1> QED BY <1>1, <1>2, <1>3, <1>4, <1>5, <1>6, <1>7, <1>8, <1>9, <1>10
     DEF RegsNext, RegsTask, FpgaPoll

\* The invariant holds of every behaviour.
LEMMA RegsInvariant == RegsSpec => []RegsInv
<1>1. RegsInit => RegsInv
  BY DEF RegsInit, RegsInv
<1> QED BY <1>1, RegsTypeCorrect, RegsStepKeepsInv, PTL DEF RegsSpec

\* The registers of the clock control are read where a ROM says that has proved whole,
\* in this very poll and of the image loaded, whatever transfers fail and whenever the
\* FPGA is reloaded.
THEOREM ClockReadChecked == RegsSpec => []ClockReadByItsRom
<1>1. RegsInv => ClockReadByItsRom
  BY DEF RegsInv, OwnRom, ClockReadByItsRom
<1> QED BY <1>1, RegsInvariant, PTL

\* The exchange keeps what the PLL task expects of clock_control (module ClockControl).
THEOREM RegsImplementsControl == RegsSpec => C!CcSpec
<1>1. RegsInit => C!CcInit
  BY DEF RegsInit, C!CcInit
<1>2. ASSUME RegsTypeOK, RegsInv, [RegsNext]_regsVars PROVE [C!CcNext]_(C!ccVars)
  <2> USE DEF C!ccVars, C!CcNext
  <2>1. CASE Standby \/ Detect \/ Waits
    <3>1. step # "source" /\ step' # "source" /\ UNCHANGED clockSetting
      BY <2>1 DEF Standby, Detect, Waits
    <3> QED BY <3>1 DEF C!CcStatus
  <2>2. CASE PollBegins \/ ReadMagic \/ ReadRom \/ CheckRom \/ ReadCsr \/ ReadClockStatus
             \/ ReadClockSource \/ WriteStatus
    <3>1. /\ step # "source" /\ step' # "source" /\ UNCHANGED <<clockSetting, fpgaFound>>
      BY <2>2 DEF PollBegins, ReadMagic, ReadRom, CheckRom, SdbFails, ReadCsr,
         ReadClockStatus, ReadClockSource, WriteStatus
    <3> QED BY <3>1
  <2>3. CASE StoreValid
    <3>1. fpgaFound = "NORMAL" /\ regs \in CoreReadings
      BY <1>2, <2>3 DEF StoreValid, RegsInv, RegsTypeOK
    <3> QED BY <2>3, <3>1 DEF StoreValid, C!CcStoreValid
  <2>4. CASE StoreSource
    BY <2>4 DEF StoreSource, C!CcStoreSource
  <2>5. CASE FpgaChanges \/ FpgaSettles \/ UNCHANGED regsVars
    BY <2>5 DEF FpgaChanges, FpgaSettles, regsVars
  <2> QED BY <1>2, <2>1, <2>2, <2>3, <2>4, <2>5 DEF RegsNext, RegsTask, FpgaPoll
<1> QED BY <1>1, <1>2, RegsTypeCorrect, RegsInvariant, PTL DEF RegsSpec, C!CcSpec

-----------------------------------------------------------------------------
(* Digipot                                                                 *)

\* The types, with the errors that are left outside FATAL; a block of the pool for every
\* mail in the queue; and RUN while the mail is looked at.
PotInv ==
    /\ DigipotTypeOK
    /\ potState # "FATAL" => retryCount < PotRetries
    /\ blocks = Len(mail)
    /\ batch > 0 => potState = "RUN"

\* An iteration keeps to the states, and the time to its limit.
LEMMA PotEnters ==
    ASSUME DigipotTypeOK, NEW to \in PotState, Enter(to)
    PROVE  potState' = to /\ potState' \in PotState /\ potTicks' \in 0..MaxPotTicks
BY DigipotAssumption DEF Enter, PotTicks, DigipotTypeOK

\* The power forgets the errors, and nothing else does here.
LEMMA RetriedType ==
    ASSUME PotInv
    PROVE  /\ Retried \in 0..PotRetries
           /\ potState # "FATAL" => Retried < PotRetries
           /\ ~potPower => Retried = 0
BY DigipotAssumption DEF Retried, PotInv, DigipotTypeOK

\* A wiper stays between its ends.
LEMMA MovedType ==
    ASSUME NEW v \in Position, NEW id, NEW start \in Position
    PROVE  Moved(v, id, start) \in Position
BY DigipotAssumption DEF Moved, Position

\* A command leaves the chips in their types.
LEMMA ExecuteTypes ==
    ASSUME DigipotTypeOK, NEW c \in Command, Execute(c)
    PROVE  rdac' \in [Pots -> Position] /\ eeprom' \in [Pots -> Position]
<1>1. /\ rdac \in [Pots -> Position] /\ eeprom \in [Pots -> Position]
      /\ c.arg \in Pots /\ rdac[c.arg] \in Position /\ eeprom[c.arg] \in Position
  BY DEF DigipotTypeOK, Command
<1>2. rdac' = [rdac EXCEPT ![c.arg] = Moved(rdac[c.arg], c.id, eeprom[c.arg])]
  BY DEF Execute
<1>3. Moved(rdac[c.arg], c.id, eeprom[c.arg]) \in Position
  BY <1>1, MovedType
<1>4. eeprom' = [eeprom EXCEPT ![c.arg] = rdac[c.arg]] \/ eeprom' = eeprom
  BY DEF Execute
<1>5. rdac' \in [Pots -> Position]
  BY <1>1, <1>2, <1>3
<1>6. eeprom' \in [Pots -> Position]
  BY <1>1, <1>4
<1> QED BY <1>5, <1>6

\* An iteration that does not look at the mail keeps the invariant.
LEMMA OtherIterations ==
    ASSUME PotInv, PotRunOther
    PROVE  PotInv' /\ (~potPower /\ potState' = "FATAL" => potState = "FATAL")
<1>1. DigipotTypeOK /\ UNCHANGED <<mailVars, typed, keys, eeprom, potPower, potsGood>>
  BY DEF PotInv, PotRunOther
<1>2. potState # "RUN"
  BY DEF PotRunOther, PotRunInit, PotRunDetect, PotRunError, PotRunFatal
<1>3. /\ \E to \in PotState : Enter(to)
      /\ normal' \subseteq Pots /\ shown' = shown /\ rdac' \in [Pots -> Position]
      /\ retryCount' \in 0..PotRetries
      /\ potState' # "FATAL" => retryCount' < PotRetries
      /\ ~potPower /\ potState' = "FATAL" => potState = "FATAL"
  <2>1. CASE PotRunInit
    BY <1>1, <2>1, RetriedType DEF PotRunInit, Enter, PotState, DigipotTypeOK
  <2>2. CASE PotRunDetect
    <3>1. PICK first \in Answering, second \in Answering, found \in SUBSET Pots :
             /\ normal' \in {first, second}
             /\ \E reset \in SUBSET Pots :
                   rdac' = [p \in Pots |-> IF p \in reset THEN eeprom[p] ELSE rdac[p]]
      BY <2>2 DEF PotRunDetect, Answering
    <3>2. first \subseteq Pots /\ second \subseteq Pots
      BY DEF Answering
    <3>3. rdac' \in [Pots -> Position]
      BY <1>1, <3>1 DEF DigipotTypeOK
    <3>4. /\ \E to \in {"RUN", "ERROR", "DETECT"} : Enter(to)
          /\ potState = "DETECT" /\ retryCount' = Retried /\ shown' = shown
      BY <2>2 DEF PotRunDetect
    <3> QED BY <3>1, <3>2, <3>3, <3>4, RetriedType DEF Enter, PotState
  <2>3. CASE PotRunError
    <3>1. PICK late \in {0, 1} :
             /\ retryCount' = Retried + late
             /\ \E to \in {"ERROR", "INIT", "FATAL"} :
                   /\ Enter(to)
                   /\ to = "ERROR" <=> late = 0
                   /\ to = "INIT" => retryCount' < PotRetries
                   /\ to = "FATAL" => retryCount' >= PotRetries
             /\ potState = "ERROR" /\ UNCHANGED <<normal, shown, rdac>>
      <4>1. CASE potTicks > PotErrorDelay
        BY <2>3, <4>1, RetriedType, DigipotAssumption DEF PotRunError
      <4>2. CASE ~(potTicks > PotErrorDelay)
        BY <2>3, <4>2, RetriedType, DigipotAssumption DEF PotRunError
      <4> QED BY <4>1, <4>2
    <3> QED BY <1>1, <3>1, RetriedType, DigipotAssumption DEF Enter, PotState, DigipotTypeOK
  <2>4. CASE PotRunFatal
    BY <1>1, <2>4, RetriedType DEF PotRunFatal, Enter, PotState, DigipotTypeOK
  <2> QED BY <2>1, <2>2, <2>3, <2>4 DEF PotRunOther
<1>4. potState' \in PotState /\ potTicks' \in 0..MaxPotTicks
  BY <1>1, <1>3, PotEnters
<1>5. DigipotTypeOK'
  BY <1>1, <1>3, <1>4 DEF DigipotTypeOK, mailVars
<1> QED BY <1>1, <1>2, <1>3, <1>5 DEF PotInv, mailVars

\* An iteration that looks at the mail keeps it.
LEMMA ReadingIteration ==
    ASSUME PotInv, PotRunRead
    PROVE  PotInv' /\ potState' # "FATAL"
<1>1. DigipotTypeOK /\ potState = "RUN" /\ batch = 0
  BY DEF PotInv, PotRunRead
<1>2. UNCHANGED <<normal, rdac, eeprom, mail, blocks, typed, keys, potPower, potsGood>>
  BY DEF PotRunRead
<1>3. /\ retryCount' = Retried /\ batchOk' = TRUE
      /\ \/ batch' = 1 /\ UNCHANGED <<potState, potTicks>>
         \/ batch' = 0 /\ Enter("ERROR")
  BY DEF PotRunRead
<1>4. shown' \in [Pots -> Position]
  BY <1>1 DEF PotRunRead, DigipotTypeOK
<1>5. /\ batch' \in 0..MailBatch
      /\ potState' \in PotState /\ potTicks' \in 0..MaxPotTicks
      /\ batch' > 0 => potState' = "RUN"
      /\ potState' # "FATAL"
  BY <1>1, <1>3, PotEnters, DigipotAssumption DEF DigipotTypeOK, PotState
<1>6. DigipotTypeOK'
  BY <1>1, <1>2, <1>3, <1>4, <1>5, RetriedType DEF DigipotTypeOK
<1> QED BY <1>1, <1>2, <1>3, <1>5, <1>6, RetriedType DEF PotInv

\* A command, executed or failed, takes its mail and its block.
LEMMA MailProcessed ==
    ASSUME PotInv, CheckMail
    PROVE  PotInv' /\ potState' # "FATAL"
<1>1. /\ DigipotTypeOK /\ potState = "RUN" /\ batch > 0
      /\ mail \in Seq(Command) /\ mail # <<>> /\ blocks = Len(mail)
  BY DEF PotInv, CheckMail, DigipotTypeOK
<1>2. Head(mail) \in Command /\ Tail(mail) \in Seq(Command) /\ Len(Tail(mail)) = Len(mail) - 1
  BY <1>1
<1>3. UNCHANGED <<retryCount, normal, shown, typed, keys, potPower, potsGood>>
  BY DEF CheckMail
<1>4. PICK ok \in BOOLEAN : Processed(ok)
  BY DEF CheckMail
<1>5. rdac' \in [Pots -> Position] /\ eeprom' \in [Pots -> Position]
  BY <1>1, <1>2, ExecuteTypes DEF CheckMail, chips, DigipotTypeOK
<1>6. /\ mail' = Tail(mail) /\ blocks' = blocks - 1
      /\ \/ /\ batch < MailBatch /\ batch' = batch + 1 /\ batchOk' = (batchOk /\ ok)
            /\ UNCHANGED <<potState, potTicks>>
         \/ batch' = 0 /\ batchOk' = TRUE /\ \E to \in {"RUN", "ERROR"} : Enter(to)
  BY <1>4 DEF Processed, Freed
<1>7. /\ batch' \in 0..MailBatch
      /\ potState' \in PotState /\ potTicks' \in 0..MaxPotTicks
      /\ batch' > 0 => potState' = "RUN"
      /\ potState' # "FATAL"
  <2>1. {"RUN", "ERROR"} \subseteq PotState
    BY DEF PotState
  <2> QED BY <1>1, <1>6, <2>1, PotEnters, DigipotAssumption DEF DigipotTypeOK
<1>8. batchOk' \in BOOLEAN
  BY <1>6, Zenon
<1>9. blocks' = Len(mail') /\ blocks' \in 0..MailSize /\ mail' \in Seq(Command)
  BY <1>1, <1>2, <1>6, DigipotAssumption DEF DigipotTypeOK
<1>10. DigipotTypeOK'
  BY <1>1, <1>3, <1>5, <1>7, <1>8, <1>9 DEF DigipotTypeOK
<1> QED BY <1>1, <1>3, <1>7, <1>9, <1>10 DEF PotInv

\* Every step keeps the invariant, and only one with power gives up.
LEMMA PotStep ==
    ASSUME PotInv, [DigipotNext]_potVars
    PROVE  /\ PotInv'
           /\ PotTask /\ ~potPower /\ potState' = "FATAL" => potState = "FATAL"
<1>1. CASE PotTask
  <2>1. CASE MailEmpty
    <3>1. /\ DigipotTypeOK /\ potState = "RUN"
          /\ batch' = 0 /\ batchOk' = TRUE /\ Enter("RUN")
          /\ UNCHANGED <<retryCount, normal, shown, mail, blocks, typed, keys, chips,
                         potPower, potsGood>>
      BY <2>1 DEF MailEmpty, PotInv
    <3>2. potState' = "RUN" /\ potTicks' \in 0..MaxPotTicks /\ 0 \in 0..MailBatch
      BY <3>1, PotEnters, DigipotAssumption DEF PotState
    <3> QED BY <3>1, <3>2 DEF PotInv, DigipotTypeOK, chips
  <2> QED BY <1>1, <2>1, OtherIterations, ReadingIteration, MailProcessed DEF PotTask
<1>2. CASE \E c \in Command : TypeKey(c)
  <2>1. PotInv'
    BY <1>2, DigipotAssumption DEF TypeKey, PotInv, DigipotTypeOK, taskVars, mailVars, chips
  <2>2. potState' = potState
    BY <1>2 DEF TypeKey, taskVars
  <2> QED BY <2>1, <2>2
<1>3. CASE SendCommand
  <2>1. /\ mail \in Seq(Command) /\ typed \in Command /\ blocks = Len(mail)
        /\ blocks \in 0..MailSize /\ blocks < MailSize
    BY <1>3 DEF SendCommand, PotInv, DigipotTypeOK
  <2>2. /\ mail' \in Seq(Command) /\ blocks' = Len(mail') /\ blocks' \in 0..MailSize
    BY <1>3, <2>1, DigipotAssumption DEF SendCommand
  <2> QED BY <1>3, <2>2 DEF SendCommand, PotInv, DigipotTypeOK, taskVars, chips
<1>4. CASE PowerSwitches \/ PotsBecomeGood \/ UNCHANGED potVars
  <2>1. potPower' \in BOOLEAN /\ potsGood' \in BOOLEAN
    BY <1>4, Zenon DEF PowerSwitches, PotsBecomeGood, potVars, PotInv, DigipotTypeOK
  <2>2. UNCHANGED <<taskVars, mailVars, typed, keys, chips>>
    BY <1>4 DEF PowerSwitches, PotsBecomeGood, potVars
  <2> QED BY <2>1, <2>2 DEF PotInv, DigipotTypeOK, taskVars, mailVars, chips
<1> QED BY <1>1, <1>2, <1>3, <1>4 DEF DigipotNext

\* Every variable of the potentiometers stays in its type, every block that is allocated
\* is on its way in the queue, whatever fails, and the task that executes the commands has
\* not stopped; and without power no potentiometer is given up.
THEOREM NoBlockLost ==
    DigipotInit /\ [][DigipotNext]_potVars
        => /\ [](DigipotTypeOK /\ BlocksQueued)
           /\ NotGivenUpUnpowered
<1>1. ASSUME DigipotInit PROVE PotInv
  <2>1. /\ 0 \in Position /\ 0 \in 0..MaxPotTicks /\ 0 \in 0..PotRetries /\ 0 < PotRetries
        /\ 0 \in 0..MailBatch /\ 0 \in 0..MailSize /\ 0 \in 0..MaxKeys
    BY DigipotAssumption DEF Position
  <2>2. /\ shown \in [Pots -> Position] /\ eeprom \in [Pots -> Position]
        /\ rdac \in [Pots -> Position]
    BY <1>1, <2>1 DEF DigipotInit
  <2>3. mail \in Seq(Command) /\ Len(mail) = 0
    BY <1>1 DEF DigipotInit
  <2>4. batchOk \in BOOLEAN /\ potPower \in BOOLEAN /\ potsGood \in BOOLEAN
    BY <1>1, Zenon DEF DigipotInit
  <2>5. /\ potState = "INIT" /\ potTicks = 0 /\ retryCount = 0 /\ normal = {} /\ batch = 0
        /\ blocks = 0 /\ typed = NoCommand /\ keys = 0
    BY <1>1 DEF DigipotInit
  <2>6. DigipotTypeOK
    BY <2>1, <2>2, <2>3, <2>4, <2>5 DEF DigipotTypeOK, PotState
  <2> QED BY <2>1, <2>3, <2>5, <2>6 DEF PotInv
<1>2. PotInv /\ [DigipotNext]_potVars => PotInv'
  BY PotStep
<1>3. PotInv /\ [DigipotNext]_potVars
        => [PotTask /\ ~potPower /\ potState' = "FATAL" => potState = "FATAL"]_potVars
  BY PotStep
<1>4. PotInv => DigipotTypeOK /\ BlocksQueued
  BY DEF PotInv, BlocksQueued
<1> QED BY <1>1, <1>2, <1>3, <1>4, PTL DEF NotGivenUpUnpowered

-----------------------------------------------------------------------------
(* Sfpiic                                                                  *)

\* A change of state keeps to the states, and the time to its limit.
LEMMA SfpGoes ==
    ASSUME SfpTypeOK, NEW to \in SfpState, Go(to)
    PROVE  sfpState' \in SfpState /\ sfpTicks' \in 0..MaxSfpTicks
BY SfpiicAssumption DEF Go, SfpTicks, SfpTypeOK

\* What the update knows past its selection, and past the identity.
SfpInv ==
    /\ SfpTypeOK
    /\ update # Idle => sfpState = "RUN" /\ update.ch \in Channels
    /\ update.step # "select" => update # Idle /\ switch = update.ch
    /\ update.step \notin {"select", "id"} =>
          status[update.ch].supported /\ status[update.ch].kind # "none"
    /\ PresentIsSupported

\* The channels come before SfpChannels, one after the other from 0.
LEMMA ChannelsInRange ==
    /\ Channels \subseteq 0..SfpChannels /\ SfpChannels \notin Channels
    /\ SfpChannels \in 0..SfpChannels /\ 0 \in Channels
    /\ \A c \in Channels : c + 1 < SfpChannels => c + 1 \in Channels
BY SfpiicAssumption DEF Channels

\* The end of a channel's update.
LEMMA SfpFinishes ==
    ASSUME SfpInv, update # Idle, NEW s \in ChannelStatus, Finish(s),
           s.present => s.supported /\ s.kind # "none",
           UNCHANGED sfpEnv,
           txDisable' \in [Channels -> SUBSET {"lanes", "reserved"}],
           cdr' \in [Channels -> BOOLEAN]
    PROVE  SfpInv'
<1> USE ChannelsInRange
<1>1. /\ SfpTypeOK /\ update.ch \in Channels /\ sfpState = "RUN"
      /\ update \in [ch : 0..SfpChannels, step : Step, lower : Slot]
      /\ status \in [Channels -> ChannelStatus]
  BY DEF SfpInv, SfpTypeOK
<1>2. status' = [status EXCEPT ![update.ch] = s]
  BY DEF Finish, Ch
<1>3. status' \in [Channels -> ChannelStatus]
  BY <1>1, <1>2
<1>4. \A c \in Channels : status'[c].present => status'[c].supported /\ status'[c].kind # "none"
  BY <1>1, <1>2 DEF SfpInv, PresentIsSupported
<1>5. CASE update.ch + 1 < SfpChannels
  <2>1. /\ update' = [Idle EXCEPT !.ch = update.ch + 1]
        /\ UNCHANGED <<sfpTask, switch>>
    BY <1>5 DEF Finish, Ch
  <2>2. /\ update' \in [ch : 0..SfpChannels, step : Step, lower : Slot]
        /\ update'.step = "select" /\ update'.ch \in Channels
    BY <1>1, <1>5, <2>1 DEF Idle, Step, Slot
  <2>3. SfpTypeOK'
    BY <1>1, <1>3, <2>1, <2>2 DEF SfpTypeOK, sfpEnv, sfpTask
  <2> QED BY <1>1, <1>4, <2>1, <2>2, <2>3 DEF SfpInv, PresentIsSupported, sfpTask
<1>6. CASE ~(update.ch + 1 < SfpChannels)
  <2>1. update' = Idle /\ Go("PAUSE") /\ UNCHANGED sfpDevice /\ switch' = SfpChannels
    BY <1>6 DEF Finish, Ch
  <2>2. update' \in [ch : 0..SfpChannels, step : Step, lower : Slot] /\ update'.step = "select"
    BY <2>1 DEF Idle, Step, Slot
  <2>3. sfpState' = "PAUSE" /\ sfpState' \in SfpState /\ sfpTicks' \in 0..MaxSfpTicks
    BY <1>1, <2>1, SfpGoes DEF Go, SfpState
  <2>4. SfpTypeOK'
    BY <1>1, <1>3, <2>1, <2>2, <2>3 DEF SfpTypeOK, sfpEnv
  <2> QED BY <1>4, <2>1, <2>2, <2>3, <2>4 DEF SfpInv, PresentIsSupported, Idle
<1> QED BY <1>5, <1>6

\* An update that ends with nothing changed but present.
LEMMA SfpReturns ==
    ASSUME SfpInv, update # Idle, NEW present \in BOOLEAN, Returns(present),
           present => update.step \notin {"select", "id"},
           UNCHANGED sfpEnv,
           txDisable' \in [Channels -> SUBSET {"lanes", "reserved"}],
           cdr' \in [Channels -> BOOLEAN]
    PROVE  SfpInv'
<1> DEFINE s == [status[Ch] EXCEPT !.present = present]
<1>1. status[update.ch] \in ChannelStatus
  BY DEF SfpInv, SfpTypeOK
<1>2. s \in ChannelStatus /\ s.present = present
      /\ s.supported = status[update.ch].supported /\ s.kind = status[update.ch].kind
  BY <1>1 DEF ChannelStatus, Ch
<1>3. Finish(s)
  BY DEF Returns
<1>4. s.present => s.supported /\ s.kind # "none"
  BY <1>2 DEF SfpInv
<1> HIDE DEF s
<1> QED BY <1>2, <1>3, <1>4, SfpFinishes

\* A step of the state machine, between two passes.
LEMMA SfpRuns ==
    ASSUME SfpInv, TaskSfpiicRun
    PROVE  SfpInv'
<1> USE ChannelsInRange
<1>1. SfpTypeOK /\ update = Idle /\ status \in [Channels -> ChannelStatus]
  BY DEF SfpInv, SfpTypeOK, TaskSfpiicRun
<1>2. switch' = SfpChannels /\ UNCHANGED <<txDisable, cdr, sfpEnv>>
  BY DEF TaskSfpiicRun
<1>3. CASE ShutDown
  <2>1. Cleared \in ChannelStatus /\ ~Cleared.present
    BY DEF Cleared, ChannelStatus, Slot
  <2>2. status' = [c \in Channels |-> Cleared] /\ UNCHANGED update /\ sfpDevice' = "UNKNOWN"
    BY <1>3 DEF ShutDown
  <2>3. sfpState' \in SfpState /\ sfpTicks' \in 0..MaxSfpTicks
    BY <1>1, <1>3, SfpGoes DEF ShutDown, SfpState
  <2>4. SfpTypeOK'
    BY <1>1, <1>2, <2>1, <2>2, <2>3 DEF SfpTypeOK, sfpEnv
  <2> QED BY <1>1, <2>1, <2>2, <2>4 DEF SfpInv, PresentIsSupported, Idle
<1>4. CASE SfpRunBegin
  <2>1. update' = [Idle EXCEPT !.ch = 0] /\ UNCHANGED <<sfpTask, status>> /\ sfpState = "RUN"
    BY <1>4 DEF SfpRunBegin
  <2>2. /\ update' \in [ch : 0..SfpChannels, step : Step, lower : Slot]
        /\ update'.step = "select" /\ update'.ch = 0
    BY <2>1 DEF Idle, Step, Slot
  <2>3. SfpTypeOK'
    BY <1>1, <1>2, <2>1, <2>2 DEF SfpTypeOK, sfpEnv, sfpTask
  <2> QED BY <2>1, <2>2, <2>3 DEF SfpInv, PresentIsSupported, sfpTask
<1>5. CASE SfpRunShutdown \/ SfpRunReset \/ SfpRunDelay
  <2>1. /\ UNCHANGED <<update, status>>
        /\ sfpDevice' \in {"UNKNOWN", "NORMAL", "FAIL"}
    BY <1>1, <1>5 DEF SfpRunShutdown, SfpRunReset, SfpRunDelay, SfpTypeOK
  <2>2. \E to \in SfpState : Go(to) /\ (to = "SHUTDOWN" => sfpState = "SHUTDOWN")
    BY <1>5 DEF SfpRunShutdown, SfpRunReset, SfpRunDelay, SfpState
  <2>3. /\ sfpState' \in SfpState /\ sfpTicks' \in 0..MaxSfpTicks
        /\ sfpState' = "SHUTDOWN" => sfpState = "SHUTDOWN"
    BY <1>1, <2>2, SfpGoes DEF Go
  <2>4. SfpTypeOK'
    BY <1>1, <1>2, <2>1, <2>3 DEF SfpTypeOK, sfpEnv
  <2> QED BY <1>1, <2>1, <2>3, <2>4 DEF SfpInv, PresentIsSupported, Idle
<1> QED BY <1>3, <1>4, <1>5 DEF TaskSfpiicRun

\* A step of an update that does not end it.
LEMMA SfpGoesOn ==
    ASSUME SfpInv, update # Idle, update.step # "select",
           update' \in [ch : 0..SfpChannels, step : Step, lower : Slot],
           update'.ch = update.ch, update'.step \notin {"select", "id"},
           NEW s \in ChannelStatus, status' = [status EXCEPT ![update.ch] = s],
           s.supported, s.kind # "none",
           UNCHANGED <<sfpTask, switch, sfpEnv>>,
           txDisable' \in [Channels -> SUBSET {"lanes", "reserved"}],
           cdr' \in [Channels -> BOOLEAN]
    PROVE  SfpInv'
<1>1. /\ SfpTypeOK /\ update.ch \in Channels /\ sfpState = "RUN"
      /\ status \in [Channels -> ChannelStatus]
  BY DEF SfpInv, SfpTypeOK
<1>2. status' \in [Channels -> ChannelStatus] /\ status'[update.ch] = s
  BY <1>1
<1>3. \A c \in Channels : status'[c].present => status'[c].supported /\ status'[c].kind # "none"
  BY <1>1 DEF SfpInv, PresentIsSupported
<1>4. SfpTypeOK'
  BY <1>1, <1>2 DEF SfpTypeOK, sfpEnv, sfpTask
<1>5. update' # Idle
  BY DEF Idle
<1> QED BY <1>1, <1>2, <1>3, <1>4, <1>5 DEF SfpInv, PresentIsSupported, sfpTask

\* What follows the identity is one of the last three steps.
LEMMA AfterIsStep == \A kind : After(kind) \in Step \ {"select", "id", "lower", "upper"}
BY DEF After, Step

\* A step of the update of a channel keeps the invariant.
LEMMA SfpUpdates ==
    ASSUME SfpInv, Update
    PROVE  SfpInv'
<1> DEFINE here == status[update.ch]
<1>1. /\ SfpTypeOK /\ update.ch \in Channels /\ sfpState = "RUN" /\ update # Idle
      /\ update \in [ch : 0..SfpChannels, step : Step, lower : Slot]
      /\ status \in [Channels -> ChannelStatus]
      /\ here \in ChannelStatus
      /\ txDisable \in [Channels -> SUBSET {"lanes", "reserved"}]
      /\ cdr \in [Channels -> BOOLEAN]
      /\ Plugged \in Slot
  BY DEF SfpInv, SfpTypeOK, Update, Plugged, Ch
<1>2. update.step \notin {"select", "id"} => here.supported /\ here.kind # "none"
  BY DEF SfpInv
<1>3. status = [status EXCEPT ![update.ch] = here]
  BY <1>1
<1>4. ASSUME NEW to \in Step
      PROVE  [update EXCEPT !.step = to] \in [ch : 0..SfpChannels, step : Step, lower : Slot]
  BY <1>1
<1>5. CASE UpdateSelect
  <2>1. CASE switch' = Ch /\ To("id") /\ UNCHANGED <<sfpTask, status>>
    <3>1. /\ update' \in [ch : 0..SfpChannels, step : Step, lower : Slot]
          /\ update'.step = "id" /\ update'.ch = update.ch /\ update' # Idle
      BY <1>1, <2>1 DEF To, Idle, Step
    <3>2. SfpTypeOK'
      BY <1>1, <1>5, <2>1, <3>1 DEF UpdateSelect, SfpTypeOK, sfpEnv, sfpTask, Ch
    <3> QED BY <1>1, <2>1, <3>1, <3>2 DEF SfpInv, PresentIsSupported, sfpTask, Ch
  <2>2. CASE /\ switch' \in {switch, Ch} /\ update' = Idle
             /\ sfpDevice' = "FAIL" /\ Go("ERROR") /\ UNCHANGED status
    <3>1. update' \in [ch : 0..SfpChannels, step : Step, lower : Slot] /\ update'.step = "select"
      BY <2>2, ChannelsInRange DEF Idle, Step, Slot
    <3>2. sfpState' = "ERROR" /\ sfpState' \in SfpState /\ sfpTicks' \in 0..MaxSfpTicks
      BY <1>1, <2>2, SfpGoes DEF Go, SfpState
    <3>3. switch' \in 0..SfpChannels
      BY <1>1, <2>2, ChannelsInRange DEF SfpTypeOK, Ch
    <3>4. SfpTypeOK'
      BY <1>1, <1>5, <2>2, <3>1, <3>2, <3>3 DEF UpdateSelect, SfpTypeOK, sfpEnv
    <3> QED BY <2>2, <3>1, <3>2, <3>4 DEF SfpInv, PresentIsSupported
  <2> QED BY <1>5, <2>1, <2>2 DEF UpdateSelect
<1>6. CASE UpdateId
  <2> DEFINE s == Identified(status[Ch], Plugged)
  <2>1. UNCHANGED <<txDisable, cdr, sfpEnv>>
    BY <1>6 DEF UpdateId
  <2>2. CASE Returns(FALSE)
    BY <1>1, <2>1, <2>2, SfpReturns
  <2>3. CASE MaySucceed
    <3>1. KindOf[Plugged] \in ModuleKind
      BY <1>1, <2>3, SfpiicAssumption DEF MaySucceed, Slot
    <3>2. s \in ChannelStatus /\ (s.present => s.supported /\ s.kind # "none")
      BY <1>1, <3>1 DEF Identified, ChannelStatus, ModuleKind, Ch
    <3> HIDE DEF s
    <3>3. CASE Finish(s)
      BY <1>1, <2>1, <3>2, <3>3, SfpFinishes
    <3>4. CASE /\ s.present /\ status' = [status EXCEPT ![Ch] = s]
               /\ To("lower") /\ UNCHANGED <<sfpTask, switch>>
      <4>1. /\ update' \in [ch : 0..SfpChannels, step : Step, lower : Slot]
            /\ update'.step = "lower" /\ update'.ch = update.ch
        BY <1>1, <3>4 DEF To, Step
      <4>2. update.step # "select"
        BY <1>6 DEF UpdateId
      <4> QED BY <1>1, <2>1, <3>2, <3>4, <4>1, <4>2, SfpGoesOn DEF Ch
    <3> QED BY <1>6, <2>2, <3>3, <3>4 DEF UpdateId, s
  <2> QED BY <1>6, <2>2, <2>3 DEF UpdateId
<1>7. CASE UpdateLower
  <2>1. /\ UNCHANGED <<sfpTask, switch, txDisable, cdr, sfpEnv>> /\ update.step = "lower"
    BY <1>7 DEF UpdateLower
  <2>2. After(here.kind) \in Step \ {"select", "id", "lower", "upper"}
    BY AfterIsStep
  <2>3. CASE To(After(status[Ch].kind)) /\ UNCHANGED status
    <3>1. /\ update' \in [ch : 0..SfpChannels, step : Step, lower : Slot]
          /\ update'.step \notin {"select", "id"} /\ update'.ch = update.ch
      BY <1>1, <2>2, <2>3 DEF To, Ch
    <3> QED BY <1>1, <1>2, <1>3, <2>1, <2>3, <3>1, SfpGoesOn
  <2>4. ASSUME MaySucceed,
               update' = [update EXCEPT !.lower = Plugged,
                              !.step = IF HasUpperPage(KindOf[Plugged]) THEN "upper"
                                       ELSE After(status[Ch].kind)],
               status' = [status EXCEPT ![Ch].vendor =
                              IF KindOf[Plugged] = "SFP" THEN Plugged ELSE @]
        PROVE  SfpInv'
    <3> DEFINE vendor == IF KindOf[Plugged] = "SFP" THEN Plugged ELSE here.vendor
               next == IF HasUpperPage(KindOf[Plugged]) THEN "upper" ELSE After(here.kind)
               s == [here EXCEPT !.vendor = vendor]
    <3>1. status' = [status EXCEPT ![update.ch] = s]
      BY <1>1, <2>4 DEF Ch
    <3>2. s \in ChannelStatus /\ s.supported = here.supported /\ s.kind = here.kind
      BY <1>1 DEF ChannelStatus
    <3>3. next \in Step \ {"select", "id"}
      BY <2>2 DEF Step
    <3>4. update' = [update EXCEPT !.lower = Plugged, !.step = next]
      BY <2>4 DEF Ch
    <3> HIDE DEF s, next
    <3>5. /\ update' \in [ch : 0..SfpChannels, step : Step, lower : Slot]
          /\ update'.step \notin {"select", "id"} /\ update'.ch = update.ch
      BY <1>1, <3>3, <3>4
    <3> QED BY <1>1, <1>2, <2>1, <3>1, <3>2, <3>5, SfpGoesOn
  <2> QED BY <1>7, <2>3, <2>4 DEF UpdateLower
<1>8. CASE UpdateUpper
  <2> DEFINE s == [here EXCEPT !.vendor = Plugged, !.dom = TRUE]
  <2>1. /\ UNCHANGED <<sfpTask, switch, txDisable, cdr, sfpEnv>> /\ update.step = "upper"
        /\ To(After(here.kind))
    BY <1>8 DEF UpdateUpper, Ch
  <2>2. After(here.kind) \in Step \ {"select", "id", "lower", "upper"}
    BY AfterIsStep
  <2>3. /\ update' \in [ch : 0..SfpChannels, step : Step, lower : Slot]
        /\ update'.step \notin {"select", "id"} /\ update'.ch = update.ch
    BY <1>1, <2>1, <2>2 DEF To
  <2>4. s \in ChannelStatus /\ s.supported = here.supported /\ s.kind = here.kind
    BY <1>1 DEF ChannelStatus
  <2>5. \/ status' = [status EXCEPT ![update.ch] = here]
        \/ status' = [status EXCEPT ![update.ch] = s]
    BY <1>1, <1>3, <1>8 DEF UpdateUpper, Ch
  <2> HIDE DEF s
  <2> QED BY <1>1, <1>2, <2>1, <2>3, <2>4, <2>5, SfpGoesOn
<1>9. CASE UpdateClear
  <2>1. UNCHANGED <<txDisable, sfpEnv>> /\ cdr' \in [Channels -> BOOLEAN] /\ update.step = "clear"
    BY <1>1, <1>9 DEF UpdateClear, Ch
  <2>2. CASE Returns(FALSE)
    BY <1>1, <2>1, <2>2, SfpReturns
  <2>3. CASE To("enable") /\ UNCHANGED <<sfpTask, status, switch>>
    <3>1. /\ update' \in [ch : 0..SfpChannels, step : Step, lower : Slot]
          /\ update'.step \notin {"select", "id"} /\ update'.ch = update.ch
      BY <1>1, <2>3 DEF To, Step
    <3> QED BY <1>1, <1>2, <1>3, <2>1, <2>3, <3>1, SfpGoesOn
  <2> QED BY <1>9, <2>2, <2>3 DEF UpdateClear
<1>10. CASE UpdateDom
  <2>1. UNCHANGED <<txDisable, cdr, sfpEnv>> /\ update.step = "dom"
    BY <1>10 DEF UpdateDom
  <2>2. PICK present \in BOOLEAN, dom \in BOOLEAN :
           Finish([here EXCEPT !.present = present, !.dom = dom])
    BY <1>10 DEF UpdateDom, Ch
  <2>3. /\ [here EXCEPT !.present = present, !.dom = dom] \in ChannelStatus
        /\ [here EXCEPT !.present = present, !.dom = dom].supported
        /\ [here EXCEPT !.present = present, !.dom = dom].kind # "none"
    BY <1>1, <1>2, <2>1 DEF ChannelStatus
  <2> QED BY <1>1, <2>1, <2>2, <2>3, SfpFinishes
<1>11. CASE UpdateEnable
  <2>1. /\ UNCHANGED <<cdr, sfpEnv>> /\ update.step = "enable"
        /\ \E present \in BOOLEAN : Returns(present)
    BY <1>11 DEF UpdateEnable
  <2>2. txDisable' \in [Channels -> SUBSET {"lanes", "reserved"}]
    <3>1. WithLanes(txDisable[update.ch]) \in SUBSET {"lanes", "reserved"}
      BY <1>1 DEF WithLanes
    <3>2. \/ UNCHANGED txDisable
          \/ txDisable' = [txDisable EXCEPT ![update.ch] = WithLanes(txDisable[update.ch])]
      BY <1>11 DEF UpdateEnable, Ch
    <3> QED BY <1>1, <3>1, <3>2
  <2> QED BY <1>1, <2>1, <2>2, SfpReturns
<1> QED BY <1>5, <1>6, <1>7, <1>8, <1>9, <1>10, <1>11 DEF Update

\* Every variable of the SFP driver stays in its type, a channel is read only while the switch
\* connects it alone, and what is shown as present has been identified and is not a
\* status that the power has left behind.
THEOREM SlotsReadAlone ==
    SfpInit /\ [][SfpNext]_sfpVars => [](SfpTypeOK /\ ReadsOwnSlot /\ PresentIsSupported)
<1>1. ASSUME SfpInit PROVE SfpInv
  <2>1. SfpTypeOK
    <3>1. Cleared \in ChannelStatus
      BY DEF Cleared, ChannelStatus, Slot
    <3>2. Idle \in [ch : 0..SfpChannels, step : Step, lower : Slot]
      BY SfpiicAssumption DEF Idle, Step, Slot
    <3>3. 0 \in 0..MaxSfpTicks /\ 0 \in 0..MaxSwaps /\ SfpChannels \in 0..SfpChannels
      BY SfpiicAssumption
    <3>4. status \in [Channels -> ChannelStatus] /\ slots \in [Channels -> Slot]
      BY <1>1, <3>1 DEF SfpInit, Slot
    <3>5. /\ txDisable \in [Channels -> SUBSET {"lanes", "reserved"}]
          /\ cdr \in [Channels -> BOOLEAN]
      BY <1>1 DEF SfpInit
    <3> QED BY <1>1, <3>2, <3>3, <3>4, <3>5 DEF SfpInit, SfpTypeOK, SfpState
  <2> QED BY <1>1, <2>1 DEF SfpInit, SfpInv, PresentIsSupported, Idle, Cleared
<1>2. ASSUME SfpInv, [SfpNext]_sfpVars PROVE SfpInv'
  <2>1. CASE SfpTask
    BY <1>2, <2>1, SfpRuns, SfpUpdates DEF SfpTask
  <2>2. CASE \E c \in Channels, m \in Slot : Plug(c, m)
    <3>1. PICK c \in Channels, m \in Slot : Plug(c, m)
      BY <2>2
    <3>2. /\ slots' \in [Channels -> Slot]
          /\ txDisable' \in [Channels -> SUBSET {"lanes", "reserved"}]
          /\ cdr' \in [Channels -> BOOLEAN]
      BY <1>2, <3>1 DEF Plug, SfpInv, SfpTypeOK
    <3>3. swaps' \in 0..MaxSwaps
      BY <1>2, <3>1, SfpiicAssumption DEF Plug, SfpInv, SfpTypeOK
    <3>4. SfpTypeOK'
      BY <1>2, <3>1, <3>2, <3>3 DEF Plug, SfpInv, SfpTypeOK, sfpTask
    <3> QED BY <1>2, <3>1, <3>4 DEF Plug, SfpInv, PresentIsSupported, sfpTask
  <2>3. CASE SfpPowerSwitches \/ SfpHealthSettles \/ UNCHANGED sfpVars
    <3>1. /\ UNCHANGED <<sfpTask, update, status, switch, slots, txDisable, cdr, swaps>>
          /\ sfpPower' \in BOOLEAN /\ sfpHealth' \in {"faulty", "good", "dead"}
      BY <1>2, <2>3 DEF SfpPowerSwitches, SfpHealthSettles, sfpVars, sfpEnv, SfpInv, SfpTypeOK
    <3>2. SfpTypeOK'
      BY <1>2, <3>1 DEF SfpInv, SfpTypeOK, sfpTask
    <3> QED BY <1>2, <3>1, <3>2 DEF SfpInv, PresentIsSupported, sfpTask
  <2> QED BY <1>2, <2>1, <2>2, <2>3 DEF SfpNext
<1>3. SfpInv => SfpTypeOK /\ ReadsOwnSlot /\ PresentIsSupported
  BY DEF SfpInv, ReadsOwnSlot
<1> QED BY <1>1, <1>2, <1>3, PTL

-----------------------------------------------------------------------------
(* VxsMaster                                                               *)

\* Past the selection the multiplexers are as it has left them.
PassType ==
    [slot : VxsSlots \cup {0}, words : SUBSET Boards, read : Nat,
     step : {"select", "detect", "board", "magic", "word", "count", "sensor", "rest", "write"}]

SelectedInv ==
    /\ pass \in PassType
    /\ pass.step = "select" => pass = At(pass.slot)
    /\ pass.step # "select" =>
         /\ pass.slot \in VxsSlots
         /\ vxsMux = [MuxReset EXCEPT ![ChipOf[pass.slot]] = {ChannelOf[pass.slot]}]

\* A slot begins with the selection of its channel.
LEMMA SlotBegins ==
    ASSUME NEW s \in VxsSlots \cup {0}
    PROVE  At(s) \in PassType /\ At(s).step = "select" /\ At(s).slot = s
BY DEF At, PassType

\* The end of a slot, which leads to the selection of another.
LEMMA SlotEnds ==
    ASSUME SelectedInv, NEW present \in BOOLEAN, SlotDone(present)
    PROVE  SelectedInv'
BY SlotBegins DEF SlotDone, First, Resting, SelectedInv

\* A step past the selection that leaves the multiplexers alone.
LEMMA SlotGoesOn ==
    ASSUME SelectedInv, pass.step # "select", UNCHANGED vxsMux,
           pass' \in PassType, pass'.slot = pass.slot, pass'.step # "select"
    PROVE  SelectedInv'
BY DEF SelectedInv

\* The next step of the same slot.
LEMMA SlotSteps ==
    ASSUME SelectedInv,
           NEW to \in {"detect", "board", "magic", "word", "count", "sensor", "rest", "write"},
           pass' = [pass EXCEPT !.step = to, !.read = 0]
    PROVE  pass' \in PassType /\ pass'.slot = pass.slot /\ pass'.step = to
BY DEF SelectedInv, PassType

\* The reading of words goes on in the same slot.
LEMMA SlotReads ==
    ASSUME SelectedInv, pass.step # "select", NEW words \in SUBSET Boards,
           NEW to \in {"count", "write"},
           \/ pass' = [pass EXCEPT !.step = "rest", !.words = words]
           \/ pass' = [pass EXCEPT !.words = words, !.read = @ + 1]
           \/ pass' = [At(pass.slot) EXCEPT !.step = "sensor", !.read = pass.read + 1]
           \/ pass' = [At(pass.slot) EXCEPT !.step = to]
    PROVE  pass' \in PassType /\ pass'.slot = pass.slot /\ pass'.step # "select"
<1>1. pass.slot \in VxsSlots \cup {0} /\ pass \in PassType /\ pass.read + 1 \in Nat
  BY DEF SelectedInv, PassType
<1>2. CASE pass' = [At(pass.slot) EXCEPT !.step = to]
  <2>1. pass' = [slot |-> pass.slot, step |-> to, words |-> {}, read |-> 0]
    BY <1>2 DEF At
  <2> QED BY <1>1, <2>1 DEF PassType
<1>3. CASE pass' = [At(pass.slot) EXCEPT !.step = "sensor", !.read = pass.read + 1]
  <2>1. pass' = [slot |-> pass.slot, step |-> "sensor", words |-> {}, read |-> pass.read + 1]
    BY <1>3 DEF At
  <2> QED BY <1>1, <2>1 DEF PassType
<1>4. CASE pass' = [pass EXCEPT !.step = "rest", !.words = words]
  BY <1>1, <1>4 DEF PassType
<1>5. CASE pass' = [pass EXCEPT !.words = words, !.read = @ + 1]
  BY <1>1, <1>5 DEF PassType
<1> QED BY <1>2, <1>3, <1>4, <1>5

\* The pass and the selection are kept by every step.
LEMMA SelectedInvariant == VxsSpec => []SelectedInv
<1>1. ASSUME VxsInit PROVE SelectedInv
  BY <1>1, SlotBegins DEF VxsInit, SelectedInv, Resting
<1>2. ASSUME SelectedInv, [VxsNext]_vxsVars PROVE SelectedInv'
  <2> USE <1>2, SlotEnds
  <2>0. McusOnBus \subseteq Boards
    BY VxsMasterAssumption DEF McusOnBus
  <2>1. CASE VxsRun
    BY <2>1, SlotBegins
    DEF VxsRun, VxsRunReset, VxsRunBegin, VxsRunPause, VxsRunError, Resting, First, SelectedInv
  <2>2. CASE Select
    <3>1. CASE /\ VxsTo("detect")
               /\ vxsMux' = [MuxReset EXCEPT ![ChipOf[pass.slot]] = {ChannelOf[pass.slot]}]
      <4>1. pass.slot \in VxsSlots
        BY <2>2, <1>2 DEF Select, Resting, SelectedInv, PassType
      <4>2. pass' \in PassType /\ pass'.slot = pass.slot /\ pass'.step = "detect"
        BY <3>1, <1>2, SlotSteps DEF VxsTo
      <4> QED BY <3>1, <4>1, <4>2 DEF SelectedInv
    <3>2. CASE pass' = Resting
      BY <3>2, SlotBegins DEF Resting, SelectedInv
    <3> QED BY <2>2, <3>1, <3>2 DEF Select
  <2>3. CASE DetectBoard \/ ReadBoard
    BY <2>3, SlotSteps, SlotGoesOn DEF DetectBoard, ReadBoard, FindBoard, VxsTo
  <2>4. CASE ReadBoardMagic
    BY <2>4, SlotSteps, SlotGoesOn DEF ReadBoardMagic, McuMisses, VxsTo
  <2>5. CASE ReadWord
    <3>1. CASE SlotDone(TRUE)
      BY <3>1
    <3>2. ASSUME NEW b \in McusOnBus,
                 \/ pass' = [pass EXCEPT !.words = pass.words \cup {b}, !.read = @ + 1]
                 \/ pass' = [At(pass.slot) EXCEPT !.step = "count"]
          PROVE  pass' \in PassType /\ pass'.slot = pass.slot /\ pass'.step # "select"
      <4>0. pass.step # "select"
        BY <2>5 DEF ReadWord
      <4>1. pass.words \cup {b} \in SUBSET Boards
        BY <2>0 DEF SelectedInv, PassType
      <4> QED BY <3>2, <4>0, <4>1, SlotReads
    <3> QED BY <2>5, <3>1, <3>2, SlotGoesOn DEF ReadWord, McuMisses
  <2>6. CASE ReadCount
    BY <2>6, SlotSteps, SlotGoesOn DEF ReadCount, McuMisses, VxsTo
  <2>7. CASE ReadSensor \/ ReadSensorRest
    <3>1. {} \in SUBSET Boards /\ \A b \in McusOnBus : {b} \in SUBSET Boards
      BY <2>0
    <3>2. pass.step # "select"
      BY <2>7 DEF ReadSensor, ReadSensorRest
    <3>3. CASE SlotDone(TRUE)
      BY <3>3
    <3>4. ASSUME NEW b \in McusOnBus, pass' = [pass EXCEPT !.step = "rest", !.words = {b}]
          PROVE  pass' \in PassType /\ pass'.slot = pass.slot /\ pass'.step # "select"
      BY <3>1, <3>2, <3>4, SlotReads
    <3>5. ASSUME \/ pass' = [At(pass.slot) EXCEPT !.step = "sensor", !.read = pass.read + 1]
                 \/ pass' = [At(pass.slot) EXCEPT !.step = "write"]
          PROVE  pass' \in PassType /\ pass'.slot = pass.slot /\ pass'.step # "select"
      BY <3>1, <3>2, <3>5, SlotReads
    <3> QED BY <2>7, <3>2, <3>3, <3>4, <3>5, SlotGoesOn DEF ReadSensor, ReadSensorRest, McuMisses
  <2>8. CASE WriteDescription
    BY <2>8 DEF WriteDescription, SelectedInv
  <2>9. CASE PlugBoard \/ VxsSettles \/ UNCHANGED vxsVars
    BY <2>9 DEF PlugBoard, VxsSettles, vxsVars, SelectedInv
  <2> QED BY <2>1, <2>2, <2>3, <2>4, <2>5, <2>6, <2>7, <2>8, <2>9 DEF VxsNext, VxsTask, VxsPass
<1> QED BY <1>1, <1>2, PTL DEF VxsSpec

\* Past the selection the slot that is polled is connected and no other.
LEMMA SelectedConnects ==
    ASSUME SelectedInv, pass.step # "select"
    PROVE  Connected = {pass.slot}
<1>1. \A s \in 1..18 : ChipOf[s] \in Chips
  BY DEF ChipOf, Chips
<1>2. \A s \in VxsSlots : s \in 1..18
  BY VxsMasterAssumption
<1>3. \A s \in VxsSlots : ChannelOf[s] \in vxsMux[ChipOf[s]]
          <=> ChipOf[s] = ChipOf[pass.slot] /\ ChannelOf[s] = ChannelOf[pass.slot]
  <2> DEFINE c == ChipOf[pass.slot]
  <2>1. pass.slot \in VxsSlots /\ vxsMux = [MuxReset EXCEPT ![c] = {ChannelOf[pass.slot]}]
    BY DEF SelectedInv
  <2>2. \A d \in Chips : vxsMux[d] = IF d = c THEN {ChannelOf[pass.slot]} ELSE {}
    BY <2>1 DEF MuxReset
  <2>3. \A s \in VxsSlots :
          vxsMux[ChipOf[s]] = IF ChipOf[s] = c THEN {ChannelOf[pass.slot]} ELSE {}
    BY <1>1, <1>2, <2>2
  <2>4. ASSUME NEW s \in VxsSlots, ChipOf[s] = c
        PROVE  ChannelOf[s] \in vxsMux[ChipOf[s]] <=> ChannelOf[s] = ChannelOf[pass.slot]
    <3>1. vxsMux[ChipOf[s]] = {ChannelOf[pass.slot]}
      BY <2>3, <2>4
    <3> QED BY <3>1
  <2>5. ASSUME NEW s \in VxsSlots, ChipOf[s] # c
        PROVE  ChannelOf[s] \notin vxsMux[ChipOf[s]]
    <3>1. vxsMux[ChipOf[s]] = {}
      BY <2>3, <2>5
    <3> QED BY <3>1
  <2> QED BY <2>4, <2>5
<1>4. \A s \in VxsSlots : ChannelOf[s] \in vxsMux[ChipOf[s]] <=> s = pass.slot
  BY <1>2, <1>3, SlotsApart DEF SelectedInv
<1> QED BY <1>4 DEF SelectedInv, Connected

\* Past the selection the multiplexers connect the slot that is polled and no other: no
\* board is taken for the one of another slot.
THEOREM OneSlotConnected == VxsSpec => []OneSlotOnly
<1>1. SelectedInv => OneSlotOnly
  BY SelectedConnects DEF OneSlotOnly
<1> QED BY <1>1, SelectedInvariant, PTL

\* How far a slot has got: words and sensors are counted from 0, and only while they
\* are read.
ReadInv ==
    /\ pass.step \notin {"word", "sensor", "rest"} => pass.read = 0
    /\ pass.step \notin {"word", "rest"} => pass.words = {}
    /\ pass.step = "word" => pass.read < InfoWords
    /\ pass.step \in {"sensor", "rest"} => pass.read < payloads[pass.slot].count

VxsInv == VxsTypeOK /\ SelectedInv /\ ReadInv

PassTypes ==
    [slot : VxsSlots \cup {0},
     step : {"select", "detect", "board", "magic", "word", "count", "sensor", "rest", "write"},
     words : SUBSET Boards, read : 0..InfoWords + MaxSensors]

\* The constants are what the types take them for.
LEMMA VxsConstants ==
    /\ InfoWords \in Nat \ {0} /\ MaxSensors \in Nat /\ MaxVxsTicks \in Nat /\ MaxPlugs \in Nat
    /\ VxsPollDelay \in Nat /\ VxsErrorDelay \in Nat
    /\ \A b \in Boards : SensorsOf[b] \in Nat
    /\ WithMcu \subseteq Boards
BY VxsMasterAssumption

\* A change of state keeps to the states, and the time to its limit.
LEMMA VxsGoes ==
    ASSUME VxsTypeOK, NEW to \in {"RESET", "RUN", "PAUSE", "ERROR"}, VxsGo(to)
    PROVE  vxsState' \in {"RESET", "RUN", "PAUSE", "ERROR"} /\ vxsTicks' \in 0..MaxVxsTicks
BY VxsConstants DEF VxsGo, VxsTypeOK

\* The multiplexers are reset, or connect the channel of a slot.
LEMMA MuxTypes ==
    /\ MuxReset \in [Chips -> SUBSET (0..7)]
    /\ \A s \in VxsSlots :
          [MuxReset EXCEPT ![ChipOf[s]] = {ChannelOf[s]}] \in [Chips -> SUBSET (0..7)]
<1>1. MuxReset \in [Chips -> SUBSET (0..7)]
  BY DEF MuxReset
<1>2. \A s \in VxsSlots : ChannelOf[s] \in 0..7
  <2>1. \A s \in 1..18 : ChannelOf[s] \in 0..7
    BY DEF ChannelOf
  <2> QED BY <2>1, VxsMasterAssumption
<1> QED BY <1>1, <1>2

\* What is stored of a slot leaves the others alone.
LEMMA Stores ==
    ASSUME VxsTypeOK, pass.slot \in VxsSlots, NEW p \in Payload, Store(p)
    PROVE  /\ payloads' \in [VxsSlots -> Payload]
           /\ payloads'[pass.slot] = p
           /\ \A s \in VxsSlots : s # pass.slot => payloads'[s] = payloads[s]
BY DEF Store, VxsTypeOK

\* A slot that has not been selected yet has read nothing.
LEMMA SlotReadsNothing ==
    ASSUME NEW s \in VxsSlots \cup {0}, pass' = At(s)
    PROVE  pass' \in PassTypes /\ ReadInv'
<1>1. 0 \in 0..InfoWords + MaxSensors
  BY VxsConstants
<1> QED BY <1>1 DEF At, ReadInv, PassTypes

\* The end of a slot forgets the words that were read.
LEMMA SlotDoneForgets ==
    ASSUME NEW present, SlotDone(present)
    PROVE  pass'.words = {}
<1>1. \E s : pass' = At(s)
  BY DEF SlotDone, Resting
<1> QED BY <1>1 DEF At

\* The end of a slot changes nothing of it but whether a board is present.
LEMMA SlotDoneResult ==
    ASSUME VxsInv, pass.slot \in VxsSlots, NEW present \in BOOLEAN, SlotDone(present)
    PROVE  /\ vxsState' \in {"RESET", "RUN", "PAUSE", "ERROR"} /\ vxsTicks' \in 0..MaxVxsTicks
           /\ UNCHANGED vxsDevice
           /\ payloads' \in [VxsSlots -> Payload]
           /\ vxsMux' \in [Chips -> SUBSET (0..7)]
           /\ \E s \in VxsSlots \cup {0} : pass' = At(s)
           /\ \A s \in VxsSlots : /\ payloads'[s].info = payloads[s].info
                                  /\ payloads'[s].sensors = payloads[s].sensors
<1>1. Here \in Payload
  BY DEF Here, VxsInv, VxsTypeOK
<1>2. [Here EXCEPT !.present = present] \in Payload
  BY <1>1 DEF Payload
<1>3. /\ payloads' \in [VxsSlots -> Payload]
      /\ payloads'[pass.slot] = [Here EXCEPT !.present = present]
      /\ \A s \in VxsSlots : s # pass.slot => payloads'[s] = payloads[s]
  BY <1>2, Stores DEF SlotDone, VxsInv
<1>4. \A s \in VxsSlots : /\ payloads'[s].info = payloads[s].info
                          /\ payloads'[s].sensors = payloads[s].sensors
  BY <1>1, <1>3 DEF Here, Payload
<1>5. CASE \E s \in First({s \in VxsSlots : s > pass.slot}) :
             pass' = At(s) /\ UNCHANGED <<vxsTask, vxsMux>>
  BY <1>3, <1>4, <1>5 DEF First, vxsTask, VxsInv, VxsTypeOK
<1>6. CASE pass' = Resting /\ vxsMux' = MuxReset /\ VxsGo("PAUSE") /\ UNCHANGED vxsDevice
  BY <1>3, <1>4, <1>6, VxsGoes, MuxTypes DEF Resting, VxsInv
<1> QED BY <1>5, <1>6 DEF SlotDone

\* The next step of a slot that reads neither words nor sensors, or begins to.
LEMMA NextStepReads ==
    ASSUME VxsInv, pass.slot \in VxsSlots,
           NEW to \in {"detect", "board", "magic", "word", "count", "sensor", "write"}, VxsTo(to),
           pass.words = {} \/ to = "word",
           to = "sensor" => 0 < payloads'[pass.slot].count
    PROVE  pass' \in PassTypes /\ ReadInv'
<1>1. 0 \in 0..InfoWords + MaxSensors /\ 0 < InfoWords
  BY VxsConstants
<1>2. /\ pass'.slot = pass.slot /\ pass'.step = to /\ pass'.read = 0 /\ pass'.words = pass.words
      /\ pass' \in PassTypes
  BY <1>1 DEF VxsTo, VxsInv, VxsTypeOK, PassTypes
<1> QED BY <1>1, <1>2 DEF ReadInv

\* What a step of the task leaves in its type.
TaskTypes ==
    /\ vxsState \in {"RESET", "RUN", "PAUSE", "ERROR"} /\ vxsTicks \in 0..MaxVxsTicks
    /\ vxsDevice \in {"UNKNOWN", "NORMAL", "FAIL"}
    /\ pass \in PassTypes
    /\ payloads \in [VxsSlots -> Payload]
    /\ vxsMux \in [Chips -> SUBSET (0..7)]
    /\ ReadInv

\* The state machine keeps the types.
LEMMA VxsRunTypes == ASSUME VxsInv, VxsRun PROVE TaskTypes'
<1>0. /\ TaskTypes /\ pass = At(0)
      /\ \A s \in VxsSlots \cup {0} : pass' = At(s) => pass' \in PassTypes /\ ReadInv'
  BY SlotReadsNothing DEF VxsInv, VxsTypeOK, TaskTypes, PassTypes, VxsRun, Resting
<1>1. CASE VxsRunReset
  <2>1. PICK to \in {"RUN", "RESET"} : VxsGo(to) /\ vxsDevice' \in {"NORMAL", "FAIL"}
    BY <1>1 DEF VxsRunReset
  <2>2. Vacant \in Payload
    BY VxsConstants DEF Vacant, Payload
  <2>3. payloads' \in [VxsSlots -> Payload]
    BY <1>1, <2>2 DEF VxsRunReset
  <2> QED BY <1>0, <1>1, <2>1, <2>3, VxsGoes, MuxTypes DEF VxsRunReset, VxsInv, TaskTypes
<1>2. CASE VxsRunBegin
  BY <1>0, <1>2 DEF VxsRunBegin, First, vxsTask, TaskTypes
<1>3. CASE VxsRunPause
  <2>1. PICK to \in {"RUN", "PAUSE"} : VxsGo(to)
    BY <1>3 DEF VxsRunPause
  <2> QED BY <1>0, <1>3, <2>1, VxsGoes DEF VxsRunPause, VxsInv, TaskTypes
<1>4. CASE VxsRunError
  <2>1. PICK to \in {"RESET", "ERROR"} : VxsGo(to)
    BY <1>4 DEF VxsRunError
  <2> QED BY <1>0, <1>4, <2>1, VxsGoes DEF VxsRunError, VxsInv, TaskTypes
<1> QED BY <1>1, <1>2, <1>3, <1>4 DEF VxsRun

\* So does a step that ends the slot,
LEMMA EndTypes ==
    ASSUME VxsInv, pass.slot \in VxsSlots, NEW present \in BOOLEAN, SlotDone(present)
    PROVE  TaskTypes'
<1>1. PICK s \in VxsSlots \cup {0} : pass' = At(s)
  BY SlotDoneResult
<1>2. pass' \in PassTypes /\ ReadInv'
  BY <1>1, SlotReadsNothing DEF PassTypes
<1> QED BY <1>2, SlotDoneResult DEF TaskTypes, VxsInv, VxsTypeOK

\* and one that goes on with the slot, with something stored of it or not.
LEMMA StoreTypes ==
    ASSUME VxsInv, pass.slot \in VxsSlots, UNCHANGED <<vxsTask, vxsMux>>,
           pass' \in PassTypes, ReadInv',
           UNCHANGED payloads \/ \E p \in Payload : Store(p)
    PROVE  TaskTypes'
<1>1. payloads' \in [VxsSlots -> Payload]
  BY Stores DEF VxsInv, VxsTypeOK
<1> QED BY <1>1 DEF TaskTypes, VxsInv, VxsTypeOK, vxsTask

\* The boards with an MCU that a transfer reaches are boards, and of the slot.
LEMMA BusBoards ==
    ASSUME VxsInv, pass.step # "select"
    PROVE  /\ pass.slot \in VxsSlots
           /\ McusOnBus \subseteq Boards
           /\ McusOnBus \subseteq {crate[s] : s \in {pass.slot} \cap VxsSlots} \cap WithMcu
<1>1. Connected = {pass.slot} /\ pass.slot \in VxsSlots
  BY SelectedConnects DEF VxsInv, SelectedInv
<1> QED BY <1>1, VxsConstants DEF McusOnBus, OnBus

\* The selection of a slot, and the search for its board.
LEMMA FindTypes ==
    ASSUME VxsInv, Select \/ DetectBoard \/ ReadBoard
    PROVE  TaskTypes'
<1>1. CASE Select
  <2>1. pass.slot \in VxsSlots /\ pass.words = {}
    BY <1>1 DEF Select, VxsInv, VxsTypeOK, SelectedInv, Resting, ReadInv
  <2>2. /\ vxsMux' \in [Chips -> SUBSET (0..7)]
        /\ UNCHANGED payloads
    BY <1>1, <2>1, MuxTypes DEF Select
  <2>3. CASE VxsTo("detect") /\ UNCHANGED vxsTask
    BY <2>1, <2>2, <2>3, NextStepReads DEF TaskTypes, PassTypes, VxsInv, VxsTypeOK, vxsTask
  <2>4. CASE pass' = Resting /\ vxsDevice' = "FAIL" /\ VxsGo("ERROR")
    BY <2>2, <2>4, SlotReadsNothing, VxsGoes DEF TaskTypes, PassTypes, VxsInv, VxsTypeOK, Resting
  <2> QED BY <1>1, <2>3, <2>4 DEF Select
<1>2. CASE DetectBoard \/ ReadBoard
  <2>1. pass.step # "select" /\ pass.words = {}
    BY <1>2 DEF DetectBoard, ReadBoard, FindBoard, VxsInv, ReadInv
  <2>2. pass.slot \in VxsSlots
    BY <2>1, BusBoards
  <2>3. \/ SlotDone(FALSE)
        \/ \E to \in {"board", "magic"} : VxsTo(to) /\ UNCHANGED <<vxsTask, payloads, vxsMux>>
    BY <1>2 DEF DetectBoard, ReadBoard, FindBoard
  <2>4. CASE SlotDone(FALSE)
    BY <2>2, <2>4, EndTypes
  <2>5. ASSUME NEW to \in {"board", "magic"}, VxsTo(to), UNCHANGED <<vxsTask, payloads, vxsMux>>
        PROVE  TaskTypes'
    BY <2>1, <2>2, <2>5, NextStepReads, StoreTypes DEF PassTypes
  <2> QED BY <2>3, <2>4, <2>5
<1> QED BY <1>1, <1>2

\* What the MCU of a board is asked for.
McuSteps ==
    \/ ReadBoardMagic \/ ReadWord \/ ReadCount \/ ReadSensor \/ ReadSensorRest
    \/ WriteDescription

LEMMA McuTypes == ASSUME VxsInv, McuSteps PROVE TaskTypes'
<1>0. /\ pass.slot \in VxsSlots /\ McusOnBus \subseteq Boards
      /\ pass \in PassTypes /\ Here \in Payload /\ ReadInv
  BY BusBoards DEF McuSteps, ReadBoardMagic, ReadWord, ReadCount, ReadSensor, ReadSensorRest,
     WriteDescription, VxsInv, VxsTypeOK, PassTypes, Here
<1>1. SlotDone(TRUE) => TaskTypes'
  BY <1>0, EndTypes
<1>2. CASE ReadBoardMagic
  <2>1. [Here EXCEPT !.present = TRUE] \in Payload
    BY <1>0 DEF Payload
  <2>2. pass.words = {}
    BY <1>0, <1>2 DEF ReadBoardMagic, ReadInv
  <2>3. ASSUME VxsTo("word"), UNCHANGED <<vxsTask, vxsMux>>,
               Store([Here EXCEPT !.present = TRUE])
        PROVE  TaskTypes'
    BY <1>0, <2>1, <2>2, <2>3, NextStepReads, StoreTypes
  <2> QED BY <1>1, <1>2, <2>3 DEF ReadBoardMagic, McuMisses
<1>3. CASE ReadWord
  <2>1. ASSUME NEW b \in McusOnBus, UNCHANGED <<vxsTask, vxsMux, payloads>>,
               pass.read + 1 < InfoWords,
               pass' = [pass EXCEPT !.words = pass.words \cup {b}, !.read = @ + 1]
        PROVE  TaskTypes'
    <3>1. /\ pass.words \cup {b} \subseteq Boards
          /\ pass.read + 1 \in 0..InfoWords + MaxSensors
      BY <1>0, <2>1, VxsConstants DEF PassTypes
    <3>2. pass' \in PassTypes /\ pass'.step = "word" /\ pass'.read < InfoWords
      BY <1>0, <1>3, <2>1, <3>1 DEF PassTypes, ReadWord
    <3> QED BY <1>0, <2>1, <3>2, StoreTypes DEF ReadInv
  <2>2. ASSUME NEW b \in McusOnBus, UNCHANGED <<vxsTask, vxsMux>>,
               pass' = [At(pass.slot) EXCEPT !.step = "count"],
               Store([Here EXCEPT !.info = pass.words \cup {b}])
        PROVE  TaskTypes'
    <3>1. [Here EXCEPT !.info = pass.words \cup {b}] \in Payload
      BY <1>0, <2>2 DEF Payload, PassTypes
    <3>2. pass' \in PassTypes /\ ReadInv'
      BY <1>0, <2>2, VxsConstants DEF At, PassTypes, ReadInv
    <3> QED BY <1>0, <2>2, <3>1, <3>2, StoreTypes
  <2> QED BY <1>1, <1>3, <2>1, <2>2 DEF ReadWord, McuMisses
<1>4. CASE ReadCount
  <2>1. ASSUME NEW b \in McusOnBus, NEW n \in 0..MaxSensors,
               UNCHANGED <<vxsTask, vxsMux>>,
               Store([Here EXCEPT !.count = n]),
               VxsTo(IF n = 0 THEN "write" ELSE "sensor")
        PROVE  TaskTypes'
    <3>1. [Here EXCEPT !.count = n] \in Payload /\ [Here EXCEPT !.count = n].count = n
      BY <1>0 DEF Payload
    <3>2. payloads'[pass.slot].count = n
      BY <1>0, <2>1, <3>1, Stores DEF VxsInv
    <3>3. pass.words = {}
      BY <1>0, <1>4 DEF ReadCount, ReadInv
    <3>4. PICK to \in {"write", "sensor"} : VxsTo(to) /\ (to = "sensor" => n # 0)
      BY <2>1
    <3>5. to = "sensor" => 0 < payloads'[pass.slot].count
      BY <3>2, <3>4, VxsConstants
    <3> QED BY <1>0, <2>1, <3>1, <3>3, <3>4, <3>5, NextStepReads, StoreTypes
  <2>2. \A b \in McusOnBus :
           (IF SensorsOf[b] < MaxSensors THEN SensorsOf[b] ELSE MaxSensors) \in 0..MaxSensors
    BY <1>0, VxsConstants
  <2> QED BY <1>1, <1>4, <2>1, <2>2 DEF ReadCount, McuMisses
<1>5. CASE ReadSensor
  <2>1. ASSUME NEW b \in McusOnBus, UNCHANGED <<vxsTask, payloads, vxsMux>>,
               pass' = [pass EXCEPT !.step = "rest", !.words = {b}]
        PROVE  TaskTypes'
    <3>1. pass.read < payloads[pass.slot].count
      BY <1>0, <1>5 DEF ReadSensor, ReadInv
    <3>2. /\ pass' \in PassTypes /\ pass'.step = "rest"
          /\ pass'.slot = pass.slot /\ pass'.read = pass.read
      BY <1>0, <2>1 DEF PassTypes
    <3>3. ReadInv'
      BY <2>1, <3>1, <3>2 DEF ReadInv
    <3> QED BY <1>0, <2>1, <3>2, <3>3, StoreTypes
  <2> QED BY <1>1, <1>5, <2>1 DEF ReadSensor, McuMisses
<1>6. CASE ReadSensorRest
  <2>0. pass.read < Here.count /\ Here.count \in 0..MaxSensors
    BY <1>0, <1>6 DEF ReadSensorRest, ReadInv, Here, Payload
  <2>1. ASSUME NEW b \in McusOnBus, UNCHANGED <<vxsTask, vxsMux>>,
               Store([Here EXCEPT !.sensors[pass.read + 1] = pass.words \cup {b}]),
               \/ /\ pass.read + 1 < Here.count
                  /\ pass' = [At(pass.slot) EXCEPT !.step = "sensor", !.read = pass.read + 1]
               \/ pass' = [At(pass.slot) EXCEPT !.step = "write"]
        PROVE  TaskTypes'
    <3>1. /\ [Here EXCEPT !.sensors[pass.read + 1] = pass.words \cup {b}] \in Payload
          /\ [Here EXCEPT !.sensors[pass.read + 1] = pass.words \cup {b}].count = Here.count
      <4>1. pass.words \cup {b} \in SUBSET Boards
        BY <1>0, <2>1 DEF PassTypes
      <4> QED BY <1>0, <4>1 DEF Payload
    <3>2. payloads'[pass.slot].count = Here.count
      BY <1>0, <2>1, <3>1, Stores DEF VxsInv
    <3>3. CASE /\ pass.read + 1 < Here.count
               /\ pass' = [At(pass.slot) EXCEPT !.step = "sensor", !.read = pass.read + 1]
      <4>1. pass.read + 1 \in 0..InfoWords + MaxSensors
        BY <1>0, <2>0, <3>3, VxsConstants DEF PassTypes
      <4>2. /\ pass' \in PassTypes /\ pass'.step = "sensor" /\ pass'.words = {}
            /\ pass'.slot = pass.slot /\ pass'.read < Here.count
        BY <1>0, <3>3, <4>1 DEF At, PassTypes
      <4>3. ReadInv'
        BY <3>2, <4>2 DEF ReadInv
      <4> QED BY <1>0, <2>1, <3>1, <4>2, <4>3, StoreTypes
    <3>4. CASE pass' = [At(pass.slot) EXCEPT !.step = "write"]
      <4>1. pass' \in PassTypes /\ ReadInv'
        BY <1>0, <3>4, VxsConstants DEF At, PassTypes, ReadInv
      <4> QED BY <1>0, <2>1, <3>1, <4>1, StoreTypes
    <3> QED BY <2>1, <3>3, <3>4
  <2> QED BY <1>1, <1>6, <2>1 DEF ReadSensorRest, McuMisses
<1>7. CASE WriteDescription
  BY <1>1, <1>7 DEF WriteDescription
<1> QED BY <1>2, <1>3, <1>4, <1>5, <1>6, <1>7 DEF McuSteps

LEMMA VxsInvariant == VxsSpec => []VxsInv
<1>1. ASSUME VxsInit PROVE VxsTypeOK /\ ReadInv
  <2>1. Vacant \in Payload
    BY VxsConstants DEF Vacant, Payload
  <2>2. 0 \in 0..MaxVxsTicks /\ 0 \in 0..MaxPlugs /\ 0 \in 0..InfoWords + MaxSensors
    BY VxsConstants
  <2>3. Resting \in PassTypes
    BY <2>2 DEF Resting, At, PassTypes
  <2> QED BY <1>1, <2>1, <2>2, <2>3, MuxTypes
         DEF VxsInit, VxsTypeOK, PassTypes, ReadInv, Resting, At
<1>2. ASSUME VxsInv, [VxsNext]_vxsVars PROVE VxsTypeOK' /\ ReadInv'
  <2>1. TaskTypes' /\ told' \subseteq WithMcu /\ UNCHANGED vxsEnv
           => VxsTypeOK' /\ ReadInv'
    BY <1>2 DEF TaskTypes, PassTypes, VxsInv, VxsTypeOK, vxsEnv
  <2>2. told \subseteq WithMcu
    BY <1>2 DEF VxsInv, VxsTypeOK
  <2>3. CASE VxsRun
    BY <1>2, <2>1, <2>2, <2>3, VxsRunTypes DEF VxsRun
  <2>4. CASE Select \/ DetectBoard \/ ReadBoard
    <3>1. told' = told /\ UNCHANGED vxsEnv
      BY <2>4 DEF Select, DetectBoard, ReadBoard, FindBoard
    <3> QED BY <1>2, <2>1, <2>2, <2>4, <3>1, FindTypes
  <2>5. CASE McuSteps
    <3>1. told' \subseteq told \cup McusOnBus /\ UNCHANGED vxsEnv
      BY <2>5 DEF McuSteps, ReadBoardMagic, ReadWord, ReadCount, ReadSensor, ReadSensorRest,
         WriteDescription
    <3> QED BY <1>2, <2>1, <2>2, <2>5, <3>1, McuTypes DEF McusOnBus
  <2>6. CASE PlugBoard
    BY <1>2, <2>6, VxsConstants DEF PlugBoard, VxsInv, VxsTypeOK, vxsTask, ReadInv
  <2>7. CASE VxsSettles \/ UNCHANGED vxsVars
    BY <1>2, <2>7 DEF VxsSettles, VxsInv, VxsTypeOK, vxsTask, vxsEnv, vxsVars, ReadInv
  <2> QED BY <1>2, <2>3, <2>4, <2>5, <2>6, <2>7 DEF VxsNext, VxsTask, VxsPass, McuSteps
<1>3. VxsTypeOK /\ ReadInv /\ SelectedInv => VxsInv
  BY DEF VxsInv
<1>4. VxsInv => VxsTypeOK /\ ReadInv
  BY DEF VxsInv
<1> QED BY <1>1, <1>2, <1>3, <1>4, SelectedInvariant, PTL DEF VxsSpec

\* Every variable of the VXS master stays in its type, for any slots, boards and sensors;
\* in particular no word or sensor is read past the last.
THEOREM VxsTypeCorrect == VxsSpec => []VxsTypeOK
<1>1. VxsInv => VxsTypeOK
  BY DEF VxsInv
<1> QED BY <1>1, VxsInvariant, PTL

\* What a step stores in a field of a slot's record.
LEMMA StoredField ==
    ASSUME VxsInv, pass.slot \in VxsSlots
    PROVE  /\ Here \in Payload
           /\ \A p \in Payload : Store(p) =>
                 /\ payloads'[pass.slot] = p
                 /\ \A s \in VxsSlots : s # pass.slot => payloads'[s] = payloads[s]
BY Stores DEF VxsInv, VxsTypeOK, Here

\* The steps that store something: what they may change of the information and sensors.
FieldsChange(s) ==
    \/ payloads'[s].info = payloads[s].info /\ payloads'[s].sensors = payloads[s].sensors
    \/ /\ s = pass.slot /\ pass.step = "word" /\ pass.read + 1 = InfoWords
       /\ payloads'[s].sensors = payloads[s].sensors
    \/ /\ s = pass.slot /\ pass.step = "rest" /\ payloads'[s].info = payloads[s].info
       /\ \E b \in McusOnBus :
             payloads'[s].sensors =
                 [payloads[s].sensors EXCEPT ![pass.read + 1] = pass.words \cup {b}]

LEMMA StoredChanges ==
    ASSUME VxsInv, VxsNext, NEW s \in VxsSlots
    PROVE  payloads'[s] = Vacant \/ FieldsChange(s)
<1> USE DEF FieldsChange
<1>1. CASE VxsRun
  BY <1>1 DEF VxsRun, VxsRunReset, VxsRunBegin, VxsRunPause, VxsRunError
<1>2. CASE pass.step # "select" /\ VxsPass /\ (SlotDone(TRUE) \/ SlotDone(FALSE))
  <2>1. pass.slot \in VxsSlots
    BY <1>2, BusBoards
  <2>2. \A t \in VxsSlots : /\ payloads'[t].info = payloads[t].info
                            /\ payloads'[t].sensors = payloads[t].sensors
    BY <1>2, <2>1, SlotDoneResult
  <2> QED BY <2>2
<1>3. CASE UNCHANGED payloads
  BY <1>3
<1>4. ASSUME McuSteps, ~SlotDone(TRUE), ~UNCHANGED payloads
      PROVE  FieldsChange(s)
  <2>0. /\ pass.slot \in VxsSlots /\ McusOnBus \subseteq Boards /\ pass \in PassTypes
        /\ Here \in Payload /\ Here = payloads[pass.slot] /\ ReadInv
    BY <1>4, BusBoards, StoredField DEF McuSteps, ReadBoardMagic, ReadWord, ReadCount, ReadSensor,
       ReadSensorRest, WriteDescription, VxsInv, VxsTypeOK, PassTypes, Here
  <2>1. CASE ReadBoardMagic
    <3>1. Store([Here EXCEPT !.present = TRUE]) /\ [Here EXCEPT !.present = TRUE] \in Payload
      BY <1>4, <2>0, <2>1 DEF ReadBoardMagic, McuMisses, Payload
    <3>2. /\ payloads'[pass.slot] = [Here EXCEPT !.present = TRUE]
          /\ s # pass.slot => payloads'[s] = payloads[s]
      BY <2>0, <3>1, StoredField
    <3> QED BY <2>0, <3>2 DEF Payload
  <2>2. CASE ReadWord
    <3>0. pass.read \in Nat /\ InfoWords \in Nat
      BY <2>0, VxsConstants DEF PassTypes
    <3>1. PICK b \in McusOnBus : /\ ~(pass.read + 1 < InfoWords)
                                 /\ Store([Here EXCEPT !.info = pass.words \cup {b}])
      BY <1>4, <2>2, Zenon DEF ReadWord, McuMisses
    <3>2. [Here EXCEPT !.info = pass.words \cup {b}] \in Payload
      BY <2>0 DEF Payload, PassTypes
    <3>3. /\ payloads'[pass.slot] = [Here EXCEPT !.info = pass.words \cup {b}]
          /\ s # pass.slot => payloads'[s] = payloads[s]
      BY <2>0, <3>1, <3>2, StoredField
    <3>4. pass.step = "word" /\ pass.read + 1 = InfoWords
      <4>1. pass.step = "word" /\ pass.read < InfoWords
        BY <2>0, <2>2 DEF ReadWord, ReadInv
      <4> QED BY <3>0, <3>1, <4>1
    <3> QED BY <2>0, <3>3, <3>4 DEF Payload
  <2>3. CASE ReadCount
    <3>1. PICK n \in 0..MaxSensors : Store([Here EXCEPT !.count = n])
      <4>1. \A b \in McusOnBus :
               (IF SensorsOf[b] < MaxSensors THEN SensorsOf[b] ELSE MaxSensors) \in 0..MaxSensors
        BY <2>0, VxsConstants
      <4> QED BY <1>4, <2>3, <4>1 DEF ReadCount, McuMisses
    <3>2. [Here EXCEPT !.count = n] \in Payload
      BY <2>0 DEF Payload
    <3>3. /\ payloads'[pass.slot] = [Here EXCEPT !.count = n]
          /\ s # pass.slot => payloads'[s] = payloads[s]
      BY <2>0, <3>1, <3>2, StoredField
    <3> QED BY <2>0, <3>3 DEF Payload
  <2>4. CASE ReadSensorRest
    <3>1. PICK b \in McusOnBus :
             Store([Here EXCEPT !.sensors[pass.read + 1] = pass.words \cup {b}])
      BY <1>4, <2>4 DEF ReadSensorRest, McuMisses
    <3>2. pass.words \cup {b} \in SUBSET Boards
      BY <2>0 DEF PassTypes
    <3>3. [Here EXCEPT !.sensors[pass.read + 1] = pass.words \cup {b}] \in Payload
      BY <2>0, <3>2 DEF Payload
    <3>4. /\ payloads'[pass.slot] = [Here EXCEPT !.sensors[pass.read + 1] = pass.words \cup {b}]
          /\ s # pass.slot => payloads'[s] = payloads[s]
      BY <2>0, <3>1, <3>3, StoredField
    <3>5. pass.step = "rest"
      BY <2>4 DEF ReadSensorRest
    <3> QED BY <2>0, <3>4, <3>5 DEF Payload
  <2>5. CASE ReadSensor \/ WriteDescription
    BY <1>4, <2>5 DEF ReadSensor, WriteDescription, McuMisses
  <2> QED BY <1>4, <2>1, <2>2, <2>3, <2>4, <2>5 DEF McuSteps
<1>5. CASE Select \/ PlugBoard \/ VxsSettles
  BY <1>5, <1>3 DEF Select, PlugBoard, VxsSettles
<1>6. CASE (DetectBoard \/ ReadBoard) /\ ~UNCHANGED payloads
  BY <1>2, <1>6 DEF DetectBoard, ReadBoard, FindBoard, VxsPass
<1>7. CASE McuSteps /\ SlotDone(TRUE)
  BY <1>2, <1>7 DEF McuSteps, ReadBoardMagic, ReadWord, ReadCount, ReadSensor, ReadSensorRest,
     WriteDescription, VxsPass
<1> QED BY <1>1, <1>3, <1>4, <1>5, <1>6, <1>7 DEF VxsNext, VxsTask, VxsPass, McuSteps

\* The information of a slot changes as a whole or not at all, whatever fails under way,
\* for any number of words.
THEOREM InfoIsWhole == VxsSpec => InfoChangesWhole
<1>1. ASSUME VxsInv, [VxsNext]_vxsVars, NEW s \in VxsSlots, payloads'[s].info # payloads[s].info
      PROVE  \/ payloads'[s] = Vacant
             \/ pass.slot = s /\ pass.step = "word" /\ pass.read + 1 = InfoWords
  <2>1. VxsNext
    BY <1>1 DEF vxsVars
  <2> QED BY <1>1, <2>1, StoredChanges DEF FieldsChange
<1>2. VxsInv /\ [VxsNext]_vxsVars
         => [\A s \in VxsSlots :
                payloads'[s].info # payloads[s].info
                    => \/ payloads'[s] = Vacant
                       \/ pass.slot = s /\ pass.step = "word" /\ pass.read + 1 = InfoWords]_vxsVars
  BY <1>1
<1> QED BY <1>2, VxsInvariant, PTL DEF VxsSpec, InfoChangesWhole

\* Words, sensors and the description are those of the board in the slot and of no other,
\* for any crate and whenever boards are plugged in and out.
THEOREM BoardsReadAlone == VxsSpec => OwnBoardOnly
<1> DEFINE own == {crate[s] : s \in {pass.slot} \cap VxsSlots} \cap WithMcu
           Own == /\ pass'.words \ pass.words \subseteq own
                  /\ told' \ told \subseteq own
                  /\ \A s \in VxsSlots, i \in 1..MaxSensors :
                        payloads'[s].sensors[i] \notin {payloads[s].sensors[i], {}}
                            => /\ s = pass.slot
                               /\ payloads'[s].sensors[i] \ pass.words \subseteq own
<1>1. ASSUME VxsInv, VxsNext PROVE Own
  <2>0. pass.step # "select" => McusOnBus \subseteq own
    BY <1>1, BusBoards
  <2>1. pass'.words \ pass.words \subseteq own
    <3>1. \/ pass'.words \subseteq pass.words
          \/ pass.step = "word" /\ ReadWord
          \/ pass.step = "sensor" /\ ReadSensor
      <4>1. \A s : At(s).words = {} /\ [At(s) EXCEPT !.step = "count"].words = {}
        BY DEF At
      <4>2. \A to : VxsTo(to) => pass'.words = pass.words
        BY <1>1 DEF VxsTo, VxsInv, VxsTypeOK
      <4>3. SlotDone(TRUE) \/ SlotDone(FALSE) => pass'.words = {}
        BY SlotDoneForgets
      <4>4. ReadSensorRest => pass'.words = {}
        BY <4>3 DEF ReadSensorRest, McuMisses, At
      <4>5. CASE VxsRun
        BY <1>1, <4>1, <4>5
        DEF VxsRun, VxsRunReset, VxsRunBegin, VxsRunPause, VxsRunError, Resting
      <4>6. CASE VxsPass
        BY <4>1, <4>2, <4>3, <4>4, <4>6
        DEF VxsPass, Select, DetectBoard, ReadBoard, FindBoard, ReadBoardMagic, ReadWord,
            ReadCount, ReadSensor, WriteDescription, McuMisses, Resting
      <4>7. CASE PlugBoard \/ VxsSettles
        BY <4>7 DEF PlugBoard, VxsSettles
      <4> QED BY <1>1, <4>5, <4>6, <4>7 DEF VxsNext, VxsTask
    <3>2. CASE pass.step = "word" /\ ReadWord
      <4>1. pass'.words = {} \/ \E b \in McusOnBus : pass'.words \subseteq pass.words \cup {b}
        <5>1. SlotDone(TRUE) => pass'.words = {}
          BY SlotDoneForgets
        <5>2. \A words : pass' = [pass EXCEPT !.words = words, !.read = @ + 1]
                            => pass'.words = words
          BY <1>1 DEF VxsInv, VxsTypeOK
        <5>3. pass' = [At(pass.slot) EXCEPT !.step = "count"] => pass'.words = {}
          BY DEF At
        <5> QED BY <3>2, <5>1, <5>2, <5>3 DEF ReadWord, McuMisses
      <4> QED BY <2>0, <3>2, <4>1
    <3>3. CASE pass.step = "sensor" /\ ReadSensor
      <4>1. pass'.words = {} \/ \E b \in McusOnBus : pass'.words = {b}
        <5>1. SlotDone(TRUE) => pass'.words = {}
          BY SlotDoneForgets
        <5>2. \A b : pass' = [pass EXCEPT !.step = "rest", !.words = {b}] => pass'.words = {b}
          BY <1>1 DEF VxsInv, VxsTypeOK
        <5> QED BY <3>3, <5>1, <5>2 DEF ReadSensor, McuMisses
      <4> QED BY <2>0, <3>3, <4>1
    <3> QED BY <3>1, <3>2, <3>3
  <2>2. told' \ told \subseteq own
    <3>1. told' \subseteq told \/ (pass.step # "select" /\ told' \subseteq told \cup McusOnBus)
      BY <1>1 DEF VxsNext, VxsTask, VxsRun, VxsPass, Select, DetectBoard, ReadBoard, FindBoard,
         ReadBoardMagic, ReadWord, ReadCount, ReadSensor, ReadSensorRest, WriteDescription,
         PlugBoard, VxsSettles
    <3> QED BY <2>0, <3>1
  <2>3. ASSUME NEW s \in VxsSlots, NEW i \in 1..MaxSensors,
               payloads'[s].sensors[i] \notin {payloads[s].sensors[i], {}}
        PROVE  s = pass.slot /\ payloads'[s].sensors[i] \ pass.words \subseteq own
    <3>1. payloads'[s] # Vacant
      <4>1. Vacant.sensors[i] = {}
        BY <2>3 DEF Vacant
      <4> QED BY <2>3, <4>1
    <3>2. PICK b \in McusOnBus :
             /\ s = pass.slot /\ pass.step = "rest"
             /\ payloads'[s].sensors =
                    [payloads[s].sensors EXCEPT ![pass.read + 1] = pass.words \cup {b}]
      BY <1>1, <2>3, <3>1, StoredChanges DEF FieldsChange
    <3>3. payloads[s].sensors \in [1..MaxSensors -> SUBSET Boards]
      BY <1>1 DEF VxsInv, VxsTypeOK, Payload
    <3>4. payloads'[s].sensors[i] = pass.words \cup {b}
      BY <2>3, <3>2, <3>3
    <3> QED BY <2>0, <3>2, <3>4
  <2> QED BY <2>1, <2>2, <2>3
<1>2. VxsInv /\ [VxsNext]_vxsVars => [Own]_vxsVars
  BY <1>1
<1> QED BY <1>2, VxsInvariant, PTL DEF VxsSpec, OwnBoardOnly

\* The steps at a slot in their order
StepRank ==
    [at \in {"select", "detect", "board", "magic", "word", "count", "sensor", "rest", "write"} |->
        CASE at = "select" -> 0 [] at = "detect" -> 1 [] at = "board" -> 2
          [] at = "magic" -> 3 [] at = "word" -> 4 [] at = "count" -> 5
          [] at = "sensor" -> 6 [] at = "rest" -> 7 [] OTHER -> 8]

LEMMA StepRanks ==
    /\ StepRank["select"] = 0 /\ StepRank["detect"] = 1 /\ StepRank["board"] = 2
    /\ StepRank["magic"] = 3 /\ StepRank["word"] = 4 /\ StepRank["count"] = 5
    /\ StepRank["sensor"] = 6 /\ StepRank["rest"] = 7 /\ StepRank["write"] = 8
    /\ DOMAIN StepRank = {"select", "detect", "board", "magic", "word", "count", "sensor", "rest",
                          "write"}
BY DEF StepRank

\* Where a pass goes from a step: further on at its slot, to the next slot, or to its end.
StaysThere == pass' = pass
GoesOn ==
    /\ pass'.slot = pass.slot
    /\ \/ StepRank[pass'.step] > StepRank[pass.step]
       \/ pass'.step = pass.step /\ pass'.read = pass.read + 1
       \/ pass.step = "rest" /\ pass'.step = "sensor" /\ pass'.read = pass.read + 1
GoesToNext == \E s \in VxsSlots : /\ pass' = At(s) /\ s > pass.slot
                                  /\ \A t \in VxsSlots : t <= pass.slot \/ t >= s
Ends ==
    /\ pass' = Resting
    /\ vxsState' = "ERROR" \/ \A s \in VxsSlots : s <= pass.slot

LEMMA SlotDoneAdvances ==
    ASSUME NEW present \in BOOLEAN, VxsTypeOK, SlotDone(present), pass.slot \in VxsSlots
    PROVE  GoesToNext \/ Ends
<1>1. \A s \in VxsSlots : s \in Nat
  BY VxsMasterAssumption
<1>2. CASE \E s \in First({s \in VxsSlots : s > pass.slot}) : pass' = At(s)
  BY <1>1, <1>2 DEF First, GoesToNext
<1>3. CASE {s \in VxsSlots : s > pass.slot} = {} /\ pass' = Resting
  BY <1>1, <1>3 DEF Ends
<1> QED BY <1>2, <1>3 DEF SlotDone

\* A pass comes to its end whatever boards are plugged in and whatever fails on the way:
\* no step of it is repeated, no slot is passed over, and it ends after the last slot or
\* with an error of the multiplexers.
THEOREM PassComesToItsEnd ==
    VxsSpec => [][pass # Resting => StaysThere \/ GoesOn \/ GoesToNext \/ Ends]_vxsVars
<1>1. ASSUME VxsInv, VxsNext, pass # Resting
      PROVE  StaysThere \/ GoesOn \/ GoesToNext \/ Ends
  <2>1. pass.step = "select" => pass.slot \in VxsSlots
    BY <1>1 DEF VxsInv, VxsTypeOK, SelectedInv, Resting
  <2>2. pass.slot \in VxsSlots
    BY <1>1, <2>1 DEF VxsInv, SelectedInv
  <2>3. \A present \in BOOLEAN : SlotDone(present) => GoesToNext \/ Ends
    BY <1>1, <2>2, SlotDoneAdvances DEF VxsInv
  <2>4. ASSUME NEW to \in DOMAIN StepRank, VxsTo(to), StepRank[to] > StepRank[pass.step] PROVE GoesOn
    BY <1>1, <2>4 DEF VxsTo, VxsInv, VxsTypeOK, GoesOn
  <2>5. CASE ReadSensorRest
    <3>1. ASSUME pass' = [At(pass.slot) EXCEPT !.step = "sensor", !.read = pass.read + 1]
          PROVE  GoesOn
      BY <2>5, <3>1 DEF ReadSensorRest, At, GoesOn
    <3>2. ASSUME pass' = [At(pass.slot) EXCEPT !.step = "write"] PROVE GoesOn
      <4>1. pass'.slot = pass.slot /\ pass'.step = "write" /\ pass.step = "rest"
        BY <2>5, <3>2 DEF At, ReadSensorRest
      <4> QED BY <4>1, StepRanks DEF GoesOn
    <3> QED BY <2>3, <2>5, <3>1, <3>2 DEF ReadSensorRest, McuMisses
  <2>6. CASE Select
    <3>1. CASE VxsTo("detect")
      BY <2>4, <2>6, <3>1, StepRanks DEF Select
    <3>2. CASE pass' = Resting /\ VxsGo("ERROR")
      BY <3>2 DEF Ends, VxsGo
    <3> QED BY <2>6, <3>1, <3>2 DEF Select
  <2>7. CASE DetectBoard \/ ReadBoard \/ ReadBoardMagic
    <3>1. DetectBoard /\ VxsTo("board") => GoesOn
      BY <2>4, StepRanks DEF DetectBoard, FindBoard
    <3>2. ReadBoard /\ VxsTo("magic") => GoesOn
      BY <2>4, StepRanks DEF ReadBoard, FindBoard
    <3>3. ReadBoardMagic /\ VxsTo("word") => GoesOn
      BY <2>4, StepRanks DEF ReadBoardMagic
    <3> QED BY <2>3, <2>7, <3>1, <3>2, <3>3 DEF DetectBoard, ReadBoard, FindBoard, ReadBoardMagic, McuMisses
  <2>8. CASE ReadWord
    <3>1. ASSUME NEW words, pass' = [pass EXCEPT !.words = words, !.read = @ + 1] PROVE GoesOn
      BY <1>1, <3>1 DEF VxsInv, VxsTypeOK, GoesOn
    <3>2. ASSUME pass' = [At(pass.slot) EXCEPT !.step = "count"] PROVE GoesOn
      <4>1. pass'.slot = pass.slot /\ pass'.step = "count" /\ pass.step = "word"
        BY <2>8, <3>2 DEF At, ReadWord
      <4> QED BY <4>1, StepRanks DEF GoesOn
    <3> QED BY <2>3, <2>8, <3>1, <3>2 DEF ReadWord, McuMisses
  <2>9. CASE ReadCount \/ ReadSensor
    <3>1. ReadCount /\ (VxsTo("write") \/ VxsTo("sensor")) => GoesOn
      BY <2>4, StepRanks DEF ReadCount
    <3>2. ASSUME NEW words, pass' = [pass EXCEPT !.step = "rest", !.words = words], ReadSensor
          PROVE  GoesOn
      <4>1. pass'.slot = pass.slot /\ pass'.step = "rest" /\ pass.step = "sensor"
        BY <1>1, <3>2 DEF VxsInv, VxsTypeOK, ReadSensor
      <4> QED BY <4>1, StepRanks DEF GoesOn
    <3> QED BY <2>3, <2>9, <3>1, <3>2 DEF ReadCount, ReadSensor, McuMisses
  <2>10. CASE WriteDescription
    BY <2>3, <2>10 DEF WriteDescription
  <2>11. CASE PlugBoard \/ VxsSettles
    BY <2>11 DEF PlugBoard, VxsSettles, StaysThere
  <2> QED BY <1>1, <2>5, <2>6, <2>7, <2>8, <2>9, <2>10, <2>11
         DEF VxsNext, VxsTask, VxsRun, VxsPass
<1> QED BY <1>1, VxsInvariant, PTL DEF VxsSpec

-----------------------------------------------------------------------------
(* The drivers of the run together.  All have variables of their own, and  *)
(* in every step one of them runs: so each of them alone sees its own      *)
(* steps, and is what was proved about it.                                 *)

LEMMA DevicesRunAlone ==
    DevicesSpec => /\ FpgaSpec /\ RegsSpec /\ VxsSpec
                   /\ DigipotInit /\ [][DigipotNext]_potVars
                   /\ SfpInit /\ [][SfpNext]_sfpVars
<1> DEFINE Next == Fpgas \/ Registers \/ Digipots \/ SfpModules \/ VxsBoards
<1>1. DevicesInit => FpgaInit /\ RegsInit /\ VxsInit /\ DigipotInit /\ SfpInit
  BY DEF DevicesInit
<1>2. ASSUME [Next]_devicesVars
      PROVE  /\ [FpgaNext]_fpgaVars /\ [RegsNext]_regsVars /\ [VxsNext]_vxsVars
             /\ [DigipotNext]_potVars /\ [SfpNext]_sfpVars
  <2>1. CASE Fpgas
    BY <2>1, Zenon DEF Fpgas
  <2>2. CASE Registers
    BY <2>2, Zenon DEF Registers
  <2>3. CASE Digipots
    BY <2>3, Zenon DEF Digipots
  <2>4. CASE SfpModules
    BY <2>4, Zenon DEF SfpModules
  <2>5. CASE VxsBoards
    BY <2>5, Zenon DEF VxsBoards
  <2>6. CASE UNCHANGED devicesVars
    BY <2>6 DEF devicesVars
  <2> QED BY <1>2, <2>1, <2>2, <2>3, <2>4, <2>5, <2>6
<1>3. DevicesSpec => DevicesInit /\ [][Next]_devicesVars
  BY PTL DEF DevicesSpec
<1> QED BY <1>1, <1>2, <1>3, PTL DEF FpgaSpec, RegsSpec, VxsSpec

\* Every variable of the five drivers stays in its type, for all values of the constants.
THEOREM DeviceTypesCorrect == DevicesSpec => []DeviceTypesOK
<1>1. FpgaTypeOK /\ RegsTypeOK /\ DigipotTypeOK /\ SfpTypeOK /\ VxsTypeOK => DeviceTypesOK
  BY DEF DeviceTypesOK
<1> QED BY <1>1, DevicesRunAlone, FpgaTypeCorrect, RegsTypeCorrect, NoBlockLost,
           SlotsReadAlone, VxsTypeCorrect, PTL

\* In the run of all drivers nothing is lost or taken for another, for all values of the
\* constants: every block of the mailbox is in the queue, and what is read of a module or
\* of a board is read while the multiplexers connect its slot alone.
THEOREM NothingLostOrSwapped == DevicesSpec => []DevicesKeep
<1>1. BlocksQueued /\ ReadsOwnSlot /\ PresentIsSupported /\ OneSlotOnly => DevicesKeep
  BY DEF DevicesKeep
<1> QED BY <1>1, DevicesRunAlone, NoBlockLost, SlotsReadAlone, OneSlotConnected, PTL

\* No step of them gives up potentiometers that have no power, stores the information of
\* a board that is half read, or takes anything from a board that is not in the slot.
THEOREM DevicesStepSafely == DevicesSpec => DeviceStepsKeep
<1>1. NotGivenUpUnpowered /\ InfoChangesWhole /\ OwnBoardOnly => DeviceStepsKeep
  BY DEF DeviceStepsKeep
<1> QED BY <1>1, DevicesRunAlone, NoBlockLost, InfoIsWhole, BoardsReadAlone, PTL

\* The accesses to the FPGA, the reading of its ROM and the exchange of the clock control
\* keep their promises in that run as well.
THEOREM RegistersKeepTheirPromises ==
    DevicesSpec => [](PollsAreSafe /\ ClockReadByItsRom) /\ C!CcSpec
BY DevicesRunAlone, AccessesAreSafe, ClockReadChecked, RegsImplementsControl, PTL
=============================================================================
