--------------------------- MODULE PowermonProofs ---------------------------
(***************************************************************************)
(* Proofs about modules Powermon and BoardThermal, for every number of     *)
(* sensors, every timeout and every iteration time.                        *)
(***************************************************************************)
EXTENDS BoardThermal, FiniteSetTheorems, TLAPS

-----------------------------------------------------------------------------
(* Type correctness                                                        *)

\* A set of sensors has at most N elements: the detection counters stay bounded.
LEMMA SensorCount ==
    ASSUME NEW S \in SUBSET Sensors
    PROVE  Cardinality(S) \in 0..N
<1>1. IsFiniteSet(1..N) /\ Cardinality(1..N) = N
  BY FS_Interval, NAssumption
<1>2. IsFiniteSet(S) /\ Cardinality(S) <= N
  BY <1>1, FS_Subset DEF Sensors
<1>3. Cardinality(S) \in Nat
  BY <1>2, FS_CardinalityType
<1> QED
  BY <1>2, <1>3, NAssumption

\* The saturating tick counters stay within their range.
LEMMA SaturateType ==
    ASSUME NEW t \in Nat
    PROVE  Saturate(t) \in 0..MaxTicks
BY TickAssumption DEF Saturate

\* The thermal detector keeps its type within an iteration.
LEMMA ThsetType ==
    ASSUME thset \in ThsetState, NEW th \in ThsetMoves
    PROVE  th \in ThsetState /\ ThsetAfterPm(th) \in ThsetState
BY DEF ThsetState, ThsetMoves, ThsetAfterPm

\* The switch statement keeps pmState and the switches in their types.
LEMMA PmStepType ==
    ASSUME pmState \in PmState, sw \in BOOLEAN, NEW th, PmStep(th)
    PROVE  pmState' \in PmState /\ sw' \in BOOLEAN
<1> USE DEF PmState, Goto, SwitchAndGoto
<1>1. CASE PmInit(th)      BY <1>1 DEF PmInit
<1>2. CASE PmWaitInput(th) BY <1>2 DEF PmWaitInput
<1>3. CASE PmStandby(th)   BY <1>3 DEF PmStandby
<1>4. CASE PmRamp(th)      BY <1>4 DEF PmRamp
<1>5. CASE PmRun(th)       BY <1>5 DEF PmRun
<1>6. CASE PmOverheat(th)  BY <1>6 DEF PmOverheat
<1>7. CASE PmPwrFail(th)   BY <1>7 DEF PmPwrFail
<1>8. CASE PmFailWait(th)  BY <1>8 DEF PmFailWait
<1>9. CASE PmError(th)     BY <1>9 DEF PmError
<1>10. CASE PmOff(th)      BY <1>10 DEF PmOff
<1> QED
  BY <1>1, <1>2, <1>3, <1>4, <1>5, <1>6, <1>7, <1>8, <1>9, <1>10, PmStep(th)
     DEF PmStep

\* The monitor's variables keep their types over one iteration.
MonType ==
    /\ monState \in MonState
    /\ device \in [Sensors -> DeviceStatus]
    /\ status \in [Sensors -> SensorStatus]
    /\ oldDetected \in 0..N
    /\ stableCount \in 0..StableLimit

\* Every voltage vector the environment offers is a vector of sensor statuses.
LEMMA ReadingsType ==
    ASSUME NEW volt \in Readings
    PROVE  volt \in [Sensors -> SensorStatus]
BY SensorAssumption DEF Readings, SensorStatus

\* runMon keeps the types of the monitor's variables.
LEMMA MonStepType ==
    ASSUME MonType, NEW th, MonStep(th)
    PROVE  MonType'
<1> USE DEF MonType, MonState, DeviceStatus
<1>0. MonAfterPm(th) \in MonState
  BY DEF MonAfterPm
<1>1. CASE MonInit(th)  BY <1>1 DEF MonInit, monVars
<1>2. CASE MonDetect(th)
  <2>1. PICK ans \in Answers :
          MonDetect(th)!2!(ans)
    BY <1>2 DEF MonDetect
  <2> DEFINE detected == Cardinality(Probed(ans) \cap ans)
  <2>2. detected \in 0..N
    BY SensorCount DEF Probed
  <2>3. device' \in [Sensors -> DeviceStatus] /\ status' \in [Sensors -> SensorStatus]
    BY <2>1
  <2>4. oldDetected' \in 0..N /\ monState' \in MonState
    BY <2>1, <2>2
  <2>5. stableCount' \in 0..StableLimit
    BY <2>1 DEF StableLimit
  <2> QED BY <2>3, <2>4, <2>5
<1>3. CASE MonRead(th)
  <2>1. PICK ans \in Answers, volt \in Readings :
          MonRead(th)!2!(ans, volt)
    BY <1>3 DEF MonRead
  <2>2. device' \in [Sensors -> DeviceStatus]
    BY <2>1
  <2>3. status' \in [Sensors -> SensorStatus]
    BY <2>1, ReadingsType DEF SensorStatus
  <2> QED BY <2>1, <2>2, <2>3
<1>4. CASE MonError(th) BY <1>4 DEF MonError, monVars
<1>5. CASE MonSkips(th) BY <1>0, <1>5 DEF MonSkips, monVars
<1> QED
  BY <1>1, <1>2, <1>3, <1>4, <1>5, MonStep(th) DEF MonStep, MonRuns

\* An iteration keeps every type, wherever the thermal detector has gone.
LEMMA IterationType ==
    ASSUME TypeOK, NEW d \in Durations, NEW th \in ThsetState, Iteration(d, th)
    PROVE  TypeOK'
<1>1. pmState' \in PmState /\ sw' \in BOOLEAN
  BY PmStepType DEF Iteration, TypeOK
<1>2. MonType'
  BY MonStepType DEF Iteration, TypeOK, MonType
<1>3. thset' \in ThsetState
  BY DEF Iteration, ThsetAfterPm, ThsetState
<1>4. d \in Nat
  BY TickAssumption
<1>5. TicksAfterMon(th) \in Nat
  BY TickAssumption DEF TypeOK, TicksAfterMon, TicksAfterPm
<1>6. stateTicks' \in 0..MaxTicks
  BY <1>4, <1>5, SaturateType DEF Iteration
<1>7. (IF MonDue THEN d ELSE readTicks + d) \in Nat
  BY <1>4, TickAssumption DEF TypeOK
<1>8. readTicks' \in 0..MaxTicks
  BY <1>7, SaturateType DEF Iteration
<1>9. powerPresent' \in BOOLEAN /\ enablePower' \in BOOLEAN /\ healthy' \in BOOLEAN
  BY DEF Iteration, TypeOK, CriticalValid
<1> QED
  BY <1>1, <1>2, <1>3, <1>6, <1>8, <1>9 DEF TypeOK, MonType

\* The operator and the end of the faults keep every type.
LEMMA OthersType ==
    ASSUME TypeOK, TogglePower \/ BecomeHealthy \/ UNCHANGED vars
    PROVE  TypeOK'
BY DEF TogglePower, BecomeHealthy, vars, TypeOK

\* The initial state has every type.
LEMMA InitType == ASSUME Init PROVE TypeOK
<1>1. stateTicks \in 0..MaxTicks /\ readTicks \in 0..MaxTicks
        /\ oldDetected \in 0..N /\ stableCount \in 0..StableLimit
  BY NAssumption, TickAssumption DEF Init, StableLimit
<1>2. pmState \in PmState /\ monState \in MonState /\ thset \in ThsetState
  BY DEF Init, PmState, MonState, ThsetState
<1>3. device \in [Sensors -> DeviceStatus] /\ status \in [Sensors -> SensorStatus]
  BY DEF Init, DeviceStatus, SensorStatus
<1>4. sw \in BOOLEAN /\ powerPresent \in BOOLEAN
        /\ enablePower \in BOOLEAN /\ healthy \in BOOLEAN
  BY DEF Init
<1> QED
  BY <1>1, <1>2, <1>3, <1>4 DEF TypeOK

\* Every variable of the power monitor keeps its type (the counters of the two
\* state machines included), in every behaviour of the specification.
THEOREM TypeCorrect == Spec => []TypeOK
<1>1. Init => TypeOK
  BY InitType
<1>2. TypeOK /\ [Next]_vars => TypeOK'
  <2> SUFFICES ASSUME TypeOK, [Next]_vars PROVE TypeOK'
    OBVIOUS
  <2>1. ASSUME NEW d \in Durations, NEW th \in ThsetMoves, Iteration(d, th)
        PROVE  TypeOK'
    BY <2>1, ThsetType, IterationType DEF TypeOK
  <2> QED
    BY <2>1, OthersType DEF Next, Powermon
<1> QED
  BY <1>1, <1>2, PTL DEF Spec

-----------------------------------------------------------------------------
(* The switches agree with the state machine                               *)

\* One pass through the switch statement: the states that need the supplies are
\* entered with them on, FAILWAIT with them off.
LEMMA PmStepSwitches ==
    ASSUME SwitchesMatchState, NEW th, PmStep(th)
    PROVE  SwitchesMatchState'
<1> USE DEF SwitchesMatchState, Goto, SwitchAndGoto, Effective
<1>1. CASE PmInit(th)      BY <1>1 DEF PmInit
<1>2. CASE PmWaitInput(th) BY <1>2 DEF PmWaitInput
<1>3. CASE PmStandby(th)   BY <1>3 DEF PmStandby
<1>4. CASE PmRamp(th)      BY <1>4 DEF PmRamp
<1>5. CASE PmRun(th)       BY <1>5 DEF PmRun
<1>6. CASE PmOverheat(th)  BY <1>6 DEF PmOverheat
<1>7. CASE PmPwrFail(th)   BY <1>7 DEF PmPwrFail
<1>8. CASE PmFailWait(th)  BY <1>8 DEF PmFailWait
<1>9. CASE PmError(th)     BY <1>9 DEF PmError
<1>10. CASE PmOff(th)      BY <1>10 DEF PmOff
<1> QED
  BY <1>1, <1>2, <1>3, <1>4, <1>5, <1>6, <1>7, <1>8, <1>9, <1>10, PmStep(th)
     DEF PmStep

\* WAITINPUT, RAMP, RUN and ERROR have the supplies on, FAILWAIT has them off,
\* whatever the sensors, the timers and the operator do.
THEOREM SwitchDiscipline == Spec => []SwitchesMatchState
<1>1. Init => SwitchesMatchState
  BY DEF Init, SwitchesMatchState
<1>2. SwitchesMatchState /\ [Next]_vars => SwitchesMatchState'
  <2> SUFFICES ASSUME SwitchesMatchState, [Next]_vars PROVE SwitchesMatchState'
    OBVIOUS
  <2>1. CASE Powermon
    BY <2>1, PmStepSwitches DEF Powermon, Iteration
  <2>2. CASE TogglePower
    BY <2>2 DEF TogglePower, SwitchesMatchState
  <2>3. CASE BecomeHealthy
    BY <2>3 DEF BecomeHealthy, SwitchesMatchState
  <2>4. CASE UNCHANGED vars
    BY <2>4 DEF vars, SwitchesMatchState
  <2> QED
    BY <2>1, <2>2, <2>3, <2>4 DEF Next
<1> QED
  BY <1>1, <1>2, PTL DEF Spec

\* STANDBY is entered with the supplies off from every state but OVERHEAT.
THEOREM StandbyEntry == Spec => StandbyIsOff
<1> DEFINE Entry == pmState' = "STANDBY" /\ pmState \notin {"STANDBY", "OVERHEAT"}
                       => ~sw'
<1>1. SwitchesMatchState /\ [Next]_vars => [Entry]_vars
  <2> SUFFICES ASSUME SwitchesMatchState, Next,
                      pmState' = "STANDBY", pmState \notin {"STANDBY", "OVERHEAT"}
               PROVE  ~sw'
    OBVIOUS
  <2>1. CASE Powermon
    <3>1. PICK th \in ThsetMoves : PmStep(th)
      BY <2>1 DEF Powermon, Iteration
    <3>2. CASE Effective(th) = "OVERHEAT"
      <4>1. th = "STATE_2"
        BY <3>2 DEF Effective
      <4>2. PmOverheat(th)
        BY <3>1, <3>2 DEF PmStep, PmInit, PmWaitInput, PmStandby, PmRamp, PmRun,
                          PmPwrFail, PmFailWait, PmError, PmOff
      <4> QED
        BY <4>1, <4>2 DEF PmOverheat, Goto
    <3>3. CASE Effective(th) # "OVERHEAT"
      <4>1. Effective(th) = pmState
        BY <3>3 DEF Effective
      <4>2. PmFailWait(th) \/ PmOff(th)
        BY <3>1, <3>3, <4>1 DEF PmStep, PmInit, PmWaitInput, PmStandby, PmRamp,
               PmRun, PmOverheat, PmPwrFail, PmError, Goto, SwitchAndGoto
      <4> QED
        BY <4>1, <4>2
           DEF PmFailWait, PmOff, Goto, SwitchAndGoto, SwitchesMatchState
    <3> QED BY <3>2, <3>3
  <2>2. CASE TogglePower \/ BecomeHealthy
    BY <2>2 DEF TogglePower, BecomeHealthy
  <2> QED
    BY <2>1, <2>2 DEF Next
<1> QED
  BY <1>1, SwitchDiscipline, PTL DEF Spec, StandbyIsOff

-----------------------------------------------------------------------------
(* RUN and the sensor monitor                                              *)

\* A monitor step that starts in READ ends in READ or ERROR.
LEMMA ReadEnds ==
    ASSUME NEW th, MonStep(th), MonAfterPm(th) = "READ"
    PROVE  monState' \in {"READ", "ERROR"}
BY DEF MonStep, MonRuns, MonSkips, MonInit, MonDetect, MonRead, MonError

\* RUN is left in the iteration after the monitor lost its sensors: while RUN
\* lasts the monitor reads, or has failed in the iteration just done.
THEOREM RunLosesNoMonitor == Spec => []RunNeedsMonitor
<1>1. Init => RunNeedsMonitor
  BY DEF Init, RunNeedsMonitor
<1>2. TypeOK /\ RunNeedsMonitor /\ [Next]_vars => RunNeedsMonitor'
  <2> SUFFICES ASSUME TypeOK, RunNeedsMonitor, [Next]_vars,
                      pmState' = "RUN", monState' \notin {"READ", "ERROR"}
               PROVE  stateTicks' \in Durations
    BY DEF RunNeedsMonitor
  <2>1. ASSUME NEW d \in Durations, NEW th \in ThsetMoves, Iteration(d, th)
        PROVE  stateTicks' \in Durations
    <3>1. PmRamp(th) \/ PmRun(th)
      BY <2>1 DEF Iteration, PmStep, PmInit, PmWaitInput, PmStandby, PmOverheat,
                  PmPwrFail, PmFailWait, PmError, PmOff, Goto, SwitchAndGoto
    <3>2. Effective(th) = pmState /\ pmState # "INIT"
      BY <3>1 DEF PmRamp, PmRun, Effective
    <3>3. MonAfterPm(th) = monState
      BY <3>2 DEF MonAfterPm
    <3>4. PmRamp(th)
      <4>1. ASSUME PmRun(th) PROVE FALSE
        <5>1. monState = "READ"
          BY <4>1 DEF PmRun, Goto
        <5> QED
          BY <5>1, <3>3, <2>1, ReadEnds DEF Iteration
      <4> QED BY <4>1, <3>1
    <3>5. PmRestartsTimer(th)
      BY <3>4 DEF PmRamp, PmRestartsTimer
    <3>6. TicksAfterMon(th) = 0
      BY <3>5 DEF TicksAfterMon, TicksAfterPm
    <3>7. d \in 1..MaxTicks
      BY TickAssumption
    <3> QED
      BY <2>1, <3>6, <3>7, TickAssumption DEF Iteration, Saturate
  <2>2. CASE TogglePower \/ BecomeHealthy \/ UNCHANGED vars
    BY <2>2 DEF TogglePower, BecomeHealthy, vars, RunNeedsMonitor
  <2> QED
    BY <2>1, <2>2 DEF Next, Powermon
<1> QED
  BY <1>1, <1>2, TypeCorrect, PTL DEF Spec

-----------------------------------------------------------------------------
(* The board: thermometers and thermal shutdown                            *)

\* The elapsed time of a thermometer keeps to its limit.
LEMMA SaturateThermType ==
    ASSUME NEW t \in Nat
    PROVE  SaturateTherm(t) \in 0..MaxThermTicks
BY ThermAssumption DEF SaturateTherm

\* A change of state keeps to the type.
LEMMA ChangeThermType ==
    ASSUME NEW C, NEW t \in Thermometer(C), NEW s \in FsmState
    PROVE  Change(t, s) \in Thermometer(C) /\ Change(t, s).state = s
<1>1. 0 \in 0..MaxThermTicks
  BY ThermAssumption
<1> QED BY <1>1 DEF Change, Thermometer

\* A run of a thermometer, and the time until the next, keep its record in its type.
LEMMA ThermRunType ==
    ASSUME NEW C, NEW t \in Thermometer(C), NEW powered \in BOOLEAN, NEW stops \in BOOLEAN,
           NEW answers \in BOOLEAN, NEW hot \in SUBSET C
    PROVE  ThermRun(t, powered, stops, answers, hot) \in Thermometer(C)
<1> DEFINE b == IF stops /\ ~powered THEN Change(t, "SHUTDOWN") ELSE t
<1>1. b \in Thermometer(C)
  BY ChangeThermType DEF FsmState
<1>2. \A s \in FsmState : Change(b, s) \in Thermometer(C)
  BY <1>1, ChangeThermType
<1>3. \A c \in Thermometer(C), st \in ThermStatus :
         /\ [c EXCEPT !.status = st] \in Thermometer(C)
         /\ [c EXCEPT !.status = st, !.hot = hot] \in Thermometer(C)
  BY DEF Thermometer
<1>4. b.state \in FsmState
  BY <1>1 DEF Thermometer
<1> HIDE DEF b
<1>5. CASE b.state = "SHUTDOWN"
  BY <1>2, <1>3, <1>5 DEF ThermRun, b, FsmState, ThermStatus
<1>6. CASE b.state = "RESET"
  BY <1>2, <1>6 DEF ThermRun, b, FsmState
<1>7. CASE b.state = "RUN"
  BY <1>2, <1>3, <1>7 DEF ThermRun, b, FsmState, ThermStatus
<1>8. CASE b.state = "PAUSE"
  BY <1>2, <1>8 DEF ThermRun, b, FsmState
<1>9. CASE b.state = "ERROR"
  BY <1>2, <1>3, <1>9 DEF ThermRun, b, FsmState, ThermStatus
<1> QED BY <1>4, <1>5, <1>6, <1>7, <1>8, <1>9 DEF FsmState

\* The passing of time keeps to the type.
LEMMA ElapseType ==
    ASSUME NEW C, NEW t \in Thermometer(C), NEW d \in Nat
    PROVE  Elapse(t, d) \in Thermometer(C)
<1>1. t.ticks + d \in Nat
  BY ThermAssumption DEF Thermometer
<1>2. SaturateTherm(t.ticks + d) \in 0..MaxThermTicks
  BY <1>1, SaturateThermType
<1> QED BY <1>2 DEF Elapse, Thermometer

\* What an iteration of the board's loop does with what the thermometers show.
LoopDoes(d, valid, hot) ==
    LET th == ThsetNext(thset, period, Channels, valid, hot)
    IN  /\ period' = SaturateTherm(IF thset = "STATE_0" /\ th = "STATE_1" THEN d ELSE period + d)
        /\ cleanTicks' = SaturateTherm(IF RecoverCondition(Channels, valid, hot) THEN d
                                       ELSE cleanTicks + d)
        /\ Iteration(d, th)
        /\ th \in ThsetState

\* The parts of the loop body, with the thermometers in their types.
LEMMA LoopBodyParts ==
    ASSUME BoardTypeOK, NEW d \in Durations, LoopBody(d)
    PROVE  /\ \E valid \in SUBSET Channels, hot \in SUBSET Channels : LoopDoes(d, valid, hot)
           /\ therm1' \in Thermometer(Channels1)
           /\ therm2' \in Thermometer(Channels2)
<1>1. PICK a1 \in MayAnswer, a2 \in MayAnswer : LoopBody(d)!3!(a1, a2)
  BY DEF LoopBody
<1> DEFINE
      t1 == ThermRun(therm1, sampled = "on", ThermShuts, a1, heat \cap Channels1)
      t2 == ThermRun(therm2, TRUE, TRUE, a2, heat \cap Channels2)
      valid == Valid(t1, t2)
      hot == t1.hot \cup t2.hot
      th == ThsetNext(thset, period, Channels, valid, hot)
<1>2. a1 \in BOOLEAN /\ a2 \in BOOLEAN /\ (sampled = "on") \in BOOLEAN
  BY ThermAnswersAssumption DEF MayAnswer
<1>3. t1 \in Thermometer(Channels1) /\ t2 \in Thermometer(Channels2)
  BY <1>2, ThermRunType, ThermShutsAssumption DEF BoardTypeOK
<1>4. d \in Nat
  BY TickAssumption
<1>5. /\ therm1' \in Thermometer(Channels1)
      /\ therm2' \in Thermometer(Channels2)
  BY <1>1, <1>3, <1>4, ElapseType
<1>6. valid \in SUBSET Channels /\ hot \in SUBSET Channels
  BY <1>3 DEF Valid, Thermometer, Channels
<1>7. th \in ThsetState
  BY DEF ThsetNext, FromState0, FromState1, FromState2, ThsetState, BoardTypeOK, TypeOK
<1>8. LoopDoes(d, valid, hot)
  BY <1>1, <1>7 DEF LoopDoes
<1> QED BY <1>5, <1>6, <1>8

\* Every variable of the board's loop stays in its type.
THEOREM BoardTypeCorrect == BoardSpec => []BoardTypeOK
<1>1. ASSUME BoardInit PROVE BoardTypeOK
  <2>1. \A C : ThermInit \in Thermometer(C)
    BY ThermAssumption DEF ThermInit, Thermometer, FsmState, ThermStatus
  <2>2. 0 \in 0..MaxThermTicks
    BY ThermAssumption
  <2> QED BY <1>1, <2>1, <2>2, InitType DEF BoardInit, BoardTypeOK
<1>2. ASSUME BoardTypeOK, [BoardNext]_boardVars PROVE BoardTypeOK'
  <2> USE DEF BoardTypeOK
  <2>1. CASE SamplePower
    <3>1. TypeOK'
      BY <1>2, <2>1, OthersType DEF SamplePower
    <3> QED BY <1>2, <2>1, <3>1 DEF SamplePower, thermVars
  <2>2. ASSUME NEW d \in Durations, LoopBody(d) PROVE BoardTypeOK'
    <3>1. PICK valid \in SUBSET Channels, hot \in SUBSET Channels :
            LoopDoes(d, valid, hot)
      BY <1>2, <2>2, LoopBodyParts
    <3>2. TypeOK'
      BY <1>2, <3>1, IterationType DEF LoopDoes
    <3>3. d \in Nat /\ period + d \in Nat /\ cleanTicks + d \in Nat
      BY <1>2, TickAssumption, ThermAssumption
    <3>4. period' \in 0..MaxThermTicks /\ cleanTicks' \in 0..MaxThermTicks
      BY <3>1, <3>3, SaturateThermType DEF LoopDoes
    <3>5. heat' = heat /\ sampled' = "no"
      BY <2>2 DEF LoopBody
    <3>6. therm1' \in Thermometer(Channels1) /\ therm2' \in Thermometer(Channels2)
      BY <1>2, <2>2, LoopBodyParts
    <3> QED BY <1>2, <3>2, <3>4, <3>5, <3>6
  <2>3. CASE HeatChanges
    <3>1. TypeOK'
      BY <1>2, <2>3, OthersType DEF HeatChanges
    <3> QED BY <1>2, <2>3, <3>1 DEF HeatChanges, thermVars
  <2>4. CASE BoardHealthy
    <3>1. TypeOK'
      BY <1>2, <2>4, OthersType DEF BoardHealthy
    <3> QED BY <1>2, <2>4, <3>1 DEF BoardHealthy, thermVars
  <2>5. CASE BoardToggle
    <3>1. TypeOK'
      BY <1>2, <2>5, OthersType DEF BoardToggle
    <3> QED BY <1>2, <2>5, <3>1 DEF BoardToggle, thermVars
  <2>6. CASE UNCHANGED boardVars
    <3>1. TypeOK'
      BY <1>2, <2>6, OthersType DEF boardVars
    <3> QED BY <1>2, <2>6, <3>1 DEF boardVars, thermVars
  <2> QED BY <1>2, <2>1, <2>2, <2>3, <2>4, <2>5, <2>6 DEF BoardNext, Loop
<1> QED BY <1>1, <1>2, PTL DEF BoardSpec

\* A board with every channel valid has enough of them for the detector to look.
LEMMA ChannelCount == Cardinality(Channels) = 3
<1>1. IsFiniteSet({"VCXO"}) /\ Cardinality({"VCXO"}) = 1
  BY FS_Singleton
<1>2. IsFiniteSet({"VCXO"} \cup {"Board"}) /\ Cardinality({"VCXO"} \cup {"Board"}) = 2
  BY <1>1, FS_AddElement
<1>3. Cardinality(({"VCXO"} \cup {"Board"}) \cup {"FPGA"}) = 3
  BY <1>2, FS_AddElement
<1>4. ({"VCXO"} \cup {"Board"}) \cup {"FPGA"} = Channels
  BY DEF Channels, Channels1, Channels2
<1> QED BY <1>3, <1>4

\* The critical period began after the last clean reading.
PeriodInv ==
    /\ thset = "STATE_1" => cleanTicks >= period
    /\ TripNeedsPeriod

\* The thermal shutdown is latched only after a whole critical period without a clean
\* reading, whatever the thermometers do and however long the iterations take.
THEOREM TripsLate == BoardSpec => []TripNeedsPeriod
<1>1. BoardInit => PeriodInv
  BY DEF BoardInit, Init, PeriodInv, TripNeedsPeriod
<1>2. ASSUME BoardTypeOK, PeriodInv, [BoardNext]_boardVars PROVE PeriodInv'
  <2> USE DEF PeriodInv, TripNeedsPeriod
  <2>1. ASSUME NEW d \in Durations, LoopBody(d) PROVE PeriodInv'
    <3>1. PICK valid \in SUBSET Channels, hot \in SUBSET Channels :
            LoopDoes(d, valid, hot)
      BY <1>2, <2>1, LoopBodyParts
    <3> DEFINE th == ThsetNext(thset, period, Channels, valid, hot)
               clean == RecoverCondition(Channels, valid, hot)
    <3>2. thset' \in {th, "STATE_0"}
      BY <3>1 DEF LoopDoes, Iteration, ThsetAfterPm
    <3>3. clean => th = "STATE_0"
      <4>1. ASSUME clean PROVE ~(Cardinality(valid) < 2) /\ Cardinality(valid \cap hot) = 0
        BY <4>1, ChannelCount, FS_EmptySet DEF RecoverCondition
      <4>2. thset \in ThsetState
        BY <1>2 DEF BoardTypeOK, TypeOK
      <4>3. ASSUME clean PROVE ~ShutdownCondition(valid, hot)
        BY <4>1, <4>3 DEF ShutdownCondition
      <4> QED BY <4>1, <4>2, <4>3 DEF ThsetNext, FromState0, FromState1, FromState2, ThsetState
    <3>4. /\ period \in Nat /\ cleanTicks \in Nat /\ d \in Nat
          /\ ShutdownPeriod \in Nat /\ ShutdownPeriod < MaxThermTicks /\ MaxThermTicks \in Nat
      <4>1. d \in Nat
        BY TickAssumption
      <4>2. ShutdownPeriod \in Nat /\ ShutdownPeriod < MaxThermTicks /\ MaxThermTicks \in Nat
        BY ThermAssumption
      <4>3. period \in 0..MaxThermTicks /\ cleanTicks \in 0..MaxThermTicks
        BY <1>2 DEF BoardTypeOK
      <4> QED BY <4>1, <4>2, <4>3
    <3>5. th = "STATE_1" => thset \in {"STATE_0", "STATE_1"}
      BY <1>2 DEF ThsetNext, FromState0, FromState1, FromState2, BoardTypeOK, TypeOK, ThsetState
    <3>6. th = "STATE_2" => cleanTicks >= ShutdownPeriod
      BY <1>2, <3>4 DEF ThsetNext, FromState0, FromState1, FromState2, BoardTypeOK, TypeOK,
         ThsetState
    <3>7. ~clean => cleanTicks' = SaturateTherm(cleanTicks + d)
      BY <3>1 DEF LoopDoes
    <3>8. period' = SaturateTherm(IF thset = "STATE_0" /\ th = "STATE_1" THEN d ELSE period + d)
      BY <3>1 DEF LoopDoes
    <3> HIDE DEF th, clean
    <3>9. th = "STATE_1" => cleanTicks' >= period'
      BY <1>2, <3>3, <3>4, <3>5, <3>7, <3>8 DEF SaturateTherm
    <3>10. th = "STATE_2" => cleanTicks' >= ShutdownPeriod
      BY <3>3, <3>4, <3>6, <3>7 DEF SaturateTherm
    <3> QED BY <3>2, <3>9, <3>10
  <2>2. CASE SamplePower \/ HeatChanges \/ BoardToggle \/ UNCHANGED boardVars
    BY <1>2, <2>2 DEF SamplePower, HeatChanges, BoardToggle, TogglePower, boardVars, vars,
       thermVars
  <2>3. CASE BoardHealthy
    BY <1>2, <2>3 DEF BoardHealthy, BecomeHealthy, thermVars
  <2> QED BY <1>2, <2>1, <2>2, <2>3 DEF BoardNext, Loop
<1>3. PeriodInv => TripNeedsPeriod
  BY DEF PeriodInv
<1> QED BY <1>1, <1>2, <1>3, BoardTypeCorrect, PTL DEF BoardSpec

-----------------------------------------------------------------------------
(* The board's loop implements the power monitor                           *)

\* The instance has its own copy of every operator, those of FiniteSets included.
LEMMA SameCardinality == \A S : Abstract!Cardinality(S) = Cardinality(S)
BY Zenon DEF Abstract!Cardinality, Cardinality

\* What the two models of the power monitor have in common.
LEMMA AbstractSame ==
    ASSUME NEW th
    PROVE  /\ PmStep(th) => Abstract!PmStep(th)
           /\ Abstract!MonAfterPm(th) = MonAfterPm(th)
           /\ Abstract!TicksAfterPm(th) = TicksAfterPm(th)
           /\ Abstract!TicksAfterMon(th) = TicksAfterMon(th)
           /\ Abstract!ThsetAfterPm(th) = ThsetAfterPm(th)
           /\ Abstract!MonDue = MonDue
           /\ \A t : Abstract!Saturate(t) = Saturate(t)
           /\ \A dev, stat : Abstract!CriticalValid(dev, stat) = CriticalValid(dev, stat)
           /\ \A ans : /\ Abstract!Probed(ans) = Probed(ans)
                       /\ Abstract!StillReading(ans) = StillReading(ans)
                       /\ Abstract!ReadFailed(ans) = ReadFailed(ans)
<1>1. /\ Abstract!Effective(th) = Effective(th)
      /\ \A to : Abstract!Goto(to) = Goto(to)
      /\ \A level, to : Abstract!SwitchAndGoto(level, to) = SwitchAndGoto(level, to)
  BY DEF Abstract!Effective, Effective, Abstract!Goto, Goto, Abstract!SwitchAndGoto, SwitchAndGoto
<1>2. /\ Abstract!Sensors = Sensors
      /\ \A dev, stat, s : Abstract!SensorStatusOf(dev, stat, s) = SensorStatusOf(dev, stat, s)
  BY DEF Abstract!Sensors, Sensors, Abstract!SensorStatusOf, SensorStatusOf
<1>3. \A dev, stat : Abstract!CriticalValid(dev, stat) = CriticalValid(dev, stat)
  BY <1>2 DEF Abstract!CriticalValid, CriticalValid
<1>4. /\ Abstract!InputNormal = InputNormal
      /\ Abstract!InputCritical = InputCritical
      /\ Abstract!CriticalFailure = CriticalFailure
  BY <1>2 DEF Abstract!InputNormal, InputNormal, Abstract!InputCritical, InputCritical,
     Abstract!CriticalFailure, CriticalFailure
<1>5. PmStep(th) => Abstract!PmStep(th)
  BY <1>1, <1>3, <1>4 DEF PmStep, Abstract!PmStep, PmInit, Abstract!PmInit, PmWaitInput,
     Abstract!PmWaitInput, PmStandby, Abstract!PmStandby, PmRamp, Abstract!PmRamp, PmRun,
     Abstract!PmRun, PmOverheat, Abstract!PmOverheat, PmPwrFail, Abstract!PmPwrFail,
     PmFailWait, Abstract!PmFailWait, PmError, Abstract!PmError, PmOff, Abstract!PmOff
<1>6. /\ Abstract!MonAfterPm(th) = MonAfterPm(th)
      /\ Abstract!TicksAfterPm(th) = TicksAfterPm(th)
      /\ Abstract!TicksAfterMon(th) = TicksAfterMon(th)
      /\ Abstract!ThsetAfterPm(th) = ThsetAfterPm(th)
      /\ Abstract!MonDue = MonDue
      /\ \A t : Abstract!Saturate(t) = Saturate(t)
  BY <1>1 DEF Abstract!MonAfterPm, MonAfterPm, Abstract!TicksAfterPm, TicksAfterPm,
     Abstract!TicksAfterMon, TicksAfterMon, Abstract!PmRestartsTimer, PmRestartsTimer,
     Abstract!ThsetAfterPm, ThsetAfterPm, Abstract!MonDue, MonDue,
     Abstract!Saturate, Saturate
<1>7. \A ans : /\ Abstract!Probed(ans) = Probed(ans)
               /\ Abstract!StillReading(ans) = StillReading(ans)
               /\ Abstract!ReadFailed(ans) = ReadFailed(ans)
  <2> SUFFICES ASSUME NEW ans
               PROVE  /\ Abstract!Probed(ans) = Probed(ans)
                      /\ Abstract!StillReading(ans) = StillReading(ans)
                      /\ Abstract!ReadFailed(ans) = ReadFailed(ans)
    OBVIOUS
  <2>1. Abstract!Probed(ans) = Probed(ans)
    BY SameCardinality DEF Abstract!Probed, Probed, Abstract!DetectErrors, DetectErrors,
       Abstract!Sensors, Sensors
  <2>2. Abstract!StillReading(ans) = StillReading(ans)
    BY SameCardinality DEF Abstract!StillReading, StillReading, Abstract!ReadErrors, ReadErrors,
       Abstract!FailedBefore, FailedBefore, Abstract!Sensors, Sensors
  <2>3. Abstract!ReadFailed(ans) = ReadFailed(ans)
    BY <2>2, Zenon DEF Abstract!ReadFailed, ReadFailed
  <2> QED BY <2>1, <2>2, <2>3
<1> QED BY <1>3, <1>5, <1>6, <1>7

\* The abstract answers and readings include the detailed ones.
LEMMA AbstractChoices ==
    ASSUME {"NORMAL", "CRITICAL"} \subseteq Voltages
    PROVE  Answers \subseteq Abstract!Answers /\ Readings \subseteq Abstract!Readings
<1>1. Abstract!Sensors = Sensors
  BY DEF Abstract!Sensors, Sensors
<1> QED BY <1>1 DEF Answers, Abstract!Answers, Readings, Abstract!Readings

\* A step of the sensor monitor is an abstract one.
LEMMA AbstractMon ==
    ASSUME {"NORMAL", "CRITICAL"} \subseteq Voltages, NEW th, MonStep(th)
    PROVE  Abstract!MonStep(th)
<1>1. /\ Abstract!MonAfterPm(th) = MonAfterPm(th)
      /\ Abstract!TicksAfterPm(th) = TicksAfterPm(th)
      /\ Abstract!MonDue = MonDue
      /\ Abstract!Sensors = Sensors
      /\ Abstract!monVars = monVars
      /\ \A ans : /\ Abstract!Probed(ans) = Probed(ans)
                  /\ Abstract!StillReading(ans) = StillReading(ans)
                  /\ Abstract!ReadFailed(ans) = ReadFailed(ans)
  BY AbstractSame DEF Abstract!Sensors, Sensors, Abstract!monVars, monVars
<1>2. MonInit(th) => Abstract!MonInit(th)
  BY <1>1 DEF MonInit, Abstract!MonInit, Abstract!monVars, monVars
<1>3. MonDetect(th) => Abstract!MonDetect(th)
  <2> SUFFICES ASSUME MonDetect(th) PROVE Abstract!MonDetect(th)
    OBVIOUS
  <2>1. PICK ans \in Answers : MonDetect(th)!2!(ans)
    BY DEF MonDetect
  <2>2. ans \in Abstract!Answers /\ Abstract!MonAfterPm(th) = "DETECT"
    BY <1>1, AbstractChoices DEF MonDetect
  <2> QED BY <1>1, <2>1, <2>2, SameCardinality
       DEF Abstract!MonDetect, Abstract!StableLimit, StableLimit
<1>4. MonRead(th) => Abstract!MonRead(th)
  <2> SUFFICES ASSUME MonRead(th) PROVE Abstract!MonRead(th)
    OBVIOUS
  <2>1. PICK ans \in Answers, volt \in Readings : MonRead(th)!2!(ans, volt)
    BY DEF MonRead
  <2>2. /\ ans \in Abstract!Answers /\ volt \in Abstract!Readings
        /\ Abstract!MonAfterPm(th) = "READ"
    BY <1>1, AbstractChoices DEF MonRead
  <2> QED BY <1>1, <2>1, <2>2 DEF Abstract!MonRead
<1>5. MonError(th) => Abstract!MonError(th)
  BY <1>1 DEF MonError, Abstract!MonError, Abstract!monVars, monVars
<1>6. MonSkips(th) => Abstract!MonSkips(th)
  BY <1>1 DEF MonSkips, Abstract!MonSkips, Abstract!monVars, monVars
<1> QED BY <1>1, <1>2, <1>3, <1>4, <1>5, <1>6
     DEF MonStep, MonRuns, Abstract!MonStep, Abstract!MonRuns

\* The loop of the board, with its thermometers and its detector, does what the power
\* monitor may do with any thermal input, if the supplies may show any status.
THEOREM LoopImplementsPowermon ==
    ASSUME {"NORMAL", "CRITICAL"} \subseteq Voltages
    PROVE  BoardSpec => ImplementsPowermon
<1>1. BoardInit => Abstract!Init
  BY DEF BoardInit, Init, Abstract!Init, Abstract!Sensors, Sensors
<1>2. ASSUME BoardTypeOK, [BoardNext]_boardVars PROVE [Abstract!Next]_(Abstract!vars)
  <2>1. ASSUME NEW d \in Durations, LoopBody(d) PROVE Abstract!Next
    <3>1. PICK valid \in SUBSET Channels, hot \in SUBSET Channels : LoopDoes(d, valid, hot)
      BY <1>2, <2>1, LoopBodyParts
    <3> DEFINE th == ThsetNext(thset, period, Channels, valid, hot)
    <3>2. th \in Abstract!ThsetMoves
      BY <1>2 DEF Abstract!ThsetMoves, ThsetNext, FromState0, FromState1, FromState2,
         BoardTypeOK, TypeOK, ThsetState
    <3>3. Iteration(d, th)
      BY <3>1 DEF LoopDoes
    <3> HIDE DEF th
    <3>4. Abstract!PmStep(th) /\ Abstract!MonStep(th)
      BY <3>3, AbstractSame, AbstractMon DEF Iteration
    <3>5. Abstract!Iteration(d, th)
      BY <3>3, <3>4, AbstractSame DEF Iteration, Abstract!Iteration
    <3> QED BY <3>2, <3>5 DEF Abstract!Next, Abstract!Powermon
  <2>2. CASE BoardToggle
    BY <2>2 DEF BoardToggle, TogglePower, Abstract!Next, Abstract!TogglePower
  <2>3. CASE SamplePower \/ HeatChanges \/ BoardHealthy \/ UNCHANGED boardVars
    BY <2>3 DEF SamplePower, HeatChanges, BoardHealthy, BecomeHealthy, boardVars, vars,
       Abstract!vars
  <2> QED BY <1>2, <2>1, <2>2, <2>3 DEF BoardNext, Loop
<1> QED BY <1>1, <1>2, BoardTypeCorrect, PTL DEF BoardSpec, ImplementsPowermon, Abstract!Spec
=============================================================================
