-------------------------- MODULE BoardClockProofs --------------------------
(***************************************************************************)
(* What holds of the board's clock for all delays and durations, on the    *)
(* boards whose multiplexer driver breaks after a failed setup.            *)
(***************************************************************************)
EXTENDS BoardClock, Ad9545Proofs

-----------------------------------------------------------------------------
(* The multiplexer's record.                                               *)

\* A change of state keeps to the type.
LEMMA ChangeType ==
    ASSUME NEW c \in ClkmuxDevice, NEW s \in FsmState
    PROVE  /\ Change(c, s) \in ClkmuxDevice
           /\ Change(c, s).state = s
<1>1. 0 \in 0..MaxClkTicks
  BY ClkTicksAssumption
<1> QED BY <1>1 DEF Change, ClkmuxDevice

\* A run leaves the record in its type, and where it goes.
LEMMA ClkRunResult ==
    ASSUME NEW c \in ClkmuxDevice, NEW powered \in BOOLEAN, NEW works \in BOOLEAN
    PROVE  LET r == ClkRun(c, powered, works)
           IN  /\ r \in ClkmuxDevice
               /\ ~powered => r.state = "SHUTDOWN"
               /\ r.state = "RUN" => \/ c.state = "RESET" /\ works
                                     \/ c.state = "PAUSE"
               /\ r.state = "PAUSE" => \/ c.state = "RUN" /\ (works \/ ~ClkBreaks)
                                       \/ c.state = "PAUSE"
<1> DEFINE b == IF powered THEN c ELSE Change(c, "SHUTDOWN")
<1>1. b \in ClkmuxDevice /\ (powered => b = c) /\ (~powered => b.state = "SHUTDOWN")
  BY ChangeType DEF FsmState
<1>2. \A s \in FsmState : Change(b, s) \in ClkmuxDevice /\ Change(b, s).state = s
  BY <1>1, ChangeType
<1>3. \A d \in ClkmuxDevice, st \in ClkStatus :
         [d EXCEPT !.status = st] \in ClkmuxDevice /\ [d EXCEPT !.status = st].state = d.state
  BY DEF ClkmuxDevice
<1>4. b.state \in FsmState
  BY <1>1 DEF ClkmuxDevice
<1> HIDE DEF b
<1>5. CASE b.state = "SHUTDOWN"
  BY <1>1, <1>2, <1>3, <1>5 DEF ClkRun, b, FsmState, ClkStatus
<1>6. CASE b.state = "RESET"
  BY <1>1, <1>2, <1>3, <1>6 DEF ClkRun, b, FsmState, ClkStatus
<1>7. CASE b.state = "RUN"
  BY <1>1, <1>2, <1>3, <1>7, ClkBreaksAssumption DEF ClkRun, ClkSetup, b, FsmState, ClkStatus
<1>8. CASE b.state = "PAUSE"
  BY <1>1, <1>2, <1>3, <1>8 DEF ClkRun, b, FsmState, ClkStatus
<1>9. CASE b.state = "ERROR"
  BY <1>1, <1>2, <1>3, <1>9 DEF ClkRun, b, FsmState, ClkStatus
<1> QED BY <1>4, <1>5, <1>6, <1>7, <1>8, <1>9 DEF FsmState

\* The passing of time keeps to the type.
LEMMA ClkTicksType ==
    ASSUME NEW c \in ClkmuxDevice, NEW d \in PllDurations
    PROVE  LET r == [c EXCEPT !.ticks = ClkSaturate(@ + d)]
           IN  r \in ClkmuxDevice /\ r.state = c.state
<1>1. c.ticks \in Nat /\ d \in Nat
  BY PllAssumption, ClkTicksAssumption DEF ClkmuxDevice
<1>2. ClkSaturate(c.ticks + d) \in 0..MaxClkTicks
  BY <1>1, ClkTicksAssumption DEF ClkSaturate, ClkmuxDevice
<1> QED BY <1>2 DEF ClkmuxDevice

-----------------------------------------------------------------------------

\* The power is on or off.
LEMMA PowerOnType == ASSUME ClockTypeOK PROVE PowerOn \in BOOLEAN
BY Zenon DEF PowerOn

\* Every variable of the board's clock stays in its type.
THEOREM ClockTypeCorrect == ClockSpec => []ClockTypeOK
<1>1. ASSUME ClockInit PROVE ClockTypeOK
  <2>1. ClkInit \in ClkmuxDevice
    BY ClkTicksAssumption DEF ClkInit, ClkmuxDevice, FsmState, ClkStatus
  <2> QED BY <1>1, <2>1, InitTypes DEF ClockInit, ClockTypeOK
<1>2. ASSUME ClockTypeOK, [ClockNext]_boardVars PROVE ClockTypeOK'
  <2>1. CASE RunClkmux
    <3>1. PICK works \in BOOLEAN : /\ clkmux' = ClkRun(clkmux, PowerOn, works)
                                   /\ mux' \in MuxAfter(PowerOn, works)
      BY <2>1 DEF RunClkmux
    <3>2. clkmux' \in ClkmuxDevice
      BY <1>2, <3>1, PowerOnType, ClkRunResult DEF ClockTypeOK
    <3>3. mux' \in {"reset", "outputs", "set"}
      BY <1>2, <3>1 DEF MuxAfter, ClockTypeOK
    <3>4. unseen' \in BOOLEAN
      BY <2>1, Zenon DEF RunClkmux
    <3>5. PllTypeOK'
      BY <1>2, <2>1 DEF RunClkmux, ClockTypeOK, pllVars, PllTypeOK
    <3> QED BY <1>2, <2>1, <3>2, <3>3, <3>4, <3>5 DEF RunClkmux, ClockTypeOK
  <2>2. ASSUME NEW d \in PllDurations, RunPll(d) PROVE ClockTypeOK'
    <3>1. PllTypeOK'
      BY <1>2, <2>2, PowerOnType, RunTypes DEF RunPll, ClockTypeOK
    <3>2. clkmux' \in ClkmuxDevice
      BY <1>2, <2>2, ClkTicksType DEF RunPll, ClockTypeOK
    <3> QED BY <1>2, <2>2, <3>1, <3>2 DEF RunPll, ClockTypeOK
  <2>3. CASE Publish
    <3>1. mainClockReady' \in BOOLEAN
      BY <2>3, Zenon DEF Publish
    <3> QED BY <1>2, <2>3, <3>1 DEF Publish, ClockTypeOK, pllVars, PllTypeOK
  <2>4. CASE CheckClockReady
    <3>1. powergood' \in BOOLEAN
      BY <2>4, Zenon DEF CheckClockReady
    <3> QED BY <1>2, <2>4, <3>1 DEF CheckClockReady, ClockTypeOK, pllVars, PllTypeOK
  <2>5. CASE PowerChanges
    <3>1. mux' \in {mux, "reset"} /\ unseen' \in BOOLEAN
      BY <1>2, <2>5 DEF PowerChanges, ClockTypeOK
    <3>2. PllTypeOK'
      BY <1>2, <2>5, OutageTypes DEF PowerChanges, ClockTypeOK, pllVars, PllTypeOK
    <3> QED BY <1>2, <2>5, <3>1, <3>2 DEF PowerChanges, ClockTypeOK
  <2>6. CASE BoardGood
    BY <1>2, <2>6, GoodTypes DEF BoardGood, ClockTypeOK
  <2>7. CASE UNCHANGED boardVars
    BY <1>2, <2>7 DEF boardVars, ClockTypeOK, pllVars, PllTypeOK
  <2> QED BY <1>2, <2>1, <2>2, <2>3, <2>4, <2>5, <2>6, <2>7 DEF ClockNext, PllTaskStep
<1> QED BY <1>1, <1>2, PTL DEF ClockSpec

\* The driver sets up only pins that it has made outputs.
MuxInv ==
    ClkBreaks => /\ clkmux.state = "RUN" /\ ~unseen => mux # "reset"
                 /\ MuxIsSet

\* A driver that breaks after a failed setup takes the multiplexer to be set up only
\* when it is, or was reset in an outage that the driver has not seen.
THEOREM MuxSetUpIsReal == ClockSpec => [](ClkBreaks => MuxIsSet)
<1>1. ClockInit => MuxInv
  BY DEF ClockInit, ClkInit, MuxInv, MuxIsSet
<1>2. ASSUME ClockTypeOK, MuxInv, [ClockNext]_boardVars PROVE MuxInv'
  <2> USE DEF MuxInv, MuxIsSet
  <2>1. CASE RunClkmux
    <3>1. PICK works \in BOOLEAN : /\ clkmux' = ClkRun(clkmux, PowerOn, works)
                                   /\ mux' \in MuxAfter(PowerOn, works)
      BY <2>1 DEF RunClkmux
    <3>2. /\ ~PowerOn => clkmux'.state = "SHUTDOWN"
          /\ clkmux'.state = "RUN" => \/ clkmux.state = "RESET" /\ works
                                      \/ clkmux.state = "PAUSE"
          /\ clkmux'.state = "PAUSE" => \/ clkmux.state = "RUN" /\ (works \/ ~ClkBreaks)
                                        \/ clkmux.state = "PAUSE"
      <4>1. clkmux \in ClkmuxDevice /\ PowerOn \in BOOLEAN
        BY <1>2, PowerOnType DEF ClockTypeOK
      <4> QED BY <3>1, <4>1, ClkRunResult
    <3>3. PowerOn => (unseen' <=> unseen)
      BY <2>1 DEF RunClkmux
    <3> QED BY <1>2, <3>1, <3>2, <3>3 DEF MuxAfter, Detects, Sets
  <2>2. ASSUME NEW d \in PllDurations, RunPll(d) PROVE MuxInv'
    <3>1. clkmux'.state = clkmux.state
      BY <1>2, <2>2, ClkTicksType DEF RunPll, ClockTypeOK
    <3> QED BY <1>2, <2>2, <3>1 DEF RunPll
  <2>3. CASE Publish \/ CheckClockReady \/ BoardGood \/ UNCHANGED boardVars
    BY <1>2, <2>3 DEF Publish, CheckClockReady, BoardGood, boardVars
  <2>4. CASE PowerChanges
    <3>1. CASE UNCHANGED <<mux, unseen>>
      BY <1>2, <2>4, <3>1 DEF PowerChanges
    <3>2. CASE mux' = "reset" /\ unseen' = (clkmux.state # "SHUTDOWN")
      <4>1. clkmux' = clkmux
        BY <2>4 DEF PowerChanges
      <4>2. ~unseen' => clkmux.state = "SHUTDOWN"
        BY <3>2
      <4> QED BY <4>1, <4>2
    <3> QED BY <2>4, <3>1, <3>2 DEF PowerChanges
  <2> QED BY <1>2, <2>1, <2>2, <2>3, <2>4 DEF ClockNext, PllTaskStep
<1>3. MuxInv => (ClkBreaks => MuxIsSet)
  BY DEF MuxInv
<1> QED BY <1>1, <1>2, <1>3, ClockTypeCorrect, PTL DEF ClockSpec
=============================================================================
