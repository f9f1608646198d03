----------------------------- MODULE ClockShift -----------------------------
(***************************************************************************)
(* The clock shift of an ADC64VE: the FPGA task reads from the FPGA by     *)
(* which part of a clock period the phase is to be moved, and hands it to  *)
(* the PLL task in pll_clock_shift_command, without a lock: it writes the  *)
(* fraction and counts req up, the PLL task takes the fraction and answers *)
(* with ack.  The phaser of the PLL task (src/dev/ad9545/ad9545_commands.c)*)
(* then moves the phase step by step, one step in each run of the driver,  *)
(* while either side may fail, and the driver may start over.              *)
(***************************************************************************)
EXTENDS Ad9545

CONSTANTS
    Period,       \* 16000 ps, the clock period
    ShiftStep,    \* phaser_step_ps, 2000 ps
    Fractions,    \* the fractions the FPGA may ask for, as <<numer, denom>>
    MaxRequests   \* bound: the requests the FPGA makes

ASSUME PeriodAssumption == Period \in Nat
ASSUME StepAssumption == ShiftStep \in Nat \ {0}
ASSUME FractionsAssumption == Fractions \subseteq (1..15) \X (1..15)
ASSUME MaxRequestsAssumption == MaxRequests \in Nat

VARIABLES
    req, ack, numer, denom,  \* pll_clock_shift_command
    fpgaPc,                  \* where fpgaBoardSpecificPoll is
    busy,                    \* the FPGA's control register: a shift is pending
    pollPc,                  \* where poll_ad9545_commands is
    phaserReq,               \* phaser.req
    offset,                  \* phaser.current_value, setup.dpll0.Phase_Offset
    stop,                    \* phaser.stop_value
    chip,                    \* environment: the phase offset the chip has
    forgotten,               \* history: an outage has reset the chip since RUN was
                             \* entered
    asked                    \* history: the sum of the shifts handed over

commandVars == <<req, ack, numer, denom>>
fpgaVars == <<fpgaPc, busy>>
phaserVars == <<phaserReq, offset, stop>>
phaseVars == <<chip, forgotten>>
shiftVars == <<pllVars, commandVars, fpgaVars, pollPc, phaserVars, phaseVars, asked>>

Shift(n, d) == IF n # 0 /\ d # 0 THEN (Period * n) \div d ELSE 0

-----------------------------------------------------------------------------
(* fpgaBoardSpecificPoll, in the FPGA task.                                *)

\* Mutant: a shift that is over is not told to the FPGA.
PollFpgaTellsBusy ==
    /\ fpgaPc = "poll"
    /\ busy' \in {busy \/ (ack # req)} \cup (IF pllGood THEN {} ELSE {busy})
    /\ fpgaPc' \in IF pllState = "RUN" THEN {"poll", "check"} ELSE {"poll"}
    /\ UNCHANGED <<pllVars, commandVars, pollPc, phaserVars, phaseVars, asked>>

\* The control register is written, if that succeeds; only a PLL that has locked
\* to its references is shifted.
PollFpga ==
    /\ fpgaPc = "poll"
    /\ busy' \in {ack # req} \cup (IF pllGood THEN {} ELSE {busy})
    /\ fpgaPc' \in IF pllState = "RUN" THEN {"poll", "check"} ELSE {"poll"}
    /\ UNCHANGED <<pllVars, commandVars, pollPc, phaserVars, phaseVars, asked>>

\* Mutant: a request does not wait for the one before it.
TakeFractionAnyway ==
    /\ fpgaPc = "check"
    /\ \/ /\ req < MaxRequests
          /\ \E f \in Fractions : numer' = f[1]
          /\ fpgaPc' = "denom"
       \/ UNCHANGED numer /\ fpgaPc' = "poll"
    /\ UNCHANGED <<pllVars, req, ack, denom, busy, pollPc, phaserVars, phaseVars, asked>>

\* There is nothing to shift or the read fails; or the last shift is still waiting
\* and the fraction is dropped; or its first number is taken.
TakeFraction ==
    /\ fpgaPc = "check"
    /\ \/ /\ ack = req /\ req < MaxRequests
          /\ \E f \in Fractions : numer' = f[1]
          /\ fpgaPc' = "denom"
       \/ UNCHANGED numer /\ fpgaPc' = "poll"
    /\ UNCHANGED <<pllVars, req, ack, denom, busy, pollPc, phaserVars, phaseVars, asked>>

TakeDenominator ==
    /\ fpgaPc = "denom" /\ fpgaPc' = "req"
    /\ \E f \in Fractions : f[1] = numer /\ denom' = f[2]
    /\ UNCHANGED <<pllVars, req, ack, numer, busy, pollPc, phaserVars, phaseVars, asked>>

Request ==
    /\ fpgaPc = "req" /\ fpgaPc' = "status"
    /\ req' = req + 1
    /\ asked' = asked + Shift(numer, denom)
    /\ UNCHANGED <<pllVars, ack, numer, denom, busy, pollPc, phaserVars, phaseVars>>

WriteStatus ==
    /\ fpgaPc = "status" /\ fpgaPc' = "poll"
    /\ busy' \in {ack # req} \cup (IF pllGood THEN {} ELSE {busy})
    /\ UNCHANGED <<pllVars, commandVars, pollPc, phaserVars, phaseVars, asked>>

FpgaTask == PollFpga \/ TakeFraction \/ TakeDenominator \/ Request \/ WriteStatus

-----------------------------------------------------------------------------
(* poll_ad9545_commands, in dev_ad9545_run.                                *)

PhaserComplete == offset = stop

\* A run of the driver that gets to poll_ad9545_commands.
Polls == pllState = "RUN" /\ sysclk # "unlocked"

\* setup_phaser, if there is a request.  The phase is never moved down: the shifts
\* are not negative.
SetupPhaser ==
    /\ pollPc = "run" /\ pollPc' = "ack"
    /\ Polls /\ PhaserComplete
    /\ IF req # ack
         THEN stop' = offset + Shift(numer, denom) /\ phaserReq' = req
         ELSE UNCHANGED <<stop, phaserReq>>
    /\ UNCHANGED <<pllVars, commandVars, fpgaVars, offset, phaseVars, asked>>

Acknowledge ==
    /\ pollPc = "ack" /\ pollPc' = "step"
    /\ ack' = phaserReq
    /\ UNCHANGED <<pllVars, req, numer, denom, fpgaVars, phaserVars, phaseVars, asked>>

\* run_phaser, and the rest of the run.  A step that is not written, or not in full,
\* ends in ERROR.
RunPhaser(d) ==
    /\ \/ pollPc = "step"
       \/ pollPc = "run" /\ Polls /\ ~PhaserComplete
    /\ PllRun(TRUE, d)
    /\ offset' = IF offset + ShiftStep > stop THEN stop ELSE offset + ShiftStep
    /\ chip' \in IF pllState' = "RUN" THEN {offset'} ELSE {chip, offset'}
    /\ forgotten' = (forgotten /\ pllState' = "RUN")
    /\ pollPc' = "run"
    /\ UNCHANGED <<commandVars, fpgaVars, phaserReq, stop, asked>>

\* Mutant: the setup does not set the phase offset.
ChipAfterKeepsPhase ==
    IF ~pllEnable' \/ pllState = "RESET" THEN {0, chip} ELSE {chip}

\* The other runs: a chip that is reset or loses its power has no offset, ad9545_setup
\* writes Phase_Offset with the rest, if it succeeds.
ChipAfter ==
    IF ~pllEnable' \/ pllState = "RESET" THEN {0, chip}
    ELSE IF pllState = "SETUP"
      THEN IF pllState' = "RUN" THEN {offset} ELSE {chip, offset}
    ELSE {chip}

RunOther(enable, d) ==
    /\ pollPc = "run"
    /\ ~(enable /\ Polls)
    /\ PllRun(enable, d)
    /\ chip' \in ChipAfter
    /\ forgotten' = FALSE
    /\ UNCHANGED <<commandVars, fpgaVars, pollPc, phaserVars, asked>>

\* The steps of the PLL task, as long as the power is as the last run found it.
PollSteps == SetupPhaser \/ Acknowledge \/ (\E d \in PllDurations : RunPhaser(d))
ShiftPllTask == PollSteps \/ (\E d \in PllDurations : RunOther(pllEnable, d))

-----------------------------------------------------------------------------

ShiftInit ==
    /\ PllInit
    /\ req = 0 /\ ack = 0 /\ numer = 0 /\ denom = 0
    /\ fpgaPc = "poll"
    /\ busy = FALSE
    /\ pollPc = "run"
    /\ phaserReq = 0 /\ offset = 0 /\ stop = 0
    /\ chip = 0 /\ forgotten = FALSE
    /\ asked = 0

ChipBecomesGood ==
    /\ PllBecomesGood
    /\ UNCHANGED <<commandVars, fpgaVars, pollPc, phaserVars, phaseVars, asked>>

\* The power goes and comes back between two runs, at any moment.
ChipOutage ==
    /\ PllOutage
    /\ chip' = 0
    /\ forgotten' = (pllState = "RUN")
    /\ UNCHANGED <<commandVars, fpgaVars, pollPc, phaserVars, asked>>

ShiftNext ==
    \/ FpgaTask
    \/ PollSteps
    \/ \E enable \in BOOLEAN, d \in PllDurations : RunOther(enable, d)
    \/ ChipOutage
    \/ ChipBecomesGood

ShiftSpec == ShiftInit /\ [][ShiftNext]_shiftVars

\* Both tasks run in loops with a delay, and their transfers have timeouts.
ShiftFairSpec == ShiftSpec /\ WF_shiftVars(FpgaTask) /\ WF_shiftVars(ShiftPllTask)

-----------------------------------------------------------------------------
(* Properties                                                              *)

\* Every variable stays in its type; one request at most is waiting, and the phase
\* does not go past its end.
ShiftTypeOK ==
    /\ PllTypeOK
    /\ req \in Nat /\ ack \in Nat /\ phaserReq \in Nat
    /\ req <= ack + 1
    /\ numer \in 0..15 /\ denom \in 0..15
    /\ fpgaPc \in {"poll", "check", "denom", "req", "status"}
    /\ busy \in BOOLEAN
    /\ pollPc \in {"run", "ack", "step"}
    /\ offset \in Nat /\ stop \in Nat /\ offset <= stop
    /\ chip \in Nat /\ forgotten \in BOOLEAN
    /\ asked \in Nat

\* No shift is lost, torn or done twice, whatever fails and however often the
\* driver starts over: the end the phaser heads for is the sum of the shifts handed
\* over, less the one it has not taken yet.
ShiftsAddUp ==
    asked = stop + (IF req # phaserReq THEN Shift(numer, denom) ELSE 0)

\* As long as the driver is in RUN the chip has the phase the phaser believes it has,
\* also after a start that followed a failed step or an outage, unless an outage that
\* the driver has not seen yet has reset the chip in RUN.
ChipFollows == pllState = "RUN" /\ ~forgotten => chip = offset

\* If the chip and the bus work in the end and the power stays, all shifts asked for
\* arrive in the chip, and the FPGA is told so: an unseen outage shows in the lock
\* that is lost, and the start that follows restores the phase.
ShiftsArrive ==
    <>[](pllGood /\ pllEnable) => <>[](chip = asked /\ req = ack /\ ~busy)
=============================================================================
