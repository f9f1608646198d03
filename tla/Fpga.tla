-------------------------------- MODULE Fpga --------------------------------
(***************************************************************************)
(* The FPGA task: fpga_task_run (src/src/tasks/base/app_task_fpga_impl.c). *)
(* Each iteration samples the power, the main clock and the pins of the    *)
(* FPGA, connects or disconnects its SPI interface as it has loaded or     *)
(* not, and steps the state machine that waits for the FPGA to load,       *)
(* detects its protocol and exchanges registers with it.                   *)
(***************************************************************************)
EXTENDS Naturals

CONSTANTS
    FpgaDetectDelay,  \* DETECT_DELAY_TICKS
    FpgaLoadDelay,    \* LOAD_DELAY_TICKS, to detect an FPGA without the pins
    FpgaErrorDelay,   \* ERROR_DELAY_TICKS
    FpgaPollDelay,    \* POLL_DELAY_TICKS
    FpgaDurations,    \* the times one iteration may take
    MaxFpgaTicks      \* saturation of the elapsed time

ASSUME FpgaAssumption ==
    /\ MaxFpgaTicks \in Nat
    /\ FpgaDurations \subseteq 1..MaxFpgaTicks
    /\ \A t \in {FpgaDetectDelay + FpgaLoadDelay, FpgaErrorDelay, FpgaPollDelay} :
          t \in Nat /\ t < MaxFpgaTicks

VARIABLES
    donePin,       \* fpga_done_pin_present: the board wires DONE and INIT_B
    fpgaState,     \* priv.fsm.state
    fpgaTicks,     \* time since priv.fsm.stateStartTick
    fpgaDevice,    \* dev.device_status
    oldDone,       \* old_fpga_done
    interface,     \* the SPI interface is enabled
    sample,        \* history: what the last iteration has sampled
    access,        \* history: the register accesses the last iteration made
    detected,      \* history: the FPGA was detected since it last loaded
    overridden,    \* history: the poll delay ended as the FPGA was lost
    fpgaGood       \* environment: the FPGA answers on its SPI from now on

fpgaVars == <<donePin, fpgaState, fpgaTicks, fpgaDevice, oldDone, interface, sample,
              access, detected, overridden, fpgaGood>>

FpgaState == {"STANDBY", "LOAD", "RESET", "RUN", "PAUSE", "ERROR"}
FpgaSaturate(t) == IF t > MaxFpgaTicks THEN MaxFpgaTicks ELSE t

\* Without the pins they read 1.
Samples ==
    {i \in [power : BOOLEAN, clock : BOOLEAN, initb : BOOLEAN, done : BOOLEAN] :
        ~donePin => i.initb /\ i.done}

Enabled(i) == i.clock /\ i.power /\ i.initb     \* fpga_enable
Loaded(i) == i.power /\ i.done                  \* fpga_done

-----------------------------------------------------------------------------
(* The state machine.  i is the sample of the iteration.                   *)

Quietly(to) == fpgaState' = to /\ access' = "none" /\ UNCHANGED fpgaDevice

RunStandby(i) ==
    /\ fpgaState = "STANDBY"
    /\ fpgaState' = IF Enabled(i) THEN "LOAD" ELSE "STANDBY"
    /\ fpgaDevice' = "UNKNOWN"
    /\ access' = "none"

\* Mutant: only the edge of DONE is waited for.
RunLoadOnEdge(i) ==
    /\ fpgaState = "LOAD"
    /\ Quietly(IF ~Enabled(i) THEN "STANDBY"
               ELSE IF Loaded(i) /\ oldDone = "no" THEN "RESET" ELSE "LOAD")

\* An FPGA that does not load is waited for without end.
RunLoad(i) ==
    /\ fpgaState = "LOAD"
    /\ Quietly(IF ~Enabled(i) THEN "STANDBY"
               ELSE IF Loaded(i) THEN "RESET" ELSE "LOAD")

DetectTimeout ==
    FpgaDetectDelay + (IF donePin THEN 0 ELSE FpgaLoadDelay)

\* fpgaDetect finds a protocol, finds none, or fails in the middle.
Detection ==
    \/ fpgaDevice' = "NORMAL" /\ fpgaState' = "RUN"
    \/ ~fpgaGood /\ fpgaDevice' = "UNKNOWN" /\ fpgaState' = "ERROR"
    \/ ~fpgaGood /\ fpgaDevice' = "UNKNOWN"
                 /\ fpgaState' = IF fpgaTicks > DetectTimeout THEN "ERROR" ELSE "RESET"

RunReset(i) ==
    /\ fpgaState = "RESET"
    /\ \/ ~i.power /\ Quietly("STANDBY")
       \/ i.power /\ donePin /\ ~Loaded(i) /\ Quietly("LOAD")
       \/ i.power /\ (donePin => Loaded(i)) /\ access' = "detect" /\ Detection

RunRun(i) ==
    /\ fpgaState = "RUN"
    /\ UNCHANGED fpgaDevice
    /\ \/ ~Loaded(i) /\ Quietly("STANDBY")
       \/ /\ Loaded(i)
          /\ access' = "poll"
          /\ fpgaState' \in IF fpgaGood THEN {"PAUSE"} ELSE {"PAUSE", "ERROR"}

\* The end of the delay comes last, and counts even when the FPGA is lost.
RunPause(i) ==
    /\ fpgaState = "PAUSE"
    /\ Quietly(IF fpgaTicks > FpgaPollDelay THEN "RUN"
               ELSE IF Loaded(i) THEN "PAUSE" ELSE "STANDBY")

\* Mutant: ERROR is left for RUN.
RunErrorToRun(i) ==
    /\ fpgaState = "ERROR"
    /\ fpgaState' = IF fpgaTicks > FpgaErrorDelay THEN "RUN" ELSE "ERROR"
    /\ fpgaDevice' = "FAIL"
    /\ access' = "none"

RunError(i) ==
    /\ fpgaState = "ERROR"
    /\ fpgaState' = IF fpgaTicks > FpgaErrorDelay THEN "RESET" ELSE "ERROR"
    /\ fpgaDevice' = "FAIL"
    /\ access' = "none"

\* fpga_task_run, in an iteration that samples i and takes d.
FpgaRun(i, d) ==
    /\ \/ RunStandby(i) \/ RunLoad(i) \/ RunReset(i)
       \/ RunRun(i) \/ RunPause(i) \/ RunError(i)
    /\ sample' = i
    /\ oldDone' = IF Loaded(i) THEN "yes" ELSE "no"
    /\ interface' = IF oldDone' # oldDone THEN Loaded(i) ELSE interface
    /\ detected' = (Loaded(i) /\ (detected \/ (fpgaState' = "RUN" /\ access' = "detect")))
    /\ overridden' = IF fpgaState = "PAUSE" /\ ~Loaded(i) THEN fpgaState' = "RUN"
                     ELSE overridden /\ fpgaState' \notin {"STANDBY", "RESET"}
    /\ fpgaTicks' = FpgaSaturate(IF fpgaState' # fpgaState THEN d ELSE fpgaTicks + d)
    /\ UNCHANGED <<donePin, fpgaGood>>

-----------------------------------------------------------------------------

FpgaInit ==
    /\ donePin \in BOOLEAN
    /\ fpgaState = "STANDBY"
    /\ fpgaTicks = 0
    /\ fpgaDevice = "UNKNOWN"
    /\ oldDone = "never"
    /\ interface = TRUE
    /\ sample = [power |-> FALSE, clock |-> FALSE, initb |-> TRUE, done |-> TRUE]
    /\ access = "none"
    /\ detected = FALSE
    /\ overridden = FALSE
    /\ fpgaGood = FALSE

FpgaBecomesGood ==
    /\ ~fpgaGood
    /\ fpgaGood' = TRUE
    /\ UNCHANGED <<donePin, fpgaState, fpgaTicks, fpgaDevice, oldDone, interface, sample,
                   access, detected, overridden>>

FpgaTask == \E i \in Samples, d \in FpgaDurations : FpgaRun(i, d)

FpgaNext == FpgaTask \/ FpgaBecomesGood

FpgaSpec == FpgaInit /\ [][FpgaNext]_fpgaVars

\* The task runs in a loop with a delay, and its transfers have timeouts: as long
\* as it samples the same, it goes on.
FpgaFairSpec ==
    FpgaSpec /\ WF_fpgaVars(\E d \in FpgaDurations : FpgaRun(sample, d))

-----------------------------------------------------------------------------
(* Properties                                                              *)

\* Every variable stays in its type.
FpgaTypeOK ==
    /\ donePin \in BOOLEAN
    /\ fpgaState \in FpgaState
    /\ fpgaTicks \in 0..MaxFpgaTicks
    /\ fpgaDevice \in {"UNKNOWN", "NORMAL", "FAIL"}
    /\ oldDone \in {"never", "no", "yes"}
    /\ interface \in BOOLEAN
    /\ sample \in Samples
    /\ access \in {"none", "detect", "poll"}
    /\ detected \in BOOLEAN
    /\ overridden \in BOOLEAN
    /\ fpgaGood \in BOOLEAN

\* The registers are accessed only over an enabled interface, with the FPGA
\* powered and loaded: the interface follows the pins, the accesses the states.
AccessNeedsInterface == access # "none" => interface /\ Loaded(sample)

\* The registers are polled only after the FPGA has been detected since it last
\* loaded, but for one way out: it is lost and loads again just as the poll delay
\* ends, and PAUSE goes to RUN all the same.
DetectedBeforePolled == access = "poll" => detected \/ overridden

\* Each access finds an FPGA that is powered, loaded, connected and detected.
PollsAreSafe == AccessNeedsInterface /\ DetectedBeforePolled

\* An FPGA that works, with power and the main clock, is polled in the end.
\* Without power the task ends up in STANDBY, from whatever state: ERROR does not
\* look at the power, PAUSE may override its loss.
FpgaFollowsPower ==
    /\ <>[](fpgaGood /\ Enabled(sample) /\ Loaded(sample))
          => <>[](fpgaState \in {"RUN", "PAUSE"})
    /\ <>[](~sample.power) => <>[](fpgaState = "STANDBY")
=============================================================================
