----------------------------- MODULE VxsMaster -----------------------------
(***************************************************************************)
(* The master of the VXS I2C buses on the switch board (src/dev/vxsiicm):  *)
(* its state machine and the pass over the slots of the crate.  Behind     *)
(* each slot may be a payload board with an EEPROM and a port expander,    *)
(* and with an MCU that runs the firmware of module VxsSlave.  All boards  *)
(* have the same addresses; three PCA9548 multiplexers with eight channels *)
(* each connect them one at a time.                                        *)
(*                                                                         *)
(* Boards are plugged in and out between any two transfers.  What is read  *)
(* from a board is the board itself here.  A transfer stands for several   *)
(* where only the last of them decides: the two ways to detect a board.    *)
(* The words of a sensor are read in two transfers, as many as it takes to *)
(* have them of two boards.  The pins of the port expander, the counters   *)
(* and the flags that nothing reads are left out.                          *)
(***************************************************************************)
EXTENDS Naturals

CONSTANTS
    VxsSlots,      \* the slots in use, of 1..18
    Boards,        \* the payload boards there are
    WithMcu,       \* those whose MCU answers with BMC_MAGIC
    SensorsOf,     \* the sensors that the MCU of a board announces
    MaxSensors,    \* MAX_SENSOR_COUNT
    InfoWords,     \* the registers that follow the first, MCU_READ_SIZE - 1
    NoBoard,       \* an empty slot
    VxsPollDelay,  \* POLL_DELAY_TICKS
    VxsErrorDelay, \* ERROR_DELAY_TICKS
    MaxVxsTicks,   \* saturation of the elapsed time
    MaxPlugs       \* bound: how often a board is plugged in or out

ASSUME VxsMasterAssumption ==
    /\ VxsSlots \subseteq 1..18 /\ VxsSlots # {}
    /\ WithMcu \subseteq Boards /\ NoBoard \notin Boards
    /\ SensorsOf \in [Boards -> Nat]
    /\ {MaxSensors, MaxVxsTicks, MaxPlugs} \subseteq Nat /\ InfoWords \in Nat \ {0}
    /\ {VxsPollDelay, VxsErrorDelay} \subseteq 0..MaxVxsTicks - 1

\* map_slot_to_channel and map_slot_to_subdevice
ChannelOf == <<3, 2, 1, 1, 0, 5, 7, 6, 5, 2, 3, 4, 4, 7, 6, 0, 1, 0>>
ChipOf    == <<1, 1, 1, 0, 0, 1, 0, 0, 0, 0, 0, 0, 1, 1, 1, 2, 2, 1>>

\* No two slots are on the same channel of the same multiplexer.
ASSUME SlotsApart ==
    \A s, t \in 1..18 : ChannelOf[s] = ChannelOf[t] /\ ChipOf[s] = ChipOf[t] => s = t

Chips == 0..2

VARIABLES
    vxsState,   \* state
    vxsTicks,   \* time since priv.stateStartTick
    vxsDevice,  \* dev.device_status
    pass,       \* where dev_vxsiicm_read is: the slot, the step, what the words in map
                \*     were read from, how many words or sensors have been read
    payloads,   \* priv.status.slot: what the information and the sensors were read from
    vxsMux,     \* environment: the channels that each multiplexer connects
    crate,      \* environment: the board in every slot
    told,       \* environment: the boards that have the master's description
    vxsHealth,  \* environment: transfers may fail; never fail; or the multiplexers are dead
    plugs       \* environment: how often a board was plugged in or out

vxsTask == <<vxsState, vxsTicks, vxsDevice>>
vxsEnv == <<crate, vxsHealth, plugs>>
vxsVars == <<vxsTask, pass, payloads, vxsMux, told, vxsEnv>>

Payload ==
    [present : BOOLEAN, info : SUBSET Boards, count : 0..MaxSensors,
     sensors : [1..MaxSensors -> SUBSET Boards]]
Vacant == [present |-> FALSE, info |-> {}, count |-> 0,
           sensors |-> [i \in 1..MaxSensors |-> {}]]

At(slot) == [slot |-> slot, step |-> "select", words |-> {}, read |-> 0]
Resting == At(0)

\* vxsiic_reset_mux, by a pin
MuxReset == [c \in Chips |-> {}]

-----------------------------------------------------------------------------
(* The state machine; RUN starts a pass over the slots.                    *)

VxsGo(to) ==
    /\ vxsState' = to
    /\ vxsTicks' = IF to # vxsState THEN 0
                   ELSE IF vxsTicks < MaxVxsTicks THEN vxsTicks + 1 ELSE vxsTicks

MuxAnswers == CASE vxsHealth = "good" -> {TRUE}
                [] vxsHealth = "dead" -> {FALSE}
                [] OTHER -> BOOLEAN

First(slots) == {s \in slots : \A t \in slots : s <= t}

\* struct_vxs_i2c_init forgets all boards; dev_vxsiicm_detect asks every multiplexer.
VxsRunReset ==
    /\ vxsState = "RESET"
    /\ payloads' = [s \in VxsSlots |-> Vacant]
    /\ vxsMux' = MuxReset
    /\ \E answers \in MuxAnswers :
          /\ VxsGo(IF answers THEN "RUN" ELSE "RESET")
          /\ vxsDevice' = IF answers THEN "NORMAL" ELSE "FAIL"
    /\ UNCHANGED pass

VxsRunBegin ==
    /\ vxsState = "RUN"
    /\ \E s \in First(VxsSlots) : pass' = At(s)
    /\ UNCHANGED <<vxsTask, payloads, vxsMux>>

VxsRunPause ==
    /\ vxsState = "PAUSE"
    /\ VxsGo(IF vxsTicks > VxsPollDelay THEN "RUN" ELSE "PAUSE")
    /\ UNCHANGED <<vxsDevice, pass, payloads, vxsMux>>

VxsRunError ==
    /\ vxsState = "ERROR"
    /\ VxsGo(IF vxsTicks > VxsErrorDelay THEN "RESET" ELSE "ERROR")
    /\ vxsDevice' = "FAIL"
    /\ UNCHANGED <<pass, payloads, vxsMux>>

VxsRun ==
    /\ pass = Resting
    /\ VxsRunReset \/ VxsRunBegin \/ VxsRunPause \/ VxsRunError
    /\ UNCHANGED <<told, vxsEnv>>

-----------------------------------------------------------------------------
(* The pass, transfer by transfer.                                         *)

\* The boards that a transfer reaches, and of them those with an MCU
Connected == {s \in VxsSlots : ChannelOf[s] \in vxsMux[ChipOf[s]]}
OnBus == {crate[s] : s \in Connected} \ {NoBoard}
McusOnBus == OnBus \cap WithMcu

MayMiss(answering) == vxsHealth # "good" \/ answering = {}

Here == payloads[pass.slot]
Store(p) == payloads' = [payloads EXCEPT ![pass.slot] = p]
VxsTo(step) == pass' = [pass EXCEPT !.step = step, !.read = 0]

\* The slot is done, present or not: the next one, or vxsiic_unselect_pp and the end.
SlotDone(present) ==
    LET later == {s \in VxsSlots : s > pass.slot}
    IN  /\ Store([Here EXCEPT !.present = present])
        /\ \/ \E s \in First(later) : pass' = At(s) /\ UNCHANGED <<vxsTask, vxsMux>>
           \/ /\ later = {}
              /\ pass' = Resting /\ vxsMux' = MuxReset
              /\ VxsGo("PAUSE") /\ UNCHANGED vxsDevice

\* Mutant: the multiplexers are not reset first.
SelectWithoutReset ==
    /\ pass.step = "select" /\ pass # Resting
    /\ \E answers \in MuxAnswers :
          /\ vxsMux' \in {vxsMux, [vxsMux EXCEPT ![ChipOf[pass.slot]] = {ChannelOf[pass.slot]}]}
          /\ IF answers
                THEN /\ vxsMux' # vxsMux
                     /\ VxsTo("detect") /\ UNCHANGED vxsTask
                ELSE pass' = Resting /\ vxsDevice' = "FAIL" /\ VxsGo("ERROR")
    /\ UNCHANGED <<payloads, told, vxsEnv>>

\* vxsiic_select_pp; a failure ends the pass, and the slots keep their status.
Select ==
    LET selected == [MuxReset EXCEPT ![ChipOf[pass.slot]] = {ChannelOf[pass.slot]}]
    IN  /\ pass.step = "select" /\ pass # Resting
        /\ \E answers \in MuxAnswers :
              \/ /\ answers
                 /\ vxsMux' = selected
                 /\ VxsTo("detect")
                 /\ UNCHANGED vxsTask
              \/ /\ ~answers
                 /\ vxsMux' \in {MuxReset, selected}
                 /\ pass' = Resting
                 /\ vxsDevice' = "FAIL" /\ VxsGo("ERROR")
        /\ UNCHANGED <<payloads, told, vxsEnv>>

\* dev_vxsiic_detect_pp, then the first byte of EEPROM and port expander: a board that
\* answers neither to the one nor to the other is not present.
FindBoard(step, next) ==
    /\ pass.step = step
    /\ \/ MayMiss(OnBus) /\ SlotDone(FALSE)
       \/ OnBus # {} /\ VxsTo(next) /\ UNCHANGED <<vxsTask, payloads, vxsMux>>
    /\ UNCHANGED <<told, vxsEnv>>

DetectBoard == FindBoard("detect", "board")
ReadBoard == FindBoard("board", "magic")

\* A transfer with the MCU that fails leaves the rest as it was read before.
McuMisses == MayMiss(McusOnBus) /\ SlotDone(TRUE)

ReadBoardMagic ==
    /\ pass.step = "magic"
    /\ \/ McuMisses
       \/ /\ McusOnBus # {}
          /\ Store([Here EXCEPT !.present = TRUE])
          /\ VxsTo("word")
          /\ UNCHANGED <<vxsTask, vxsMux>>
    /\ UNCHANGED <<told, vxsEnv>>

\* Mutant: the words that were read are stored although the next is not.
ReadWordStoring ==
    /\ pass.step = "word"
    /\ \/ McuMisses
       \/ \E b \in McusOnBus :
             /\ Store([Here EXCEPT !.info = (IF pass.read = 0 THEN {} ELSE @) \cup {b}])
             /\ IF pass.read + 1 < InfoWords THEN pass' = [pass EXCEPT !.read = @ + 1]
                ELSE VxsTo("count")
             /\ UNCHANGED <<vxsTask, vxsMux>>
    /\ UNCHANGED <<told, vxsEnv>>

\* The words go to a map, and from there into the status when all have been read.
ReadWord ==
    /\ pass.step = "word"
    /\ \/ McuMisses
       \/ \E b \in McusOnBus :
             LET words == pass.words \cup {b}
             IN  /\ IF pass.read + 1 < InfoWords
                       THEN /\ pass' = [pass EXCEPT !.words = words, !.read = @ + 1]
                            /\ UNCHANGED payloads
                       ELSE /\ pass' = [At(pass.slot) EXCEPT !.step = "count"]
                            /\ Store([Here EXCEPT !.info = words])
                 /\ UNCHANGED <<vxsTask, vxsMux>>
    /\ UNCHANGED <<told, vxsEnv>>

ReadCount ==
    /\ pass.step = "count"
    /\ \/ McuMisses
       \/ \E b \in McusOnBus :
             LET n == IF SensorsOf[b] < MaxSensors THEN SensorsOf[b] ELSE MaxSensors
             IN  /\ Store([Here EXCEPT !.count = n])
                 /\ VxsTo(IF n = 0 THEN "write" ELSE "sensor")
                 /\ UNCHANGED <<vxsTask, vxsMux>>
    /\ UNCHANGED <<told, vxsEnv>>

\* The words of a sensor go to buf: here the first of them,
ReadSensor ==
    /\ pass.step = "sensor"
    /\ \/ McuMisses
       \/ \E b \in McusOnBus : /\ pass' = [pass EXCEPT !.step = "rest", !.words = {b}]
                               /\ UNCHANGED <<vxsTask, payloads, vxsMux>>
    /\ UNCHANGED <<told, vxsEnv>>

\* and here the others, with which buf is copied into the status and the next sensor begins.
ReadSensorRest ==
    /\ pass.step = "rest"
    /\ \/ McuMisses
       \/ \E b \in McusOnBus :
             /\ Store([Here EXCEPT !.sensors[pass.read + 1] = pass.words \cup {b}])
             /\ pass' = IF pass.read + 1 < Here.count
                           THEN [At(pass.slot) EXCEPT !.step = "sensor", !.read = pass.read + 1]
                           ELSE [At(pass.slot) EXCEPT !.step = "write"]
             /\ UNCHANGED <<vxsTask, vxsMux>>
    /\ UNCHANGED <<told, vxsEnv>>

\* dev_vxsiic_write_pp_mcu; only the counters tell whether it has failed.
WriteDescription ==
    /\ pass.step = "write"
    /\ \/ MayMiss(McusOnBus) /\ UNCHANGED told
       \/ \E b \in McusOnBus : told' = told \cup {b}
    /\ SlotDone(TRUE)
    /\ UNCHANGED vxsEnv

VxsPass ==
    \/ Select
    \/ DetectBoard
    \/ ReadBoard
    \/ ReadBoardMagic
    \/ ReadWord
    \/ ReadCount
    \/ ReadSensor
    \/ ReadSensorRest
    \/ WriteDescription

VxsTask == VxsRun \/ VxsPass

-----------------------------------------------------------------------------

VxsInit ==
    /\ vxsState = "RESET" /\ vxsTicks = 0 /\ vxsDevice = "UNKNOWN"
    /\ pass = Resting
    /\ payloads = [s \in VxsSlots |-> Vacant]
    /\ vxsMux = MuxReset
    /\ crate = [s \in VxsSlots |-> NoBoard] /\ told = {}
    /\ vxsHealth = "faulty" /\ plugs = 0

\* A board that is plugged in anew has lost its description.
PlugBoard ==
    /\ plugs < MaxPlugs
    /\ \E s \in VxsSlots, b \in Boards \cup {NoBoard} :
          /\ b = NoBoard \/ \A t \in VxsSlots : crate[t] # b
          /\ crate' = [crate EXCEPT ![s] = b]
          /\ told' = told \ {crate[s]}
    /\ plugs' = plugs + 1
    /\ UNCHANGED <<vxsTask, pass, payloads, vxsMux, vxsHealth>>

VxsSettles ==
    /\ vxsHealth = "faulty" /\ vxsHealth' \in {"good", "dead"}
    /\ UNCHANGED <<vxsTask, pass, payloads, vxsMux, told, crate, plugs>>

VxsNext == VxsTask \/ PlugBoard \/ VxsSettles

VxsSpec == VxsInit /\ [][VxsNext]_vxsVars

\* The task runs in a loop with a delay, and its transfers have timeouts.
VxsFairSpec == VxsSpec /\ WF_vxsVars(VxsTask)

-----------------------------------------------------------------------------
(* Properties                                                              *)

\* Every variable stays in its type.
VxsTypeOK ==
    /\ vxsState \in {"RESET", "RUN", "PAUSE", "ERROR"}
    /\ vxsTicks \in 0..MaxVxsTicks
    /\ vxsDevice \in {"UNKNOWN", "NORMAL", "FAIL"}
    /\ pass \in [slot : VxsSlots \cup {0},
                 step : {"select", "detect", "board", "magic", "word", "count", "sensor", "rest",
                         "write"},
                 words : SUBSET Boards, read : 0..InfoWords + MaxSensors]
    /\ payloads \in [VxsSlots -> Payload]
    /\ vxsMux \in [Chips -> SUBSET (0..7)]
    /\ crate \in [VxsSlots -> Boards \cup {NoBoard}]
    /\ told \subseteq WithMcu
    /\ vxsHealth \in {"faulty", "good", "dead"}
    /\ plugs \in 0..MaxPlugs

VxsWorks == vxsHealth = "good"

\* Once the bus works and the boards stay, every board is shown in its slot and no
\* other; the information and the sensors of one with an MCU are its own, and the
\* board has the description of the master: whatever was left half read before.
BoardsShown ==
    <>[]VxsWorks => <>[](\A s \in VxsSlots :
        LET b == crate[s]
        IN  /\ payloads[s].present = (b # NoBoard)
            /\ b \in WithMcu =>
                  /\ payloads[s].info = {b}
                  /\ payloads[s].count \in {SensorsOf[b], MaxSensors}
                  /\ \A i \in 1..payloads[s].count : payloads[s].sensors[i] = {b}
                  /\ b \in told)

\* Multiplexers that are dead show: no board counts as present.
DeadMuxShown ==
    <>[](vxsHealth = "dead")
        => <>[](vxsDevice = "FAIL" /\ \A s \in VxsSlots : ~payloads[s].present)

\* A transfer reaches the slot that it is meant for and no other, whatever failed in
\* the pass before, so that no board is taken for another.
OneSlotOnly == pass.step # "select" => Connected = {pass.slot}

\* The information of a slot changes as a whole or not at all: a read that fails after
\* some of its registers leaves none of them.
InfoChangesWhole ==
    [][\A s \in VxsSlots :
          payloads'[s].info # payloads[s].info
              => \/ payloads'[s] = Vacant
                 \/ pass.slot = s /\ pass.step = "word" /\ pass.read + 1 = InfoWords]_vxsVars

\* What is read of a slot, and written to it, is of the board that is in it at the time,
\* and has an MCU: also when a board comes or goes between two transfers.
OwnBoardOnly ==
    [][LET own == {crate[s] : s \in {pass.slot} \cap VxsSlots} \cap WithMcu
       IN  /\ pass'.words \ pass.words \subseteq own
           /\ told' \ told \subseteq own
           /\ \A s \in VxsSlots, i \in 1..MaxSensors :
                 payloads'[s].sensors[i] \notin {payloads[s].sensors[i], {}}
                     => /\ s = pass.slot
                        /\ payloads'[s].sensors[i] \ pass.words \subseteq own]_vxsVars

\* What the master shows of the crate is what is plugged in, and of the board itself.
CrateShown == BoardsShown /\ DeadMuxShown

\* The table of sensors that is served by SNMP skips sensors in the state UNKNOWN only
\* (snmp_ipmi_sensors_table.c:146), and not those past the count: it shows only
\* sensors of the board in the slot.
TableShowsOwnSensors ==
    <>[]VxsWorks => <>[](\A s \in VxsSlots : payloads[s].present =>
        \A i \in 1..MaxSensors : payloads[s].sensors[i] \subseteq {crate[s]})
=============================================================================
