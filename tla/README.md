# Formal model of bmc-rtos

bmc-rtos is the firmware of the board management controllers (STM32, FreeRTOS,
CMSIS-RTOS v1 API) of the TTVXS, TQDC, ADC64VE, CRU16 and related VME/VXS boards.  It
switches and supervises the supplies of a board, protects it from overheating,
sets up its clocks, talks to its FPGA and shows all of it on a serial console,
SNMP, HTTP and the I2C buses of the crate.  This directory holds TLA+ models of
its control logic, TLC configurations that check them on small boards, and
TLAPS proofs for boards of any size.

The source is the reference: `PROJECT.json` (`map`) gives the lines that every
definition stands for.  Paths below are relative to the repository.

## 1. Inventory

### Tasks, shared state, interactions

| component | code | state | operations |
|---|---|---|---|
| power monitor | `src/tasks/base/app_task_powermon_impl.c`, `dev/powermon/dev_powermon.c` | `pmState`, `stateStartTick`, switches, `system_power_present` | `task_powermon_run` in the High priority powermon task, `update_power_switches`, `clear_thermal_shutdown` |
| sensor monitor | `dev/powermon/dev_pm_sensors_*.c`, `dev_ina226.c` | `monState`, per sensor `device_status` and `sensor`, `stable_detect_count` | `runMon`, `monDetect`, `monReadValues`, called by the power monitor |
| thermal shutdown | `dev/thset`, `dev/max31725`, `dev/tmp421` | `thermal_shutdown_state`, its start tick; per thermometer a `dev_fsm_t` | `dev_thset_run`, `dev_max31725_run`, `dev_tmp421_run`, in the powermon task's loop in front of the power monitor |
| device state machines | `dev/common/dev_fsm.c` | state and start tick | `dev_fsm_change` |
| I2C master driver | `drivers/bus/i2c_driver.c`, `drivers/bus/impl` | mutex, semaphore, error flag, the HAL's handle, per bus | detect, read, write, mem_read, mem_write from any task; four completion callbacks, error and abort callbacks from interrupts |
| SPI driver | `drivers/bus/spi_driver.c` | a mutex per bus, held for a blocking call of the HAL | transfers from any task |
| AD9545 | `dev/ad9545`, `drivers/ad9545` | `fsm_state`, `recoveryCount`, status registers, phaser | `dev_ad9545_run` in the PLL task |
| AD9548 | `dev/ad9548` | the same on the older TDC and ADC boards, over SPI | `dev_ad9548_run` in their PLL task |
| AD9516 | `dev/ad9516` | the same for the auxiliary clock; `aux_clock_ready` | `auxpllTask` |
| clock shift | `dev/ad9545/ad9545_commands.c`, `dev/fpga/dev_fpga_board_func.c` | `pll_clock_shift_command` (shared, no lock), the phaser | `fpgaBoardSpecificPoll` in the FPGA task, `poll_ad9545_commands` in the PLL task |
| clock multiplexer | `dev/ttvxs_clkmux` and its ADC64VE and CRU16 variants; `dev/tqdc_clkmux` | a `dev_fsm_t`, the registers of an MCP23017; TQDC: a crossbar and selectors behind it | `dev_*_clkmux_run` in the PLL task |
| PLL task, clock ready | `app/*/src/rtos/app_task_pll.c`, `src/tasks/base/app_task_main_impl.c` | `main_clock_ready`, powergood pin | the loop of the PLL task; `check_clock_ready` in the main task |
| FPGA task | `src/tasks/base/app_task_fpga_impl.c`, `dev/fpga` | `fpga_state_t`, the SPI interface, `old_fpga_done` | `fpga_task_run` |
| FPGA registers | `dev/fpga/dev_fpga.c`, `common/sdb_util.c` | the SDB ROM, the CSR, `clock_control` (shared, no lock) | `fpgaDetect`, `fpga_periodic_task_v3` in the FPGA task |
| digital potentiometers | `dev/digipot`, `src/app/commands_digipot.c` | a state machine with a FATAL state, a mail queue from the command line | `dev_digipot_run` in the power task; the keys of the screen |
| SFP modules | `dev/sfpiic` | a state machine, the status of every channel, the I2C switch | `dev_sfpiic_run` in the power task |
| parameters in EEPROM | `dev/eeprom_config` | a block behind the same switch | one read |
| VXS I2C slave | `dev/vxsiics`, `drivers/bus/i2c_slave_driver.c` | a register file, the scratch memory that the master writes, the transfer under way | the slave's interrupt; the poll of a task |
| VXS I2C master | `dev/vxsiicm` | a state machine, the status of every slot of the crate, the multiplexers | passes over the slots and their payload boards |
| log | `src/common/log`, `src/app/display_log.c` | a ring buffer with a semaphore | `log_put`, `log_printf` from any task; the display's last lines |
| Ethernet | `src/eth/ethernetif.c`, `src/tasks/tcpip` | rings of descriptors, a semaphore, link flags, timeouts of lwIP | the PHY thread, `eth_recv`, the TCP/IP thread, the interrupt |
| serial console | `drivers/common/os_serial_tty.c` | queues of one character, the UART's interrupt enable | `enqueue_char` in the display task; the UART's interrupt |
| display | `src/tasks/base/app_task_display_impl.c` | refresh flags, the page on the screen | `display_task_run` in a task of low priority |
| command line | `src/app/cli.c`, `src/tasks/base/app_task_cli_impl.c` | `display_mode`, `enable_power`, the escape sequence, the size of the terminal | `cliTask`, above the display in priority |
| IPMI, IPC | `src/app/ipmi_sensors.c`, `src/ipc` | copies of sensor values | updates for the other processor |
| start-up, board support | `src/rtos/app_task_init.c`, `app/*/src/bsp` | generated | creation of tasks, pin tables |

The tasks share plain globals: `enable_power` (command line to powermon and PLL),
`system_power_present` (powermon to PLL, FPGA, main), `main_clock_ready` (PLL to FPGA and
main), `pll_clock_shift_command` (FPGA to PLL and back), `clock_control` (FPGA to PLL).  Devices
are reached through the I2C and SPI drivers, whose waits are ended by interrupts or by timeouts.

### What is hard

* **One start tick, two state machines.**  The power states and the sensor monitor
  share `stateStartTick`: each restarts the timeouts of the other.
* **State that outlives its reason.**  A sensor keeps the status of its last reading,
  `stable_detect_count` its last count, the port expander's directions are taken to be
  set, the recovery counts survive the loss of power, lock bits the start they belong to, the
  identity of a module the module, the SDB ROM the FPGA.
* **A circle of dependencies.**  Power decides whether the VCXO thermometer runs, the
  thermometers decide whether the thermal latch clears, the latch decides about power.
* **Late interrupts.**  A completion may come between the timeout of a wait and the
  reset of the peripheral.
* **Unlocked handshakes.**  The clock shift crosses two tasks in four plain words, the
  clock control in two; the log has a semaphore that nobody waits for; two threads fill the
  transmit ring; the VXS registers change while they are being read; the refresh flags of the
  display are read and cleared in two steps.
* **Queues of one.**  The console's transmitter frees its queue before it has written the
  character, the receiver drops what does not fit, in the middle of an escape sequence, too.
* **Partial failure.**  A setup may fail after any number of its transfers, a master
  may stop in the middle of a word.
* **Pools.**  Buffers of received frames, blocks of the mail queue and timeouts of
  lwIP each have an owner that must give them back.

`PROJECT.json` (`hazards`) lists each at its line.

### What makes each component correct

* power monitor: supplies on in the states that need them and off after a failure; the
  way back to RUN from every fault; the operator's OFF is honoured; nobody sees power
  that is gone.
* thermal shutdown: no trip without a sustained period, a trip when it lasts, recovery
  when the board has cooled down.
* I2C: a call that reports success has done its own transfer; no transfer writes into a
  buffer that its caller has left; every call returns.
* clock chips: all three drivers keep to one life cycle and give up only after their
  recoveries, show nothing of an earlier start, and get a working chip to run.
* clock shift: shifts are neither lost, torn nor made twice, and reach the chip.
* clock multiplexers and clock ready: a multiplexer that counts as set is set; the ready
  flag and the pin follow the power; the outputs follow the source that the FPGA asks for.
* FPGA: registers are accessed only over an enabled interface and after a detection;
  a working FPGA is polled, an unpowered one left alone; the clock control is read only where
  a whole ROM of the same FPGA says that it is.
* potentiometers: every command is executed, its block given back, its effect shown.
* SFP modules: what is shown is of the module in the slot, and it is switched on.
* VXS master: one slot is connected at a time; what is shown of a slot is whole, and of the board in it.
* VXS slave: words arrive whole in both directions, and a transfer that fails harms
  itself only.
* log: the screen ends up with the last messages, whole and in order.
* Ethernet: no frame waits in vain, no frame is spoiled but by a race it is part of;
  the link flags follow the cable; announcements go on and stay within their bound.
* console: what is printed is transmitted, but for one character; a key has its effect once.
* display: the screen ends up with the chosen page alone, whatever flag is lost.

## 2. Modules

| module | models | composed of |
|---|---|---|
| `Powermon` | power monitor and sensor monitor, with an arbitrary thermal input | |
| `DevFsm` | `dev_fsm_change` | |
| `Thset` | thermometers and detector as functions | `DevFsm` |
| `BoardThermal` | the whole loop of the powermon task | `Powermon`, `Thset`; implements `Powermon` |
| `I2cDriver` | one I2C bus with its tasks and interrupts | |
| `PllLifecycle` | abstract: what all clock chip drivers do | |
| `Ad9545`, `AuxPll`, `Ad9548` | the drivers of the AD9545, the AD9516 and the AD9548 | each implements `PllLifecycle` |
| `ClockChips` | the three drivers side by side | `Ad9545`, `AuxPll`, `Ad9548` |
| `ClockShift` | the clock shift between the FPGA task and the PLL task | `Ad9545` |
| `Clkmux` | the clock multiplexer's driver as a function | `DevFsm` |
| `BoardClock` | PLL task and main task with power that comes and goes | `Ad9545`, `Clkmux` |
| `ClockControl` | abstract: what the FPGA task promises about `clock_control` | |
| `TqdcClkmux` | the multiplexer of TQDC, which relies on that promise | `ClockControl`, `DevFsm` |
| `FpgaRegs` | detection and poll of the FPGA's registers | implements `ClockControl` |
| `Fpga` | `fpga_task_run` | |
| `Digipot` | the potentiometers and their mail queue | |
| `Sfpiic` | the SFP modules behind their switch | |
| `VxsMaster` | the pass over the slots of the crate, with multiplexers and boards that come and go | |
| `VxsSlave` | the I2C slave with a master that may stop anywhere | |
| `LogBuffer` | the log with two writers and the display | |
| `EthLink`, `EthRx`, `EthTx` | link and announcements, reception, transmission | |
| `Tty` | the transmitter of the serial console | |
| `Screen` | the display task with its flags and the page | |
| `Cli` | receiver, escape sequences and keys, the size of the terminal | `Screen` (what the keys do to it) |
| `*Proofs` | theorems, see section 5 | their modules, `TLAPS` |
| `MC*` | values of the constants for TLC | see section 3 |

### Conventions

* One run of a `*_run` function is one action (`Iteration`, `LoopBody`, `PllRun`,
  `FpgaRun`, `AuxTask`, ...): the functions share variables with nothing that could see them in between,
  except where they do.  There the run is split at each shared access: the powermon loop
  at the sampling of `power_on` (`SamplePower`, then `LoopBody`), the PLL task at each
  function that samples the power (`RunClkmux`, `RunPll`, `Publish`), the clock shift and the
  clock control at each shared word, the drivers of buses at each call of the HAL and of the
  kernel, the display at each access to a flag or the page, the poll of the FPGA and the update of an SFP module at each transfer (an FPGA
  is reloaded and a module swapped between any two), the mail queue at each command, the log
  at each load and store.
* Time is the elapsed time since a start tick, in units; an iteration takes `d` from
  a set of durations, and times saturate above every timeout.  `osKernelSysTick` differences are
  unsigned, so the wrap of the 32-bit tick is not visible.
* A loss of power may be shorter than the period of the task, so that no run of the driver samples it.
  All chips behind a driver (the three clock chips, the port expanders of the clock multiplexers, the
  crossbar) may lose their contents at any moment for that reason; the history variables `unseen`,
  `auxOutage`, `forgotten` and `muxOutage` record it.  Where the code has no answer to it the
  properties exclude it and section 4 lists the property without the exception.
* A device that works or not is a choice in each transfer.  A variable of the environment
  (`healthy`, `pllGood`, `fpgaGood`, `regsGood`, `potsGood`, `sfpHealth`, ...) says that from now on
  everything works, or nothing does; liveness is about what follows.
* History variables (`late`, `failures`, `cleanTicks`, `unseen`, `overridden`, `reloaded`,
  `overlap`, `disturbed`, `starved`, `tainted`, `forgotten`, ...) are read by properties only.

### Powermon

`Iteration(d, th)` is `task_powermon_run`: `th` is what the detector has just left,
`PmStep` the `switch` statement (one action per case), `MonStep` `runMon` if a read is due,
and then the publication of `system_power_present`.  `stateTicks` is the single tick both state
machines use.  `MonDetect` and `MonRead` take the set of sensors that answer, and follow
the limits on errors by which the code stops scanning (`Probed`, `StillReading`).  Readings are
abstracted to their class (NORMAL, WARNING, CRITICAL).  `TogglePower` is the console's `p`.

### Thset and BoardThermal

`ThermRun` is `dev_max31725_run`; `dev_tmp421_run` is the same but for the use of
`power_on`, so the parameter `stops` tells them apart.  `ThermShuts` tells the boards
that stop the VCXO thermometer without power (TTVXS, CRU16) from the others.
`ImplementsPowermon` says that the loop is a refinement of `Powermon` with an
arbitrary thermal input (`healthy` is mapped to FALSE, since the abstract module
lets its environment settle for good).

### I2cDriver

`pc[t]` is where a call stands, `hal` the state of the HAL's handle, `transfer` whose transfer
the peripheral runs.  `Complete`, `ErrorCallback` and `AbortCplt` are the interrupts.  An
assert may stop the task (a debug build) or be passed (NDEBUG): both are
steps.  `late` records that a callback came after its waiter had timed out.

### The clock chips and ClockShift

`PllRun(enable, d)`, `AuxTask` and `SynTask` are the runs of the three drivers.  Registers are
abstracted to the success of a transfer, the lock bits that decide about the states, and what
has been set up in the chip since its last reset (`auxChip`, `synChip`).  On the SPI bus of the
AD9548 a transfer succeeds whether a chip has taken it or not, so there a setup is lost
unnoticed.  A loss of power that is shorter than the task's period empties the chip and
nothing else.  `sysclkSet` is whether the AD9545 has its system clock set up, without which it does not
lock: that is how its driver learns of such an outage.  `PllLifecycle` is the common life cycle: off, starting, running, failed,
given up, with the count of the recoveries, which a loss of power leaves alone.

In `ClockShift`, `FpgaTask` is `fpgaBoardSpecificPoll`, `PollSteps` is `poll_ad9545_commands`
with the rest of the run; `chip` is the phase offset the synthesizer holds.  `ChipOutage` resets it at any
moment; in RUN that leaves it without its phase (`forgotten`) until the driver misses the lock and sets the chip up
again, which `ChipsServe` says that it does.  The shift is
taken as non-negative: the code's fraction is unsigned.

### The clock multiplexers

`ClkRun` is `dev_ttvxs_clkmux_run`; `ClkBreaks` tells the variants with a `break` after a
failed setup (ADC64VE, CRU16) from those without (TTVXS).  `mux` is the port expander:
`reset` (pins are inputs), `outputs`, or `set`.  In `TqdcClkmux` a run goes on to the next
action when it has read `clock_control` (`route`), the crossbar has its inputs loaded one
output at a time (`loaded`) and then configured (`crossbar`), and any of the transfers may fail.
The transfers reach the crossbar through the pins of the port expander while these are outputs (`directions`).  In
both drivers only the detection, in RESET, makes them outputs, so that after an outage in RUN or PAUSE
(`MuxPowerChanges`) all setups succeed and go nowhere.

### Fpga and FpgaRegs

`FpgaRun(i, d)` is `fpga_task_run` with the sample `i` of power, clock and pins.  What
`fpgaDetect` and the polls find is an outcome there; `donePin` is the kind of board.
`FpgaRegs` opens the poll of version 3: `step` is the next transfer, `rom` the image the records
come from (`zero` after the copy was cleared, `mixed` when the FPGA was reloaded on the way),
`crcValid` what the checksum said.  `C` is its instance of `ClockControl`.

### Digipot and Sfpiic

`Digipot`: `PotRunRead` reads all wipers; `batch` counts the commands that the rest of the
iteration takes from the queue; `blocks` are the blocks of its pool that are out.  `TypeKey` and
`SendCommand` are the command line, which waits in `osMailAlloc` when the pool is empty.

`Sfpiic`: `update` is where the pass over the channels is, with the channel and what was read
of its lower page.  A slot holds a module; status fields hold the module they were read from.  The
switch keeps its position when a transfer with it fails.

### VxsMaster, VxsSlave, LogBuffer

`VxsMaster`: `pass` is where the pass over the slots is, with the slot, the next transfer and what the
words in `map`, or in the buffer of a sensor, were read from; a sensor is read in two transfers, so that one
of words of two boards is possible, as it is for the information (`InfoWords`); `vxsMux` are the channels that the three PCA9548 connect, from the
source's own tables; every transfer reaches all the boards that are connected.  `told` are the
boards that the description was written to.

`VxsSlave`: the interrupt serves one flag at a time, in the order of the handler and not of
the bus.  `turn` is the transfer the master is in, `faults` are transfers that it cuts short, boards
that vanish, and a STOP that is served late; the registers of the board (`live`) change at any time.

`LogBuffer`: each writer is split at each of its loads and stores; `overlap` records that two
were in `log_put_long` at once, `missed` that a whole turn of the ring went by between two
refreshes.

### EthLink, EthRx, EthTx

`EthLink`: the PHY thread with the link callback in three steps (flag, MAC, display and LLDP), the
TCP/IP thread with the timeouts.  `chains` are the timeouts that wait to announce.  `EthRx`:
the DMA, the thread `eth_recv` split at its semaphore, the pool and the mailbox, and lwIP that
keeps buffers.  `EthTx`: the TCP/IP thread copies in two steps and the PHY thread, which has the
higher priority, may send a whole frame between them; never the other way round.

### Tty, Screen, Cli

`Tty`: `enqueue_char` in its three steps, which the interrupt may come between.  `tdr` is the data
register of the UART: `covered` while the character in it still has its place in the queue, `exposed` when
the place was given up before the character was written.   Which character it is does not matter, since the
handler does not look.

`Screen`: `drawer` is the step of `display_task_run`; `screen.mixed` says that a page was drawn over another
without clearing.  `ChoosePage` and `ScheduleDisplay` are what other tasks do to it.

`Cli`: `Sent` are the characters of each key; the digits of an answer are one character, `Garbled` when some
of them were lost.  `wanted` is what the keys pressed so far should have led to.  The display is reduced
to what the command line notices of it: it reads the flags and asks for the size.

## 3. Runs

Each of them finishes within four minutes with two workers.

| run | shows |
|---|---|
| `powermon` | `SwitchesMatchState`, `RunNeedsMonitor`, `StandbyIsOff`; the way back to RUN (`Recovers`); a power OFF command is lost in a powered STANDBY only, and supplies that stay off do not stay reported as present (`PowerOffHonouredElsewhere`) |
| `powermon_timeouts` | finding: the shared start tick keeps timeouts from firing |
| `thermal_live` | refinement of `Powermon`; lasting heat trips, a cool board recovers, if the thermometers keep running |
| `thermal_faulty` | a trip needs a full period without a clean reading, with failing thermometers |
| `thermal_latched` | finding: with a thermometer that stops without power the latch is for ever |
| `clock` | multiplexer (`MuxIsSet`), ready flag and pin (`ClockFollowsPower`), for the variant with `break` |
| `clock_nobreak` | finding: without it a failed setup counts as a good one |
| `pll` | the three clock chips (`ImplementLifecycle`, `StatusNotStale`, `NoOldLock`, `ReadyIsSetUp`), the clock shift end to end (`ShiftsAddUp`, `ChipFollows`), the crossbar of TQDC (`OutputsOfOneSource`), and all of it in the end (`ChipsServe`, of `ShiftsArrive`, `ChipsRecover` and `ClockFollows`) |
| `tqdc_selectors` | finding: the selectors of TQDC never follow |
| `shared` | I2C driver (`TrueMeansDone`, `NoStrayTransfer`, `ReadyWhenLocked`), Ethernet (`ChainsBounded`, `FramesReceived`, `FramesSent`); what tasks and interrupts hand over, of log, console, screen, keys, VXS slave and link (`SharedKeep`, `SharedStepsKeep`); what becomes of it in the end (`BusServes` of both ends of the I2C buses, `LinkServes`, `ConsoleServes` of log, screen and keys) |
| `lldp_timeouts` | finding: link changes use up the timeouts of lwIP |
| `devices` | FPGA task (`PollsAreSafe`), its registers (`ClockReadByItsRom`, `ImplementsClockControl`), potentiometers, SFP modules and the payload boards of the crate: what is never lost or taken for another (`DevicesKeep`, `DeviceStepsKeep`) and all of them in the end (`DevicesServe`, of `FpgaFollowsPower`, `PotsServed`, `ModulesServed` and `CrateShown`) |

`pll`, `shared` and `devices` hold several modules that share no state.  Their composition would
only multiply state spaces, so a variable `unit` of the MC module is chosen in the initial state, one module
runs and the others rest in one initial state each.  A property of one module is then
checked on its part of the states, and holds in the others as it does initially.

A property with several conjuncts is what a few components promise, one conjunct for each: an invariant
(`SharedKeep`, `DevicesKeep`), what no step does (`SharedStepsKeep`, `DeviceStepsKeep`), or what happens in the end
(`*Serves`, `PowerOffHonouredElsewhere`).  The conjuncts are defined, and commented, in the modules of the components.

### Bounds, and why they are enough

* `powermon`: three sensors are the input, a critical and an optional one.  Two
  silent sensors are what `monReadValues` needs to stop early; `monDetect` gives up after three, which
  matters from a fourth sensor on and is covered by the theorems only.  Readings are NORMAL or CRITICAL here;
  `powermon_timeouts` runs with all classes on two sensors and longer delays.  Delays of 1 and 2 units
  keep the order of the real ones apart where the code compares them with the same tick;
  timers saturate one unit above the longest.
* `thermal_*`: one supply, three channels on two thermometers.  Two hot channels make the
  condition, so three leave one that may be cool or silent.  The shutdown period is two iterations.
  `thermal_faulty` runs `ThermFaultsSpec`: faults of the thermometers alone, while the power still comes and goes
  with the operator and the detector; what the sensor monitor makes of faulty
  supplies is the business of `powermon`, and reaches the thermometers as one bit only.
* `clock`: every sample and every outcome at every iteration.
* `pll`: `MaxRequests = 2` lets a second shift wait while the first one moves.  `Period`
  4 and `ShiftStep` 3 make shifts of one and of two steps, the last one short.  The limits of
  recoveries are 0, 1 and 2, one for each chip; the theorems cover every limit.  Two contents of
  the clock control, with and without a valid source, make the crossbar take both of its ways;
  `MuxErrors = 2` lets it survive one error.
* I2C in `shared`: three tasks: the one whose callback is late, the one that takes its
  semaphore, the one that finds the handle busy.
* VXS slave in `shared`: words of two bytes (the shortest that can be torn), two scratch registers
  (the shortest memory in which the second may be hit for the first), one fault (`MaxFaults`): its
  effects and their end are seen before a second one.
* Log in `shared`: one writer with the mutex and one without; a ring of three, a screen of one
  line, four messages (`MaxPuts`): once round the ring and one more, so that a refresh with a stale
  count prints more lines than the screen has and the writers can come round to the first of them.
* Ethernet in `shared`: `MaxFlaps = 6` changes of the cable and `TimeoutPool - OwnTimeouts = 3` make it
  possible to run out of timeouts; three descriptors, four buffers and a mailbox of two make each of them the
  one that runs out first; a ring of four transmit descriptors has one more than a race spoils.
  The theorems cover all sizes.
* Console in `shared`: the transmitter has no bound.  Two pages tell the chosen one from any other; the display
  has no bound either, and the page may change between any two of its steps.  The keys: `MaxStrokes = 2` is a
  key and another in or after its sequence; `MaxLost = 1` drops one character of any of them or spoils one answer
  of the terminal, of which two in a row must agree; a sequence has at most `EscLimit = 4` characters where the code has 31.
* `devices`: two images with a checksum, one without and one without a ROM make every change
  of the image that matters; two potentiometers tell "one of them" from "all", a queue of one block
  fills up at once, `PotRetries = 2` leaves one error before FATAL; two SFP channels make a
  neighbour, four modules one of each kind that is treated differently, `MaxSwaps = 2` a module
  that replaces another.  Two slots of the crate that are on different channels of different
  multiplexers (5 and 16), so that a multiplexer that is not reset connects both; a board with more
  sensors than are kept, one with fewer, one without an MCU; `MaxPlugs = 2` a board that replaces another or
  joins it.  That no two slots share a channel is an assumption that TLC evaluates (`SlotsApart`).

### Fairness

* The powermon task is the highest priority task of the system, blocks only in
  `osDelay` and in transfers with a timeout: weak fairness of an iteration.  The potentiometers
  and the SFP modules are run by such a loop as well, and the VXS master by one of a low priority.
* The PLL, auxiliary PLL, FPGA and main tasks are loops with a delay, their transfers have timeouts: weak
  fairness of an iteration, or of its steps.  They have no deadline, and none is assumed.
* The command line sends the command it has taken; a writer of the log and the display end
  what they have begun; the PHY thread polls in a loop, the TCP/IP thread serves its timeouts.
* I2C: a task that has the mutex runs, and the kernel ends its wait: weak fairness of
  its steps.  No fairness of the master's interrupts, nor in the choice of who gets the mutex.
* VXS slave: a raised flag is served in the end, the master of the crate goes on with its
  passes (`BusStep`), and the polling task runs.
* Display: its task is not suspended for ever, and the timer of its repaints comes round when it rests (strong
  fairness, since it does not rest all the time).  Command line: it takes the character it has, the terminal sends
  what it owes.
* None of the operator, of cables and modules, of reloads of the FPGA, of failures or of repairs:
  liveness has the form "if from some moment on the hardware works and the command stays,
  then ...".

Deadlock is checked in every run.  In `MCShared` a task that was stopped by a failed assert has a step
that changes nothing, since there the firmware really stops.

## 4. Findings

Shown by a run that expects a violation:

1. `TimeoutsFire` (`powermon_timeouts`): `runMon` restarts the start tick of the power states.
2. `OverheatRecovers` (`thermal_latched`): `dev_thset_run` recovers only with all three channels
   valid; a thermometer that is shut down without power is never valid.
3. `MuxIsSet` (`clock_nobreak`): the missing `break` in `dev_ttvxs_clkmux_run`.
4. `SelectorsFollow` (`tqdc_selectors`): the selectors for the clocks of ADC and TDC are written to the port
   of the crossbar's address.
5. `TimeoutsSuffice` (`lldp_timeouts`): each time the link comes up one more timeout of lwIP is
   armed for good.

Stated in the modules and violated by the code as well; each becomes a counterexample when it
is added to the configuration named:

| definition | add to | what happens |
|---|---|---|
| `AlwaysReady` (`I2cDriver`) | INVARIANT, `MCShared.cfg` | a late callback leaves the semaphore given, and the assert of the next call but one fails (`i2c_driver_impl.c:113`) |
| `PowerOffHonoured` (`Powermon`) | PROPERTY, `MCPowermon.cfg` | entering OVERHEAT does not switch off, leaving it for STANDBY neither, and STANDBY reads `enable_power` only to switch on |
| `MuxServes` (`BoardClock`) | PROPERTY, `MCBoardClock.cfg` | after an outage that the driver has not seen the pins of the port expander are inputs, and RUN and PAUSE do not set their directions again (`dev_ttvxs_clkmux.c:159`) |
| `OutputsServe` (`TqdcClkmux`) | PROPERTY, `MCPll.cfg` | the same of TQDC's multiplexer (`dev_tqdc_clkmux.c:187`): the driver goes on setting the crossbar and reports NORMAL, and the outputs stay at their default |
| `ReadyServes` (`AuxPll`) | PROPERTY, `MCPll.cfg` | an outage that the task has not seen leaves the AD9516 without its setup in PAUSE, which reads nothing and never ends (`app_task_auxpll_impl.c:95`), and its clock goes on counting as ready |
| `NoTornEntry` (`LogBuffer`) | INVARIANT, `MCShared.cfg` | the semaphore that is meant as a lock is not waited for, and two writers mix their messages |
| `InterfaceComesUp` (`EthLink`) | PROPERTY, `MCShared.cfg` | an interface whose link comes up after the start is never set up (`app_task_tcpip_impl.c:67`) |
| `TableShowsOwnSensors` (`VxsMaster`) | PROPERTY, `MCDevices.cfg` | the SNMP table of sensors leaves out those in the state UNKNOWN, and not those past `count`: it goes on showing sensors of the board that was in the slot before (`snmp_ipmi_sensors_table.c:146`) |
| `TxDisableReset` (`Sfpiic`) | PROPERTY, `MCDevices.cfg` | "reset TX_DISABLE" writes back the reserved bits that it has read (`dev_sfpiic_ch.c:227`) |

Smaller things that the properties had to be written around: a frame that is left in the
receive ring by an empty pool waits for the next frame (`FramesReceived` says when); exactly a
turn of the log's ring looks like no message (`ShowsLatest`); a transfer of the VXS master that was cut short
counts as complete (`CutLeavesPrefix`); the name of a QSFP of the first kind or a CXP is that of
the module before it (`ModulesShown`); `cliTask` reads the tick once before its loop, so that
`ESCAPE_TIMEOUT` never passes and an ESC that is pressed alone swallows the next key, and with the first character
of F1 (`ESC O P`) lost, the `P` switches the power (`KeysHonoured` excludes both).

## 5. Proofs

All theorems are proved for every value of the constants that satisfies the `ASSUME`s of the
module (times are naturals below the saturation limit, the input sensor is a sensor, pools have
room for what they always hold, ...).

* `PowermonProofs` (`Powermon`, `BoardThermal`): `TypeCorrect`, `SwitchDiscipline`, `StandbyEntry`, `RunLosesNoMonitor`,
  `BoardTypeCorrect`, `TripsLate`, `LoopImplementsPowermon`.  `SwitchesMatchState`
  is inductive as it stands, with one step per case of the `switch` statement: each state that
  needs the supplies is entered from one that has them or together with the write.  `StandbyEntry` is
  an action property that follows from it: FAILWAIT has them off, OFF switches them off.
  `RunNeedsMonitor` is inductive together with the types.  For `TripNeedsPeriod` the invariant `PeriodInv`
  says that in STATE_1 the critical period has begun after the last clean reading.  The refinement maps every step of the loop to an iteration of `Powermon` with
  the input the detector has left, or a stutter (`LoopBodyParts` splits the loop, `AbstractMon` and its neighbours
  say that the operators mean the same in both modules).  It assumes that readings may be
  NORMAL and CRITICAL, which healthy supplies need.
* `I2cProofs` (`I2cDriver`, `VxsSlave`): of the master `TypeCorrect`, and from one invariant `CompletionsMatch`,
  `BuffersAreLeftAlone` and `AssertionHolds`.  The invariant has `Holder` (a call under way holds the mutex),
  `HalMatches` (the handle is ready exactly when no transfer runs), and, while no callback was
  late, `OwnerWaits` (a transfer belongs to a call that waits for it), `TokenIsMine` (the
  semaphore is given only to the call whose transfer has just ended) and
  `OutcomeIsMine` (the error flag is that of this transfer).  `CallsAdvance` is the safety half of
  `CallsReturn`: the measure `ToReturn` that each step of a call lowers and nothing else raises.  Of the slave `SlaveTypeCorrect`, `ReadsAreWhole` and
  `WritesAreWhole`, from `SlaveInv`.  What the handler has counted and kept is not a function of what the master has
  sent, because the flags wait in between: `InStepWithBus` says, for each phase of the transfer and each set of flags that
  are raised, how far the handler is behind, and which bytes of which word it has; `CutShort` says the
  same of a transfer that the master has broken off and the handler has not yet ended.  Neither property is
  inductive without it, since a byte counted twice shows only several interrupts later.
* `SharedProofs` (`LogBuffer`, `Tty`, `Screen`, `Cli`, `MCShared`): of the log `LinesAreWhole`, the safety part of
  `ShowsLatest`: `AloneInv` says by the step of a writer that is alone what it has done so far
  (`Half`: only the entry at the pointer may be mixed), and `PrintInv`
  that the entries still to be printed are the last messages before the pointer as it was read
  (`EntriesAreLast`, a lemma for any count, stale or not), so that no writer has come round to them.  `LogTypeCorrect`
  needs more than types: that a count which one writer has loaded is not above the number of messages when another
  has counted meanwhile is `PutsCounted`, by the number of writers that are under way.  Of the
  console `NoCharacterLost`, from `TtyInv` (a covered character still has its place in the queue, and the display
  task cannot be past `osMessagePut`), and `WrongScreenIsKnown`, from `ScreenInv` (while the screen is not that
  of the remembered page, the flag of a repaint is set or has just been read).  Of the keys `EachKeyOnce`, from
  `CliInv`: `InSequence` lists what of a key's sequence the parser may have while the rest is on the line, and
  `InStepWithKeys` adds what the rest will still do (`PageAfter`, `PowerAfter`) to what was done, so that a key counts the same
  from the keystroke to its effect.
* `Ad9545Proofs`: `PllTypeCorrect`, `GivesUpLate`, `StatusIsFresh`, `PllRefines`.  The invariant `FailuresCounted`
  relates the failures to the recoveries: in ERROR there has been one failure more.
* `ClockChipProofs` (`AuxPll`, `Ad9548`, `ClockChips`, `ClockShift`, `TqdcClkmux`, `MCPll`): types; `ReadyMeansSetUp` from `AuxSetUp` (in which
  states the chip has its setup, unless there was an outage); `LockIsNew` from `NoLockYet` (no state before
  SYSCLK_WAITLOCK can be entered with an old lock); `ChipsRefine`, the refinement of `PllLifecycle` by all three, from one
  lemma each that maps every pair of states to a step of the life cycle (`PllPhaseStep`,
  `AuxPhaseStep`, `SynPhaseStep`).  Of the clock shift `ShiftTypeCorrect`, `NoShiftLost`, `ChipHasThePhase`: `Handshake` says
  between which steps of either task `req`, `ack` and the phaser's request may differ,
  and that the fraction is not written while a request waits; with it the shifts asked for are
  those made and the one that waits (`SumKept`).  `ChipHasThePhase` holds until an outage resets the chip of a driver in RUN.  Of TQDC's
  multiplexer `OutputsAreOfOneSource`, from `MuxInv`
  (the driver is in RUN while it sets outputs, and there and in PAUSE the pins are outputs unless an outage has reset them:
  `PinsAreOutputs`) and the lemma that the parts of the run which set none come to PAUSE only from
  PAUSE, with the source as it was.
* `BoardClockProofs`: `ClockTypeCorrect`, `MuxSetUpIsReal`.  `MuxInv` adds to `MuxIsSet` that RUN is entered by a
  detection that has set the directions of the pins, unless there was an outage since.
* `DeviceProofs` (`Fpga`, `FpgaRegs`, `Digipot`, `Sfpiic`, `VxsMaster`): types; `AccessesAreSafe` from `FpgaInv` (the interface is on since DONE was last seen, and the states that poll come after a detection,
  or after the override of the poll delay); `ClockReadChecked` from `RegsInv` (a ROM that was read whole in a poll without a reload is that
  of the FPGA, and only what a checksum covers counts as valid); `RegsImplementsControl`,
  each store being the step of `ClockControl` of the same name and everything else a stutter;
  `NoBlockLost` from `PotInv` (outside FATAL an error is left, the blocks are those of the queue);
  `SlotsReadAlone` from `SfpInv` (a pass runs in RUN only, past the selection the switch is at the channel of
  the update, and past the identity the kind of the channel is known);
  `OneSlotConnected` from `SelectedInv` (past the selection all multiplexers are at their reset value but the one
  of the slot, so that the selection of the next slot never adds to the one before; the step from there to
  `Connected` is `SlotsApart`, that no two slots share a channel of one chip);
  `VxsTypeCorrect`, `InfoIsWhole` and `BoardsReadAlone` from it and `ReadInv` (how far the pass has read
  the record or a sensor, and that a sensor is read only below the count that came with it); `PassComesToItsEnd` is the safety half of `CrateShown`: the
  order in which a pass goes through slots and transfers, which nothing turns back.
* `EthProofs` (`EthLink`, `EthRx`, `EthTx`): types; `AnnouncementsBounded` from `SeriesInv`, which pays for each series with
  two changes of the cable and says by `Slack` which of them the PHY thread has not seen yet;
  `FramesAreReceived` from `RxInv` (a pool that was empty leaves room in the ring, so that the DMA is not
  suspended); `OthersUnharmed` from `CopyInv` (a copy that was not preempted goes to a free descriptor, the one of a copy that
  was and that the DMA owns is spoiled) and `RingUnbroken`, in the distances `Age` from the next descriptor;
  `LinkAgrees` from `LinkInv` (which of flag, MAC and display has been set at each step of the link callback);
  `SeriesGoOn`, an action property, from the types alone.

Several modules of a board run side by side in `MCPll`, `MCDevices` and `MCShared` without sharing state.  The theorems about a
module carry over to these specifications, so that they state the very properties that the runs check:
`ChipTypesCorrect` and `UnitsKeepTheirPromises` (`ClockChipProofs`); `DeviceTypesCorrect`, `NothingLostOrSwapped`,
`DevicesStepSafely` and `RegistersKeepTheirPromises` (`DeviceProofs`); `SharedTypesCorrect`, `NothingLostOrMixed`, `SharedStepsAreSafe` and
`BusAndNetworkKeepTheirPromises` (`SharedProofs`).  For each module the composition satisfies the module's own specification,
since every step of another module is a stutter for it (`UnitsRunAlone`, `DevicesRunAlone`, `SharedRunsAlone`).  The display and
the command line are the exception: `ScreenNext` and `CliNext` move the same flags and page, so that neither specification
holds of the composition, and `ConsoleInv` keeps the types of both with the invariant of the one that runs.

The types of `Powermon`, `BoardThermal` and `BoardClock` are proved and not checked.  With this every invariant of a passing run, and every action property and refinement without
fairness in it, is stated by a theorem.  Only model-checked: liveness (`Recovers`, `PowerOffHonouredElsewhere`,
`SustainedHeatTrips`, `OverheatRecovers`, `ClockFollowsPower`, the `*Serves`, and the part of `ImplementsClockControl`
that says that the setting follows an FPGA that stays), which needs ENABLED and is out of the prover's reach.  `AssertionHolds` and `MuxSetUpIsReal` are proved in the form in which the code
keeps them, see section 4 for the others.

## 6. Not modelled

Of the lines of the repository most are data or not the program's own: lwIP, microrl, the tables and handlers of the
boards, generated initialisation (`stm32f7xx_hal_*`, `bsp_*`, `init_*`), screens, SNMP tables, register
definitions, unit conversions.  They keep no state on which a step of a component depends, and the
map does not claim them.

* `board support and start-up`: generated initialisation, pin tables, the creation of the tasks.
* `IPMI sensors`, the contents of the pages: copies of values, for another processor or a terminal.  Of
  the pages the log is modelled.
* `lwIP port` (`sys_arch.c`): one call of the kernel per function.
* `SPI driver`: `SPI_DRIVER_INTERRUPT_MODE` is 0 (`spi_driver_impl.h`), so that what is compiled is a mutex
  around a blocking call of the HAL, without a callback or a semaphore; the
  devices on it are modelled with transfers that may fail.
* `parameters in EEPROM`: one read of a fixed block behind the switch that `Sfpiic` models.
* Versions 1 and 2 of the FPGA's protocol, and the status that is written to the FPGA.
* The counters of the VXS master, the pins of the port expanders behind it, and `pp_state`, which nothing reads.
* lwIP, the STM32 HAL and FreeRTOS: vendored; what the drivers use of them is
  modelled in place and marked external.
* Minima, maxima and currents of the sensors; temperatures and powers of the SFP modules; `dev.sensor` of
  the AD9545, which its driver sets to NORMAL unconditionally.
* Small steps that are taken as one: `sys_timeout` of lwIP, which the PHY thread calls without the lock of the
  TCP/IP thread (`lldp_send.c:77`), so that a list of timeouts broken by the two is not modelled; the ten keys of the
  footer, which compare the page one after the other (`display_common.c:183`), where a torn highlight stands until the
  repaint that the change has scheduled.
* `HAL_I2C_STATE_RESET` (`i2c_driver_impl.c:105`): `init_periph` initialises the handles before the tasks are created,
  and nothing takes that back.
* A power switch that does not follow its pin: `update_power_switches` reports it and
  every caller ignores it; the voltages show it.
* Overflow of the 64-bit phase offset, and of the 32-bit `req` and `ack`, which are
  compared for equality only.
* The second UART of one board, whose transmitter is the same once more, and the error counters of the UARTs;
  the timers of the display compare `now > tick + period`, and one
  that misses its moment at the wrap of the tick waits for another turn of it, unless a flag is set meanwhile.

## 7. Plan

Done: the modules above, in the order `Powermon`, `Thset`, `BoardThermal`, `I2cDriver`, `Fpga`, `Ad9545`,
`Clkmux`, `BoardClock`, `ClockShift`; then the other clock chips with `PllLifecycle`, `VxsSlave`, `LogBuffer`,
`Digipot`, `Sfpiic`, `VxsMaster`, `FpgaRegs` with `ClockControl`, `TqdcClkmux`, the Ethernet interface, and the serial console with `Screen` and `Cli`; and the proofs of section 5.

Next, in this order:

1. Behind the other liveness properties the part that is safety, as for `CallsReturn` (`CallsAdvance`) and `CrateShown`
   (`PassComesToItsEnd`): the measure that every step of the fair task lowers and no other step raises, for the pass over
   the SFP modules, the display task and the PHY thread.
2. What `CrateShown` says of the words of a board, beyond that they change as a whole and come from it.
