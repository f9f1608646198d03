------------------------------ MODULE VxsSlave ------------------------------
(***************************************************************************)
(* The I2C slave through which the VXS master reads the registers of a     *)
(* payload board and writes its own description into its scratch memory:   *)
(* the interrupt handler of src/drivers/bus/i2c_slave_driver.c, the        *)
(* callbacks and the poll of src/dev/vxsiics, and the bus with the master  *)
(* at its other end (src/dev/vxsiicm).                                     *)
(*                                                                         *)
(* The handler serves one flag per interrupt, in a fixed order that is not *)
(* the order in which the flags were raised.  The bus stretches the clock  *)
(* for an address or a byte that has not been served, not for a STOP.      *)
(*                                                                         *)
(* A word has WordBytes bytes here, four in the code.  The NACK and the    *)
(* error interrupt change no state but their flags and counters.           *)
(***************************************************************************)
EXTENDS Naturals, Sequences

CONSTANTS
    WordBytes,     \* bytes of a register
    ScratchSize,   \* VXSIIC_SCRATCH_MEM_SIZE
    Info,          \* the words the master writes, by scratch register
    LiveWords,     \* the words a register of the board may hold
    MaxFaults,     \* bound: how many faults there are
    NoByte,        \* an empty data register
    SlaveBytes     \* the bytes that go over the bus, and what a shift may yield

Scratch == 0..ScratchSize - 1
Word == [0..WordBytes - 1 -> SlaveBytes]

ASSUME SlaveAssumption ==
    /\ WordBytes \in Nat \ {0}
    /\ ScratchSize \in Nat \ {0} /\ MaxFaults \in Nat
    /\ {0, 1} \cup Scratch \subseteq SlaveBytes /\ SlaveBytes \subseteq Nat
    /\ NoByte \notin SlaveBytes
    /\ Info \in [Scratch -> Word]
    /\ LiveWords \subseteq Word /\ LiveWords # {}

VARIABLES
    bus,        \* environment: the transaction on the bus, and its bytes so far
    turn,       \* environment: what the master does next in its pass
    got,        \* environment: the bytes the master has read
    addrFlag, stopFlag, rxReg, txReg,  \* the peripheral: ADDR, STOPF, RXDR, TXDR
    slave,      \* mem_write, mem_addr, mem_rxdata, mem_txdata, byte_count
    scratch,    \* vxsiics_scratch_mem
    live,       \* a register of the board outside the scratch memory
    polled,     \* priv.ttvxs_info, ttvxs_uptime
    pollAt,     \* the word that dev_vxsiics_poll_status copies next
    disturbed,  \* history: the faults since the slave was last at rest
    faults      \* environment: how many faults there have been

periph == <<addrFlag, stopFlag, rxReg, txReg>>
master == <<bus, turn, got>>
pollVars == <<polled, pollAt>>
slaveVars == <<master, periph, slave, scratch, live, pollVars, disturbed, faults>>

Zero == [i \in 0..WordBytes - 1 |-> 0]

-----------------------------------------------------------------------------
(* The board behind the registers.                                         *)

\* iic_read_callback: 0x100 and up is scratch memory; one other register here.
Register(hi, lo) ==
    IF hi = 1 /\ lo \in Scratch THEN scratch[lo]
    ELSE IF hi = 0 /\ lo = 0 THEN live ELSE Zero

\* iic_write_callback
ScratchAfter(hi, lo, word) ==
    IF hi = 1 /\ lo \in Scratch THEN [scratch EXCEPT ![lo] = word] ELSE scratch

TxWord(s) == IF s.count = 2 THEN Register(s.hi, s.lo) ELSE s.txdata

\* mem_txdata >> ((byte_count-2)*8), undefined for a shift that is not in the word:
\* the byte that is prefetched after the last, or a read without an address.
ShiftedOut(s, word) ==
    IF s.count - 2 \in DOMAIN word /\ s.count >= 2 THEN {word[s.count - 2]}
    ELSE SlaveBytes

\* A count past the word acts alike, until it wraps after 2^16 bytes without STOP.
Counted(s) == [s EXCEPT !.count = IF @ > WordBytes + 2 THEN @ ELSE @ + 1]

-----------------------------------------------------------------------------
(* i2c_event_interrupt_handler, one action for each branch.                *)

ServeAddr ==
    /\ addrFlag # "none"
    /\ addrFlag' = "none"
    /\ slave' = [slave EXCEPT !.write = (addrFlag = "write")]
    /\ UNCHANGED <<master, stopFlag, rxReg, txReg, scratch, live, pollVars, disturbed, faults>>

\* The slave is at rest again when it has served everything.
AtRest == rxReg = NoByte /\ addrFlag = "none" /\ bus.phase = "idle"

\* Slave_Complete_Callback, with the TXDR flushed
AfterStopKeepsCount == [slave EXCEPT !.hi = 0, !.lo = 0, !.rxdata = Zero]  \* mutant
AfterStop == [slave EXCEPT !.hi = 0, !.lo = 0, !.rxdata = Zero, !.count = 0]

ServeStop ==
    /\ addrFlag = "none" /\ stopFlag
    /\ stopFlag' = FALSE
    /\ scratch' = IF slave.write THEN ScratchAfter(slave.hi, slave.lo, slave.rxdata)
                  ELSE scratch
    /\ slave' = AfterStop
    /\ txReg' = NoByte
    /\ disturbed' = IF AtRest THEN {} ELSE disturbed
    /\ UNCHANGED <<master, addrFlag, rxReg, live, pollVars, faults>>

\* TXIS: addressed for reading, and the byte before has gone out.
TxEmpty == bus.phase = "read" /\ txReg = NoByte

ServeTx ==
    /\ addrFlag = "none" /\ ~stopFlag /\ TxEmpty
    /\ \E b \in ShiftedOut(slave, TxWord(slave)) : txReg' = b
    /\ slave' = [Counted(slave) EXCEPT !.txdata = TxWord(slave)]
    /\ UNCHANGED <<master, addrFlag, stopFlag, rxReg, scratch, live, pollVars, disturbed, faults>>

Received(s, b) ==
    CASE s.count = 0 -> [s EXCEPT !.hi = b, !.lo = 0, !.rxdata = Zero]
      [] s.count = 1 -> [s EXCEPT !.lo = b]
      [] s.count - 2 \in DOMAIN s.rxdata -> [s EXCEPT !.rxdata[s.count - 2] = b]
      [] OTHER -> s

ServeRx ==
    /\ addrFlag = "none" /\ ~stopFlag /\ ~TxEmpty /\ rxReg # NoByte
    /\ rxReg' = NoByte
    /\ slave' = Counted(Received(slave, rxReg))
    /\ UNCHANGED <<master, addrFlag, stopFlag, txReg, scratch, live, pollVars, disturbed, faults>>

SlaveInterrupt == ServeAddr \/ ServeStop \/ ServeTx \/ ServeRx

-----------------------------------------------------------------------------
(* The bus.  A pass of the master reads a register, then writes each word  *)
(* of its description (dev_vxsiic_read_pp); a call that fails ends it.     *)

Reading == turn = 0
Header == IF Reading THEN <<0, 0>> ELSE <<1, turn - 1>>
Transfer == IF Reading THEN Header
            ELSE Header \o [i \in 1..WordBytes |-> Info[turn - 1][i - 1]]

Fault(kind) ==
    /\ faults < MaxFaults
    /\ faults' = faults + 1
    /\ disturbed' = disturbed \cup {kind}

\* An event that comes before the handler has served the one before.  The clock
\* is not stretched for these: it takes a handler that is late, as in a critical
\* section of the system.
Late == stopFlag \/ rxReg # NoByte
Event == /\ \/ ~Late /\ UNCHANGED <<disturbed, faults>>
            \/ Late /\ Fault("late")
         /\ UNCHANGED <<txReg, slave, scratch, live, pollVars>>

StartTransfer ==
    /\ bus.phase = "idle" /\ addrFlag = "none"
    /\ addrFlag' = "write"
    /\ bus' = [phase |-> "write", at |-> 0]
    /\ got' = <<>>
    /\ Event
    /\ UNCHANGED <<turn, stopFlag, rxReg>>

SendByte ==
    /\ bus.phase = "write" /\ addrFlag = "none" /\ rxReg = NoByte
    /\ bus.at < Len(Transfer)
    /\ rxReg' = Transfer[bus.at + 1]
    /\ bus' = [bus EXCEPT !.at = @ + 1]
    /\ Event
    /\ UNCHANGED <<turn, got, addrFlag, stopFlag>>

RestartToRead ==
    /\ bus.phase = "write" /\ addrFlag = "none" /\ Reading /\ bus.at = Len(Transfer)
    /\ addrFlag' = "read"
    /\ bus' = [phase |-> "read", at |-> 0]
    /\ Event
    /\ UNCHANGED <<turn, got, stopFlag, rxReg>>

ReceiveByte ==
    /\ bus.phase = "read" /\ addrFlag = "none" /\ txReg # NoByte
    /\ Len(got) < WordBytes
    /\ got' = Append(got, txReg)
    /\ txReg' = NoByte
    /\ UNCHANGED <<bus, turn, addrFlag, stopFlag, rxReg, slave, scratch, live, pollVars,
                   disturbed, faults>>

TransferEnds(complete) ==
    /\ bus' = [phase |-> "idle", at |-> 0]
    /\ turn' = IF complete THEN (turn + 1) % (1 + ScratchSize) ELSE 0
    /\ UNCHANGED <<got, addrFlag, rxReg>>

Stop ==
    /\ addrFlag = "none"
    /\ \/ bus.phase = "write" /\ ~Reading /\ bus.at = Len(Transfer)
       \/ bus.phase = "read" /\ Len(got) = WordBytes
    /\ stopFlag' = TRUE
    /\ TransferEnds(TRUE)
    /\ Event

\* The timeout of the master's driver aborts the transfer: STOP after any byte.
Cut ==
    /\ addrFlag = "none"
    /\ bus.phase = "write" \/ (bus.phase = "read" /\ got # <<>>)
    /\ stopFlag' = TRUE
    /\ Fault("cut")
    /\ TransferEnds(FALSE)
    /\ UNCHANGED <<txReg, slave, scratch, live, pollVars>>

\* The master restarts and leaves the bus without a STOP; its next START comes out
\* of place, for which i2c_error_interrupt_handler only counts an error.
Vanish ==
    /\ bus.phase # "idle"
    /\ Fault("vanish")
    /\ TransferEnds(FALSE)
    /\ UNCHANGED <<stopFlag, txReg, slave, scratch, live, pollVars>>

BusStep == StartTransfer \/ SendByte \/ RestartToRead \/ ReceiveByte \/ Stop

LiveChanges ==
    /\ live' \in LiveWords
    /\ UNCHANGED <<master, periph, slave, scratch, pollVars, disturbed, faults>>

-----------------------------------------------------------------------------

\* dev_vxsiics_poll_status copies one word after the other, between interrupts.
Poll ==
    /\ polled' = [polled EXCEPT ![pollAt] = scratch[pollAt]]
    /\ pollAt' = (pollAt + 1) % ScratchSize
    /\ UNCHANGED <<master, periph, slave, scratch, live, disturbed, faults>>

SlaveInit ==
    /\ bus = [phase |-> "idle", at |-> 0]
    /\ turn = 0
    /\ got = <<>>
    /\ addrFlag = "none" /\ stopFlag = FALSE /\ rxReg = NoByte /\ txReg = NoByte
    /\ slave = [write |-> FALSE, hi |-> 0, lo |-> 0, rxdata |-> Zero, txdata |-> Zero,
                count |-> 0]
    /\ scratch = [r \in Scratch |-> Zero]
    /\ live \in LiveWords
    /\ polled = [r \in Scratch |-> Zero]
    /\ pollAt = 0
    /\ disturbed = {}
    /\ faults = 0

SlaveNext == \/ SlaveInterrupt \/ BusStep \/ Cut \/ Vanish \/ LiveChanges \/ Poll

SlaveSpec == SlaveInit /\ [][SlaveNext]_slaveVars

\* An interrupt is served in the end, the polling task runs in a loop, and the
\* master goes on with its passes.
SlaveFairSpec ==
    /\ SlaveSpec
    /\ WF_slaveVars(SlaveInterrupt) /\ WF_slaveVars(BusStep) /\ WF_slaveVars(Poll)

-----------------------------------------------------------------------------
(* Properties                                                              *)

\* Every variable stays in its type; in particular every byte has a place.
SlaveTypeOK ==
    /\ bus \in [phase : {"idle", "write", "read"}, at : 0..2 + WordBytes]
    /\ turn \in 0..ScratchSize
    /\ got \in Seq(SlaveBytes) /\ Len(got) <= WordBytes
    /\ addrFlag \in {"none", "write", "read"} /\ stopFlag \in BOOLEAN
    /\ rxReg \in SlaveBytes \cup {NoByte} /\ txReg \in SlaveBytes \cup {NoByte}
    /\ slave \in [write : BOOLEAN, hi : SlaveBytes, lo : SlaveBytes, rxdata : Word,
                  txdata : Word, count : 0..WordBytes + 3]
    /\ scratch \in [Scratch -> Word]
    /\ live \in LiveWords
    /\ polled \in [Scratch -> Word]
    /\ pollAt \in Scratch
    /\ disturbed \subseteq {"cut", "vanish", "late"}
    /\ faults \in 0..MaxFaults

\* From rest on, the scratch memory changes only by the STOP of a write, and then
\* its register holds the word of the master: no transfer disturbs a later one.
WritesArriveWhole ==
    [][disturbed = {} =>
         scratch' = IF stopFlag /\ ~stopFlag' /\ turn # 1
                    THEN LET r == (turn + ScratchSize - 1) % (1 + ScratchSize)
                         IN [scratch EXCEPT ![r] = Info[r]]
                    ELSE scratch]_slaveVars

\* A transfer that is cut short is taken for a complete one (nothing in
\* Slave_Complete_Callback looks at byte_count), but it leaves the first bytes of
\* its own word, or clears its register or the first one.
Prefix(word, of) ==
    \E n \in 0..WordBytes : word = [i \in 0..WordBytes - 1 |-> IF i < n THEN of[i] ELSE 0]
CutLeavesPrefix ==
    [][disturbed = {"cut"} =>
         \A r \in Scratch : scratch'[r] # scratch[r] => Prefix(scratch'[r], Info[r])]_slaveVars

\* Whatever went wrong, once the faults are over the scratch memory and the polled
\* copy are those of the master for good.
RegistersHeal == <>[](scratch = Info /\ polled = Info)

\* From rest on, the master reads a word that the register has held, and never the bytes
\* of two, although it changes during the read.
ReadsArriveWhole ==
    disturbed = {} /\ bus.phase = "read" /\ Len(got) = WordBytes
        => [i \in 0..WordBytes - 1 |-> got[i + 1]] \in LiveWords

\* No write that is complete is torn or disturbed by one before it, and one that is
\* cut leaves a prefix of its own word.
WordsArriveWhole == WritesArriveWhole /\ CutLeavesPrefix
=============================================================================
