------------------------------ MODULE Digipot ------------------------------
(***************************************************************************)
(* The digital potentiometers that trim the analogue inputs of a board:    *)
(* the state machine of src/dev/digipot/dev_digipot_fsm.c, run by the      *)
(* power task, and the commands that the command line sends to it through  *)
(* a mail queue (src/src/app/commands_digipot.c).                          *)
(*                                                                         *)
(* A command and its potentiometer are chosen by the user: the keys that   *)
(* move the selection are left out.                                        *)
(***************************************************************************)
EXTENDS Naturals, Sequences, FiniteSets

CONSTANTS
    Pots,               \* the potentiometers of the board
    TopValue,           \* the highest position of a wiper, 255
    MailSize,           \* the blocks of mq_cmd_digipots
    MailBatch,          \* POT_MAX_MAIL_BATCH
    PotDetectTimeout,   \* DETECT_TIMEOUT_TICKS
    PotErrorDelay,      \* ERROR_DELAY_TICKS
    PotRetries,         \* the errors it takes to give up
    MaxPotTicks,        \* saturation of the elapsed time
    MaxKeys,            \* bound: how many commands are typed
    NoCommand           \* the command line waits for a key

ASSUME DigipotAssumption ==
    /\ Pots # {} /\ IsFiniteSet(Pots)
    /\ {TopValue, MaxKeys} \subseteq Nat
    /\ {MailSize, MailBatch} \subseteq Nat \ {0}
    /\ PotRetries \in Nat /\ PotRetries > 1
    /\ MaxPotTicks \in Nat
    /\ PotDetectTimeout \in 0..MaxPotTicks - 1 /\ PotErrorDelay \in 0..MaxPotTicks - 1

VARIABLES
    potState,   \* priv.state
    potTicks,   \* time since priv.stateStartTick
    retryCount, \* retry_count
    normal,     \* the pots whose device_status is DEVICE_NORMAL
    shown,      \* priv.value of every pot
    batch,      \* digipot_check_mail: the commands executed in this call, and
    batchOk,    \*     whether they all succeeded; the batch is 0 outside of it
    mail,       \* the queue mq_cmd_digipots
    blocks,     \* the blocks of its pool that are allocated
    typed,      \* the command whose block the command line waits for
    keys,       \* environment: how many commands were typed
    rdac,       \* the chips: the wipers, and
    eeprom,     \*     the positions they start from
    potPower,   \* enable_power && system_power_present
    potsGood    \* environment: the pots answer from now on

taskVars == <<potState, potTicks, retryCount, normal, shown>>
mailVars == <<batch, batchOk, mail, blocks>>
chips == <<rdac, eeprom>>
potVars == <<taskVars, mailVars, typed, keys, chips, potPower, potsGood>>

PotState == {"INIT", "DETECT", "RUN", "ERROR", "FATAL"}
Position == 0..TopValue
Command == [id : {"RESET", "INC", "DEC", "WRITE"}, arg : Pots]

\* The pots that answer in one pass over them
Answering == IF potsGood THEN {Pots} ELSE SUBSET Pots

-----------------------------------------------------------------------------
(* The power task.                                                         *)

PotTicks(d) == IF potTicks + d > MaxPotTicks THEN MaxPotTicks ELSE potTicks + d

\* One iteration ends in state to; the start tick follows a change of state.
Enter(to) ==
    /\ potState' = to
    /\ potTicks' = IF to # potState THEN 0 ELSE PotTicks(1)

\* The power may be lost at any time, and is read when an iteration begins.
Retried == IF potPower THEN retryCount ELSE 0

PotRunInit ==
    /\ potState = "INIT"
    /\ Enter("DETECT")
    /\ retryCount' = Retried
    /\ UNCHANGED <<normal, shown, rdac>>

\* digipot_detect twice: what answers is reset, and starts from its EEPROM.  The
\* reset may fail, and no one looks at that.  The two passes must find as many.
PotRunDetect ==
    /\ potState = "DETECT"
    /\ retryCount' = Retried
    /\ \E first \in Answering, second \in Answering :
          LET again == first # {}
              found == first \cup (IF again THEN second ELSE {})
          IN  /\ normal' = IF again THEN second ELSE first
              /\ \E reset \in IF potsGood THEN {found} ELSE SUBSET found :
                    rdac' = [p \in Pots |-> IF p \in reset THEN eeprom[p] ELSE rdac[p]]
              /\ Enter(IF again /\ Cardinality(first) = Cardinality(second) THEN "RUN"
                       ELSE IF potTicks > PotDetectTimeout THEN "ERROR" ELSE "DETECT")
    /\ UNCHANGED shown

\* digipot_read_rdac_all: the pots before the first that fails are read.
Readings == IF potsGood THEN {normal} ELSE SUBSET normal

\* A reading that fails is an error; otherwise digipot_check_mail begins.
PotRunRead ==
    /\ potState = "RUN" /\ batch = 0
    /\ retryCount' = Retried
    /\ \E read \in Readings :
          /\ shown' = [p \in Pots |-> IF p \in read THEN rdac[p] ELSE shown[p]]
          /\ IF potsGood \/ read = normal
                THEN batch' = 1 /\ UNCHANGED <<potState, potTicks>>
                ELSE batch' = 0 /\ Enter("ERROR")
    /\ batchOk' = TRUE
    /\ UNCHANGED <<normal, rdac, eeprom, mail, blocks, typed, keys, potPower, potsGood>>

PotRunError ==
    LET late == potTicks > PotErrorDelay
        n == Retried + (IF late THEN 1 ELSE 0)
    IN  /\ potState = "ERROR"
        /\ retryCount' = n
        /\ Enter(IF ~late THEN "ERROR" ELSE IF n < PotRetries THEN "INIT" ELSE "FATAL")
        /\ UNCHANGED <<normal, shown, rdac>>

PotRunFatal ==
    /\ potState = "FATAL"
    /\ Enter("FATAL")
    /\ retryCount' = Retried
    /\ UNCHANGED <<normal, shown, rdac>>

\* The iterations that do not look at the mail
PotRunOther ==
    /\ PotRunInit \/ PotRunDetect \/ PotRunError \/ PotRunFatal
    /\ UNCHANGED <<mailVars, typed, keys, eeprom, potPower, potsGood>>

-----------------------------------------------------------------------------
(* The mail.                                                               *)

Moved(v, id, start) ==
    CASE id = "INC" -> IF v < TopValue THEN v + 1 ELSE v
      [] id = "DEC" -> IF v > 0 THEN v - 1 ELSE v
      [] id = "RESET" -> start
      [] OTHER -> v

\* digipot_process_command, for a pot that takes the command
Execute(c) ==
    /\ rdac' = [rdac EXCEPT ![c.arg] = Moved(@, c.id, eeprom[c.arg])]
    /\ eeprom' = IF c.id = "WRITE" THEN [eeprom EXCEPT ![c.arg] = rdac[c.arg]] ELSE eeprom

\* Mutant: a command that fails keeps its block (ok = ok && osMailFree(...)).
FreedWhenOk(ok) == IF batchOk /\ ok THEN blocks - 1 ELSE blocks
Freed(ok) == blocks - 1

\* The block is freed and counted; the batch ends after MailBatch commands.
Processed(ok) ==
    /\ mail' = Tail(mail)
    /\ blocks' = Freed(ok)
    /\ IF batch < MailBatch
          THEN batch' = batch + 1 /\ batchOk' = (batchOk /\ ok) /\ UNCHANGED <<potState, potTicks>>
          ELSE batch' = 0 /\ batchOk' = TRUE /\ Enter(IF batchOk /\ ok THEN "RUN" ELSE "ERROR")

\* A command to a pot that is not NORMAL fails; any other may, in the middle.
CheckMail ==
    /\ batch > 0 /\ mail # <<>>
    /\ \/ Head(mail).arg \in normal /\ Execute(Head(mail)) /\ Processed(TRUE)
       \/ /\ Head(mail).arg \in normal /\ ~potsGood
          /\ Execute(Head(mail)) \/ UNCHANGED chips
          /\ Processed(FALSE)
       \/ Head(mail).arg \notin normal /\ UNCHANGED chips /\ Processed(FALSE)
    /\ UNCHANGED <<retryCount, normal, shown, typed, keys, potPower, potsGood>>

\* An empty queue ends the call, which returns true whatever failed before.
MailEmpty ==
    /\ batch > 0 /\ mail = <<>>
    /\ batch' = 0 /\ batchOk' = TRUE
    /\ Enter("RUN")
    /\ UNCHANGED <<retryCount, normal, shown, mail, blocks, typed, keys, chips, potPower, potsGood>>

PotTask == PotRunOther \/ PotRunRead \/ CheckMail \/ MailEmpty

-----------------------------------------------------------------------------
(* The command line, and the rest.                                         *)

TypeKey(c) ==
    /\ typed = NoCommand /\ keys < MaxKeys
    /\ typed' = c
    /\ keys' = keys + 1
    /\ UNCHANGED <<taskVars, mailVars, chips, potPower, potsGood>>

\* digipot_send_command: osMailAlloc with osWaitForever, osMailPut
SendCommand ==
    /\ typed # NoCommand /\ blocks < MailSize
    /\ mail' = Append(mail, typed)
    /\ blocks' = blocks + 1
    /\ typed' = NoCommand
    /\ UNCHANGED <<taskVars, batch, batchOk, keys, chips, potPower, potsGood>>

PowerSwitches ==
    /\ potPower' = ~potPower
    /\ UNCHANGED <<taskVars, mailVars, typed, keys, chips, potsGood>>

PotsBecomeGood ==
    /\ ~potsGood
    /\ potsGood' = TRUE
    /\ UNCHANGED <<taskVars, mailVars, typed, keys, chips, potPower>>

DigipotInit ==
    /\ potState = "INIT" /\ potTicks = 0 /\ retryCount = 0
    /\ normal = {}
    /\ shown = [p \in Pots |-> 0]
    /\ batch = 0 /\ batchOk = TRUE
    /\ mail = <<>> /\ blocks = 0
    /\ typed = NoCommand /\ keys = 0
    /\ eeprom = [p \in Pots |-> 0] /\ rdac = eeprom
    /\ potPower = FALSE
    /\ potsGood = FALSE

DigipotNext ==
    \/ PotTask
    \/ \E c \in Command : TypeKey(c)
    \/ SendCommand
    \/ PowerSwitches
    \/ PotsBecomeGood

\* The power task runs in a loop, its transfers have timeouts; the command line is
\* a thread of its own, and takes a free block when there is one.
DigipotFairSpec ==
    /\ DigipotInit /\ [][DigipotNext]_potVars
    /\ WF_potVars(PotTask) /\ WF_potVars(SendCommand)

-----------------------------------------------------------------------------
(* Properties                                                              *)

\* Every variable stays in its type.
DigipotTypeOK ==
    /\ potState \in PotState
    /\ potTicks \in 0..MaxPotTicks
    /\ retryCount \in 0..PotRetries
    /\ normal \subseteq Pots
    /\ shown \in [Pots -> Position] /\ rdac \in [Pots -> Position]
    /\ eeprom \in [Pots -> Position]
    /\ batch \in 0..MailBatch /\ batchOk \in BOOLEAN
    /\ mail \in Seq(Command)
    /\ blocks \in 0..MailSize
    /\ typed \in Command \cup {NoCommand}
    /\ keys \in 0..MaxKeys
    /\ potPower \in BOOLEAN /\ potsGood \in BOOLEAN

\* Without power the potentiometers are never given up: an iteration that finds no
\* power forgets the errors before it counts the next.
NotGivenUpUnpowered ==
    [][PotTask /\ ~potPower /\ potState' = "FATAL" => potState = "FATAL"]_potVars

\* Potentiometers that answer are given up at last, or they run, and every command
\* is executed: none stays in the queue, and the command line is not blocked.
CommandsServed ==
    <>[]potsGood => <>[](potState = "FATAL" \/ (potState = "RUN" /\ mail = <<>> /\ typed = NoCommand))

\* The position that the display shows is the wiper's in the end, although it is
\* read before the commands of the iteration are executed.
ShownIsCurrent ==
    <>[]potsGood => <>[](potState = "FATAL" \/ \A p \in normal : shown[p] = rdac[p])

\* Every block of the pool that is allocated is on its way in the queue, and none is
\* lost when a command fails; and a batch of commands is executed in RUN only.
BlocksQueued == blocks = Len(mail) /\ (batch > 0 => potState = "RUN")

\* The command line and the screen are served: each command is executed and its effect
\* is shown.
PotsServed == CommandsServed /\ ShownIsCurrent
=============================================================================
