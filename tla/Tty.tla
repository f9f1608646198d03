-------------------------------- MODULE Tty --------------------------------
(***************************************************************************)
(* The transmitter of the serial console, drivers/common/os_serial_tty.c.  *)
(* The display task puts each character on a queue of one before it writes *)
(* it to the UART; the interrupt of an empty data register takes it from   *)
(* the queue, and that is what lets the next character in.  The characters *)
(* in the queue are never looked at: they only stand for a full register.  *)
(* debug_print writes to the same register and waits for it by polling.    *)
(***************************************************************************)

VARIABLES
    ttyPc,     \* where the display task is in enqueue_char
    ttyQueue,  \* a character is in message_q_ttytx_1
    txie,      \* the UART interrupts when its data register is empty
    tdr,       \* external: the data register of the UART
    shifting,  \* external: a character is in its shift register
    early,     \* history: the queue was emptied before its character was written
    spoiled    \* history: a character was overwritten that nothing had exposed

ttyVars == <<ttyPc, ttyQueue, txie, tdr, shifting, early, spoiled>>

\* "exposed" is a character of the display whose place in the queue was given up
\* before it was written.
DataRegister == {"empty", "covered", "exposed", "debug"}

TtyInit ==
    /\ ttyPc = "idle"
    /\ ttyQueue = FALSE /\ txie = FALSE
    /\ tdr = "empty" /\ shifting = FALSE
    /\ early = FALSE /\ spoiled = FALSE

TtyMove(from, to) == ttyPc = from /\ ttyPc' = to

TxInterrupt == txie /\ tdr = "empty"

-----------------------------------------------------------------------------
(* enqueue_char, in the display task: an interrupt that is due comes first. *)

\* The task prints; between its characters it may wait for ever.
PutChar ==
    /\ TtyMove("idle", "put")
    /\ UNCHANGED <<ttyQueue, txie, tdr, shifting, early, spoiled>>

\* osMessagePut, which waits for room
PutToken ==
    /\ TtyMove("put", "enable")
    /\ ~TxInterrupt /\ ~ttyQueue
    /\ ttyQueue' = TRUE
    /\ UNCHANGED <<txie, tdr, shifting, early, spoiled>>

EnableTxe ==
    /\ TtyMove("enable", "write")
    /\ ~TxInterrupt
    /\ txie' = TRUE
    /\ UNCHANGED <<ttyQueue, tdr, shifting, early, spoiled>>

\* The interrupt that was just enabled may come before or after.
TransmitData ==
    /\ TtyMove("write", "idle")
    /\ tdr' = (IF early THEN "exposed" ELSE "covered")
    /\ spoiled' = (spoiled \/ tdr = "covered")
    /\ early' = FALSE
    /\ UNCHANGED <<ttyQueue, txie, shifting>>

EnqueueChar == PutToken \/ EnableTxe \/ TransmitData

-----------------------------------------------------------------------------

\* Mutant: the handler does not look at the flags of the UART.
TxeWithoutFlag ==
    /\ txie
    /\ ttyQueue' = FALSE
    /\ txie' = ttyQueue
    /\ early' = (early \/ (ttyQueue /\ ttyPc \in {"enable", "write"}))
    /\ UNCHANGED <<ttyPc, tdr, shifting, spoiled>>

\* USART_TXE_Callback_FromISR: a character that is taken leaves the interrupt on,
\* which is switched off by the next one that finds the queue empty.
TxeCallback ==
    /\ TxInterrupt
    /\ ttyQueue' = FALSE
    /\ txie' = ttyQueue
    /\ early' = (early \/ (ttyQueue /\ ttyPc \in {"enable", "write"}))
    /\ UNCHANGED <<ttyPc, tdr, shifting, spoiled>>

\* debug_send_char in an interrupt of the I2C slave
DebugSendChar ==
    /\ tdr = "empty"
    /\ tdr' = "debug"
    /\ UNCHANGED <<ttyPc, ttyQueue, txie, shifting, early, spoiled>>

\* The UART
Shift ==
    /\ IF shifting THEN shifting' = FALSE /\ UNCHANGED tdr
       ELSE tdr # "empty" /\ tdr' = "empty" /\ shifting' = TRUE
    /\ UNCHANGED <<ttyPc, ttyQueue, txie, early, spoiled>>

TtyNext == PutChar \/ EnqueueChar \/ TxeCallback \/ DebugSendChar \/ Shift

TtySpec == TtyInit /\ [][TtyNext]_ttyVars

-----------------------------------------------------------------------------
(* Properties                                                              *)

\* Every variable stays in its type.
TtyTypeOK ==
    /\ ttyPc \in {"idle", "put", "enable", "write"}
    /\ ttyQueue \in BOOLEAN /\ txie \in BOOLEAN
    /\ tdr \in DataRegister /\ shifting \in BOOLEAN
    /\ early \in BOOLEAN /\ spoiled \in BOOLEAN

\* An interrupt that comes between EnableIT_TXE and TransmitData8 empties the queue too
\* early, and the character that is then written may be overwritten by the next; but it
\* is the only one, whatever is printed in between.
OnlyExposedLost == ~spoiled

\* A display task that finds the queue full is woken up: the interrupt that empties it is
\* on, although the handler and EnableIT_TXE both write its bit.
FullMeansServed == ttyQueue /\ ttyPc \in {"idle", "put"} => txie
=============================================================================
