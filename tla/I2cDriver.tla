------------------------------ MODULE I2cDriver -----------------------------
(***************************************************************************)
(* One bus of the I2C master driver (src/drivers/bus): tasks take turns on *)
(* it under a mutex; the holder starts an interrupt driven transfer of the *)
(* STM32 HAL and waits on a binary semaphore, with a timeout, for the HAL  *)
(* callback that ends it.  The interrupt may come at any moment, between   *)
(* the timeout and the reset of the peripheral too.                        *)
(*                                                                         *)
(* The HAL is modelled from how the driver uses it: a start moves the      *)
(* handle from READY to BUSY, the interrupt that ends the transfer moves   *)
(* it back and calls one callback, an abort ends it with another callback. *)
(***************************************************************************)
EXTENDS Naturals

CONSTANTS
    Tasks,       \* the tasks that use the bus
    NoTask       \* none of them

ASSUME NoTaskAssumption == NoTask \notin Tasks

VARIABLES
    pc,          \* how far the call of each task has got
    result,      \* what it returns, or returned last
    mutex,       \* holder of i2cN_dev_mutex
    sem,         \* i2cN_it_sem, given or not
    error,       \* i2c_driver_transfer_error
    hal,         \* hi2c->State
    transfer,    \* the task whose transfer the peripheral runs
    fate,        \* history: what became of each task's last transfer
    late         \* history: a callback came after its waiter had timed out

vars == <<pc, result, mutex, sem, error, hal, transfer, fate, late>>
taskVars == <<pc, result, mutex>>

Pc == {"idle", "locked", "call", "wait", "check",
       "timeout", "reset", "return", "asserted"}

Goto(t, to) == pc' = [pc EXCEPT ![t] = to]
Return(t, r) == Goto(t, "return") /\ result' = [result EXCEPT ![t] = r]

\* Mutant: the semaphores are created but not taken.
InitWithoutTake ==
    /\ pc = [t \in Tasks |-> "idle"]
    /\ result = [t \in Tasks |-> FALSE]
    /\ mutex = NoTask
    /\ sem = TRUE
    /\ error = FALSE
    /\ hal = "READY"
    /\ transfer = NoTask
    /\ fate = [t \in Tasks |-> "none"]
    /\ late = FALSE

\* i2c_driver_util_init creates the semaphores given, and takes them.
Init ==
    /\ pc = [t \in Tasks |-> "idle"]
    /\ result = [t \in Tasks |-> FALSE]
    /\ mutex = NoTask
    /\ sem = FALSE
    /\ error = FALSE
    /\ hal = "READY"
    /\ transfer = NoTask
    /\ fate = [t \in Tasks |-> "none"]
    /\ late = FALSE

-----------------------------------------------------------------------------
(* A call of the driver: i2c_driver_read and its likes.                    *)

\* i2c_driver_wait_dev_mutex(osWaitForever)
Lock(t) ==
    /\ pc[t] = "idle" /\ mutex = NoTask
    /\ mutex' = t
    /\ Goto(t, "locked")
    /\ fate' = [fate EXCEPT ![t] = "none"]
    /\ UNCHANGED <<result, sem, error, hal, transfer, late>>

\* A failed assert stops the task where it stands, with the mutex; a build with
\* NDEBUG goes on instead.  Both are steps of the model.
AssertFails(t) == Goto(t, "asserted") /\ UNCHANGED result

\* Mutant: the peripheral is not reset.
KeepsPeripheral == UNCHANGED <<hal, transfer>>

\* i2c_driver_reset_internal: the peripheral forgets the transfer it ran.
ResetPeripheral == hal' = "READY" /\ transfer' = NoTask

\* i2c_driver_before_hal_call.  A busy bus is one on which a transfer goes on,
\* or on which a slave holds a line.  The handle is never in HAL_I2C_STATE_RESET: it is
\* initialised before the tasks are created, and nothing takes that back.
BeforeHalCall(t) ==
    /\ pc[t] = "locked"
    /\ \/ /\ hal # "READY"
          /\ AssertFails(t)
          /\ UNCHANGED <<error, hal, transfer>>
       \/ /\ error' = FALSE
          /\ \/ Goto(t, "call") /\ UNCHANGED <<result, hal, transfer>>
             \/ Return(t, FALSE) /\ ResetPeripheral
    /\ UNCHANGED <<mutex, sem, fate, late>>

\* HAL_I2C_..._IT starts the transfer.
Start(t) ==
    /\ pc[t] = "call" /\ hal = "READY"
    /\ hal' = "BUSY"
    /\ transfer' = t
    /\ fate' = [fate EXCEPT ![t] = "running"]
    /\ Goto(t, "wait")
    /\ UNCHANGED <<result, mutex, sem, error, late>>

\* It fails, or is refused with HAL_BUSY if the handle, or by now the bus, is
\* busy; i2c_driver_check_hal_ret.
StartFails(t) ==
    /\ pc[t] = "call"
    /\ AssertFails(t) \/ Return(t, FALSE)
    /\ UNCHANGED <<mutex, sem, error, hal, transfer, fate, late>>

\* i2c_driver_detect_internal polls the bus without interrupts.
Detect(t) ==
    /\ pc[t] = "call"
    /\ \E found \in IF hal = "READY" THEN BOOLEAN ELSE {FALSE} :
          /\ Return(t, found)
          /\ fate' = [fate EXCEPT ![t] = IF found THEN "ok" ELSE "failed"]
    /\ UNCHANGED <<mutex, sem, error, hal, transfer, late>>

\* i2c_driver_wait_complete: the semaphore is there, or the time is over.
TakeSemaphore(t) ==
    /\ pc[t] = "wait" /\ sem
    /\ sem' = FALSE
    /\ Goto(t, "check")
    /\ UNCHANGED <<result, mutex, error, hal, transfer, fate, late>>

\* Mutant: the wait goes on as long as the transfer does.
TimeoutIfIdle(t) ==
    /\ pc[t] = "wait" /\ ~sem /\ hal = "READY"
    /\ Goto(t, "timeout")
    /\ UNCHANGED <<result, mutex, sem, error, hal, transfer, fate, late>>

Timeout(t) ==
    /\ pc[t] = "wait" /\ ~sem
    /\ Goto(t, "timeout")
    /\ UNCHANGED <<result, mutex, sem, error, hal, transfer, fate, late>>

\* HAL_I2C_Master_Abort_IT starts to abort a master transfer, and refuses to
\* touch another one or none.
Abort(t) ==
    /\ pc[t] = "timeout"
    /\ Goto(t, "reset")
    /\ hal' \in IF hal = "BUSY" THEN {"BUSY", "ABORT"} ELSE {hal}
    /\ UNCHANGED <<result, mutex, sem, error, transfer, fate, late>>

Reset(t) ==
    /\ pc[t] = "reset"
    /\ ResetPeripheral
    /\ Return(t, FALSE)
    /\ UNCHANGED <<mutex, sem, error, fate, late>>

\* i2c_driver_is_transfer_ok
Check(t) ==
    /\ pc[t] = "check"
    /\ Return(t, ~error)
    /\ UNCHANGED <<mutex, sem, error, hal, transfer, fate, late>>

\* i2c_driver_release_dev_mutex
Unlock(t) ==
    /\ pc[t] = "return"
    /\ mutex' = NoTask
    /\ Goto(t, "idle")
    /\ UNCHANGED <<result, sem, error, hal, transfer, fate, late>>

-----------------------------------------------------------------------------
(* The interrupt handlers of the HAL and the driver's callbacks.           *)

\* Every callback gives the semaphore; giving it twice gives it once.
Ends(how) ==
    /\ hal' = "READY"
    /\ transfer' = NoTask
    /\ sem' = TRUE
    /\ fate' = [fate EXCEPT ![transfer] = how]
    /\ late' = (late \/ pc[transfer] \in {"timeout", "reset"})
    /\ UNCHANGED taskVars

\* HAL_I2C_MasterTxCpltCallback, ...RxCplt..., ...MemTxCplt..., ...MemRxCplt...
Complete == hal = "BUSY" /\ Ends("ok") /\ UNCHANGED error

\* Mutant: the callback does not raise the error flag.
SilentErrorCallback == hal = "BUSY" /\ Ends("failed") /\ UNCHANGED error

\* HAL_I2C_ErrorCallback
ErrorCallback == hal = "BUSY" /\ Ends("failed") /\ error' = TRUE

\* HAL_I2C_AbortCpltCallback
AbortCplt == hal = "ABORT" /\ Ends("failed") /\ UNCHANGED error

-----------------------------------------------------------------------------

Step(t) ==
    \/ BeforeHalCall(t) \/ Start(t) \/ StartFails(t) \/ Detect(t)
    \/ TakeSemaphore(t) \/ Timeout(t) \/ Abort(t) \/ Reset(t)
    \/ Check(t) \/ Unlock(t)

Interrupt == Complete \/ ErrorCallback \/ AbortCplt

Next == Interrupt \/ \E t \in Tasks : Lock(t) \/ Step(t)

Spec == Init /\ [][Next]_vars

\* A task that has the bus runs on, and the kernel times its wait.  Nothing is
\* assumed of the interrupt, nor of who gets the mutex.
FairSpec == Spec /\ \A t \in Tasks : WF_vars(Step(t))

-----------------------------------------------------------------------------
(* Properties                                                              *)

\* Every variable stays in its type.
TypeOK ==
    /\ pc \in [Tasks -> Pc]
    /\ result \in [Tasks -> BOOLEAN]
    /\ mutex \in Tasks \cup {NoTask}
    /\ sem \in BOOLEAN
    /\ error \in BOOLEAN
    /\ hal \in {"READY", "BUSY", "ABORT"}
    /\ transfer \in Tasks \cup {NoTask}
    /\ fate \in [Tasks -> {"none", "running", "ok", "failed"}]
    /\ late \in BOOLEAN

\* Without a late callback, a call that returns true has transferred its data:
\* no completion is credited to another transfer than the one it ends.
TrueMeansDone ==
    ~late => \A t \in Tasks : pc[t] = "return" /\ result[t] => fate[t] = "ok"

\* Without a late callback, the peripheral runs a transfer only for a task that
\* still waits for it: it never fills a buffer that its caller has left.
NoStrayTransfer ==
    ~late => (hal # "READY" => pc[transfer] \in {"wait", "timeout", "reset"})

\* Without a late callback, a task that gets the bus finds the handle ready, as
\* i2c_driver_before_hal_call asserts, whatever the calls before it met.
ReadyWhenLocked ==
    ~late => \A t \in Tasks : pc[t] = "locked" => hal = "READY"

\* The handle is ready when a call starts: assert(hi2c->State == HAL_I2C_STATE_READY).
AlwaysReady == \A t \in Tasks : pc[t] = "locked" => hal = "READY"

\* A task that has got the bus returns, unless it stops at an assert (in a build
\* that has them): neither a lost interrupt nor a late one keeps it, and the mutex,
\* forever.
CallsReturn ==
    \A t \in Tasks : []<>(pc[t] \in {"idle", "asserted"})
=============================================================================
