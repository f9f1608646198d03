------------------------------ MODULE I2cProofs ------------------------------
(***************************************************************************)
(* What the I2C master driver guarantees for any number of tasks, unless a *)
(* callback comes between the timeout of its waiter and the reset of the   *)
(* peripheral; and what the VXS slave does with the words of its master,   *)
(* for registers of any number and size, and any number of faults.         *)
(***************************************************************************)
EXTENDS I2cDriver, VxsSlave, Integers, TLAPS

\* A call that is under way holds the mutex.
Holder == \A t \in Tasks : pc[t] # "idle" => mutex = t

\* The handle is ready exactly when no transfer runs.
HalMatches == hal = "READY" <=> transfer = NoTask

\* A transfer belongs to a call that waits for it, or that timed out and has
\* not yet reset the peripheral; only such a call has aborted it.
OwnerWaits ==
    \A t \in Tasks :
        /\ transfer = t => pc[t] \in {"wait", "timeout", "reset"}
        /\ pc[t] \in {"timeout", "reset"} => transfer = t
        /\ pc[t] = "wait" /\ ~sem => transfer = t
        /\ transfer = t /\ hal = "ABORT" => pc[t] = "reset"

\* The semaphore is given only to the call whose transfer has just ended.
TokenIsMine ==
    sem => \E t \in Tasks : pc[t] = "wait" /\ transfer = NoTask

\* A call that is about to look at the error flag finds its own outcome there.
OutcomeIsMine ==
    \A t \in Tasks :
        /\ pc[t] = "check" => error \/ fate[t] = "ok"
        /\ pc[t] = "wait" /\ sem => error \/ fate[t] = "ok"
        /\ pc[t] = "return" /\ result[t] => fate[t] = "ok"

InStep == ~late => OwnerWaits /\ TokenIsMine /\ OutcomeIsMine

IInv == TypeOK /\ Holder /\ HalMatches /\ InStep

-----------------------------------------------------------------------------

\* The driver keeps every variable in its type.
THEOREM TypeCorrect == Spec => []TypeOK
<1>1. Init => TypeOK
  BY NoTaskAssumption DEF Init, TypeOK, Pc
<1>2. TypeOK /\ [Next]_vars => TypeOK'
  <2> SUFFICES ASSUME TypeOK, [Next]_vars PROVE TypeOK'
    OBVIOUS
  <2> USE DEF TypeOK, Pc, Goto, Return, AssertFails, ResetPeripheral
  <2>1. ASSUME NEW t \in Tasks, Lock(t) PROVE TypeOK'
    BY <2>1 DEF Lock
  <2>2. ASSUME NEW t \in Tasks, BeforeHalCall(t) PROVE TypeOK'
    BY <2>2 DEF BeforeHalCall
  <2>3. ASSUME NEW t \in Tasks, Start(t) PROVE TypeOK'
    BY <2>3 DEF Start
  <2>4. ASSUME NEW t \in Tasks, StartFails(t) PROVE TypeOK'
    BY <2>4 DEF StartFails
  <2>5. ASSUME NEW t \in Tasks, Detect(t) PROVE TypeOK'
    BY <2>5 DEF Detect
  <2>6. ASSUME NEW t \in Tasks, TakeSemaphore(t) PROVE TypeOK'
    BY <2>6 DEF TakeSemaphore
  <2>7. ASSUME NEW t \in Tasks, Timeout(t) PROVE TypeOK'
    BY <2>7 DEF Timeout
  <2>8. ASSUME NEW t \in Tasks, Abort(t) PROVE TypeOK'
    BY <2>8 DEF Abort
  <2>9. ASSUME NEW t \in Tasks, Reset(t) PROVE TypeOK'
    BY <2>9 DEF Reset
  <2>10. ASSUME NEW t \in Tasks, Check(t) PROVE TypeOK'
    BY <2>10 DEF Check
  <2>11. ASSUME NEW t \in Tasks, Unlock(t) PROVE TypeOK'
    BY <2>11 DEF Unlock
  <2>12. CASE Interrupt
    <3>1. ASSUME NEW how \in {"ok", "failed"}, Ends(how), error' \in BOOLEAN
          PROVE TypeOK'
      BY <3>1 DEF Ends, taskVars
    <3>2. QED
      BY <2>12, <3>1 DEF Interrupt, Complete, ErrorCallback, AbortCplt
  <2>13. CASE UNCHANGED vars
    BY <2>13 DEF vars
  <2>14. QED
    BY <2>1, <2>2, <2>3, <2>4, <2>5, <2>6, <2>7, <2>8, <2>9, <2>10, <2>11,
       <2>12, <2>13 DEF Next, Step
<1>3. QED
  BY <1>1, <1>2, PTL DEF Spec

-----------------------------------------------------------------------------

\* The invariant at the start.
LEMMA InitHolds == Init => IInv
<1> SUFFICES ASSUME Init PROVE IInv
  OBVIOUS
<1>1. TypeOK
  BY NoTaskAssumption DEF Init, TypeOK, Pc
<1>2. Holder /\ HalMatches
  BY DEF Init, Holder, HalMatches
<1>3. OwnerWaits /\ TokenIsMine /\ OutcomeIsMine
  BY NoTaskAssumption DEF Init, OwnerWaits, TokenIsMine, OutcomeIsMine
<1>4. QED
  BY <1>1, <1>2, <1>3 DEF IInv, InStep

\* The calls keep the mutex, and the handle in step with the transfer.
LEMMA HolderStep == IInv /\ [Next]_vars => Holder' /\ HalMatches'
<1> SUFFICES ASSUME IInv, [Next]_vars PROVE Holder' /\ HalMatches'
  OBVIOUS
<1> USE NoTaskAssumption
    DEF IInv, TypeOK, Holder, HalMatches, Goto, Return, AssertFails,
        ResetPeripheral
<1>1. ASSUME NEW t \in Tasks, Lock(t) PROVE Holder' /\ HalMatches'
  BY <1>1 DEF Lock
<1>2. ASSUME NEW t \in Tasks, BeforeHalCall(t) PROVE Holder' /\ HalMatches'
  BY <1>2 DEF BeforeHalCall
<1>3. ASSUME NEW t \in Tasks, Start(t) PROVE Holder' /\ HalMatches'
  BY <1>3 DEF Start
<1>4. ASSUME NEW t \in Tasks, StartFails(t) \/ Detect(t) \/ Check(t)
      PROVE Holder' /\ HalMatches'
  BY <1>4 DEF StartFails, Detect, Check
<1>5. ASSUME NEW t \in Tasks, TakeSemaphore(t) \/ Timeout(t)
      PROVE Holder' /\ HalMatches'
  BY <1>5 DEF TakeSemaphore, Timeout
<1>6. ASSUME NEW t \in Tasks, Abort(t) \/ Reset(t)
      PROVE Holder' /\ HalMatches'
  BY <1>6 DEF Abort, Reset
<1>7. ASSUME NEW t \in Tasks, Unlock(t) PROVE Holder' /\ HalMatches'
  BY <1>7 DEF Unlock
<1>8. CASE Interrupt
  BY <1>8 DEF Interrupt, Complete, ErrorCallback, AbortCplt, Ends, taskVars
<1>9. CASE UNCHANGED vars
  BY <1>9 DEF vars
<1>10. QED
  BY <1>1, <1>2, <1>3, <1>4, <1>5, <1>6, <1>7, <1>8, <1>9 DEF Next, Step

\* Each step of a call keeps the driver in step with the peripheral.
LEMMA StepInStep ==
    ASSUME IInv, NEW t \in Tasks, Lock(t) \/ Step(t)
    PROVE  InStep'
<1> SUFFICES ASSUME ~late'
             PROVE  OwnerWaits' /\ TokenIsMine' /\ OutcomeIsMine'
  BY DEF InStep
<1> USE NoTaskAssumption
    DEF IInv, TypeOK, Holder, HalMatches, InStep, OwnerWaits, TokenIsMine,
        OutcomeIsMine, Goto, Return, AssertFails, ResetPeripheral
<1>1. CASE Lock(t)
  BY <1>1 DEF Lock
<1>2. CASE BeforeHalCall(t)
  BY <1>2 DEF BeforeHalCall
<1>3. CASE Start(t)
  BY <1>3 DEF Start
<1>4. CASE StartFails(t)
  BY <1>4 DEF StartFails
<1>5. CASE Detect(t)
  BY <1>5 DEF Detect
<1>6. CASE TakeSemaphore(t)
  BY <1>6 DEF TakeSemaphore
<1>7. CASE Timeout(t)
  BY <1>7 DEF Timeout
<1>8. CASE Abort(t)
  BY <1>8 DEF Abort
<1>9. CASE Reset(t)
  BY <1>9 DEF Reset
<1>10. CASE Check(t)
  BY <1>10 DEF Check
<1>11. CASE Unlock(t)
  BY <1>11 DEF Unlock
<1>12. QED
  BY <1>1, <1>2, <1>3, <1>4, <1>5, <1>6, <1>7, <1>8, <1>9, <1>10, <1>11
     DEF Step

\* A callback that does not come late ends the transfer of the call that waits.
LEMMA InterruptInStep ==
    ASSUME IInv, Interrupt
    PROVE  InStep'
<1> SUFFICES ASSUME ~late'
             PROVE  OwnerWaits' /\ TokenIsMine' /\ OutcomeIsMine'
  BY DEF InStep
<1> USE NoTaskAssumption DEF IInv, TypeOK, HalMatches
<1>1. /\ ~late /\ OwnerWaits /\ TokenIsMine /\ OutcomeIsMine
      /\ hal # "READY" /\ transfer \in Tasks
      /\ pc[transfer] \notin {"timeout", "reset"}
  BY DEF Interrupt, Complete, ErrorCallback, AbortCplt, Ends, InStep
<1>2. pc[transfer] = "wait" /\ hal = "BUSY" /\ mutex = transfer
  BY <1>1 DEF OwnerWaits, Holder
<1>3. /\ transfer' = NoTask /\ hal' = "READY" /\ sem'
      /\ UNCHANGED <<pc, result>>
      /\ error' \/ fate' = [fate EXCEPT ![transfer] = "ok"]
      /\ \A t \in Tasks : t # transfer => fate'[t] = fate[t]
  BY <1>1, <1>2
     DEF Interrupt, Complete, ErrorCallback, AbortCplt, Ends, taskVars
<1>4. OwnerWaits'
  BY <1>1, <1>2, <1>3 DEF OwnerWaits, Holder
<1>5. TokenIsMine'
  BY <1>1, <1>2, <1>3 DEF TokenIsMine
<1>6. OutcomeIsMine'
  <2> SUFFICES ASSUME NEW t \in Tasks
               PROVE  /\ pc[t] = "check" => error' \/ fate'[t] = "ok"
                      /\ pc[t] = "wait" => error' \/ fate'[t] = "ok"
                      /\ pc[t] = "return" /\ result[t] => fate'[t] = "ok"
    BY <1>3 DEF OutcomeIsMine
  <2>1. CASE t = transfer
    BY <2>1, <1>1, <1>2, <1>3
  <2>2. CASE t # transfer
    BY <2>2, <1>1, <1>2 DEF Holder
  <2>3. QED
    BY <2>1, <2>2
<1>7. QED
  BY <1>4, <1>5, <1>6

\* The invariant is inductive.
LEMMA Inductive == Spec => []IInv
<1>1. IInv /\ [Next]_vars => InStep'
  <2> SUFFICES ASSUME IInv, [Next]_vars PROVE InStep'
    OBVIOUS
  <2>1. CASE Interrupt
    BY <2>1, InterruptInStep
  <2>2. ASSUME NEW t \in Tasks, Lock(t) \/ Step(t) PROVE InStep'
    BY <2>2, StepInStep
  <2>3. CASE UNCHANGED vars
    BY <2>3 DEF vars, IInv, InStep, OwnerWaits, TokenIsMine, OutcomeIsMine
  <2>4. QED
    BY <2>1, <2>2, <2>3 DEF Next
<1>2. TypeOK /\ TypeOK' /\ IInv /\ [Next]_vars => IInv'
  BY <1>1, HolderStep DEF IInv
<1>3. IInv => TypeOK
  BY DEF IInv
<1>4. QED
  BY <1>2, <1>3, InitHolds, TypeCorrect, PTL DEF Spec

\* A call that returns true has transferred its data, unless a callback came
\* late: i2c_driver_wait_complete never credits it with another completion.
THEOREM CompletionsMatch == Spec => []TrueMeansDone
<1>1. IInv => TrueMeansDone
  BY DEF IInv, InStep, OutcomeIsMine, TrueMeansDone
<1>2. QED
  BY <1>1, Inductive, PTL

\* The peripheral runs no transfer for a call that has returned, unless a
\* callback came late: i2c_driver_reset_internal stops it in time.
THEOREM BuffersAreLeftAlone == Spec => []NoStrayTransfer
<1>1. IInv => NoStrayTransfer
  BY DEF IInv, TypeOK, HalMatches, InStep, OwnerWaits, NoStrayTransfer
<1>2. QED
  BY <1>1, Inductive, PTL

\* i2c_driver_before_hal_call finds the handle ready, unless a callback came late.
THEOREM AssertionHolds == Spec => []ReadyWhenLocked
<1>1. IInv => ReadyWhenLocked
  BY NoTaskAssumption
     DEF IInv, TypeOK, Holder, HalMatches, InStep, OwnerWaits, ReadyWhenLocked
<1>2. QED
  BY <1>1, Inductive, PTL

\* The steps that a call has at most before it until it has returned.
ToReturn ==
    [at \in Pc |-> CASE at = "locked" -> 6 [] at = "call" -> 5 [] at = "wait" -> 4
                     [] at = "timeout" -> 3 [] at \in {"check", "reset"} -> 2
                     [] at = "return" -> 1 [] OTHER -> 0]

\* What keeps a call from waiting for ever, whatever the interrupts do: the mutex is
\* held by a call that is under way or has stopped at an assert, each of its own steps
\* brings it nearer to its return, and no interrupt and no other task sets it back.
THEOREM CallsAdvance ==
    Spec => /\ [](mutex # NoTask => pc[mutex] # "idle")
            /\ [][\A t \in Tasks : \/ Lock(t)
                                   \/ Step(t) /\ ToReturn[pc'[t]] < ToReturn[pc[t]]
                                   \/ pc'[t] = pc[t]]_vars
<1> DEFINE Held == mutex # NoTask => pc[mutex] # "idle"
           Nearer(t) == \/ Lock(t)
                        \/ Step(t) /\ ToReturn[pc'[t]] < ToReturn[pc[t]]
                        \/ pc'[t] = pc[t]
           Advance == \A t \in Tasks : Nearer(t)
<1> USE DEF Goto, Return, AssertFails
<1>1. Init => Held
  BY DEF Init
<1>2. ASSUME IInv, Held, [Next]_vars PROVE Held'
  <2> USE <1>2, NoTaskAssumption DEF IInv, TypeOK, Holder
  <2>1. ASSUME NEW t \in Tasks, Lock(t) PROVE Held'
    BY <2>1 DEF Lock
  <2>2. ASSUME NEW t \in Tasks, Unlock(t) PROVE Held'
    BY <2>2 DEF Unlock
  <2>3. ASSUME NEW t \in Tasks, Step(t), ~Unlock(t) PROVE Held'
    <3>1. pc[t] # "idle" /\ UNCHANGED mutex /\ \E to \in Pc \ {"idle"} : pc' = [pc EXCEPT ![t] = to]
      BY <2>3 DEF Step, BeforeHalCall, Start, StartFails, Detect, TakeSemaphore, Timeout, Abort,
                  Reset, Check, Pc
    <3> QED BY <3>1
  <2>4. CASE Interrupt \/ UNCHANGED vars
    BY <2>4 DEF Interrupt, Complete, ErrorCallback, AbortCplt, Ends, taskVars, vars
  <2> QED BY <2>1, <2>2, <2>3, <2>4 DEF Next
<1>3. ASSUME TypeOK, [Next]_vars PROVE Advance
  <2>1. ASSUME NEW t \in Tasks, NEW u \in Tasks, Lock(u) \/ Step(u) PROVE Nearer(t)
    <3>1. CASE t # u
      <4>1. \E to : pc' = [pc EXCEPT ![u] = to]
        BY <2>1 DEF Lock, Step, BeforeHalCall, Start, StartFails, Detect, TakeSemaphore, Timeout,
                    Abort, Reset, Check, Unlock
      <4> QED BY <1>3, <3>1, <4>1 DEF TypeOK
    <3>2. CASE t = u /\ Step(t)
      <4>1. /\ pc[t] \in Pc /\ pc'[t] \in Pc
            /\ \/ pc[t] = "locked" /\ pc'[t] \in {"asserted", "call", "return"}
               \/ pc[t] = "call" /\ pc'[t] \in {"wait", "asserted", "return"}
               \/ pc[t] = "wait" /\ pc'[t] \in {"check", "timeout"}
               \/ pc[t] = "timeout" /\ pc'[t] = "reset"
               \/ pc[t] \in {"check", "reset"} /\ pc'[t] = "return"
               \/ pc[t] = "return" /\ pc'[t] = "idle"
        BY <1>3, <3>2 DEF TypeOK, Pc, Step, BeforeHalCall, Start, StartFails, Detect, TakeSemaphore,
                          Timeout, Abort, Reset, Check, Unlock
      <4> QED BY <3>2, <4>1 DEF ToReturn
    <3> QED BY <2>1, <3>1, <3>2
  <2>2. CASE Interrupt \/ UNCHANGED vars
    BY <2>2 DEF Interrupt, Complete, ErrorCallback, AbortCplt, Ends, taskVars, vars
  <2> QED BY <1>3, <2>1, <2>2 DEF Next
<1> QED BY <1>1, <1>2, <1>3, Inductive, TypeCorrect, PTL DEF Spec

-----------------------------------------------------------------------------
(* VxsSlave.  From rest on, the slave keeps step with the bus: what it has *)
(* of a transfer is what the master has sent.  After a cut it is one byte  *)
(* ahead at most, and what it has then it may well write.                  *)

\* The slave has got the first n bytes of the transfer of turn t, and no others.
HasGot(t, n) ==
    /\ slave.hi = IF n >= 1 /\ t # 0 THEN 1 ELSE 0
    /\ slave.lo = IF n >= 2 /\ t # 0 THEN t - 1 ELSE 0
    /\ slave.rxdata = [i \in 0..WordBytes - 1 |-> IF i + 2 < n /\ t # 0 THEN Info[t - 1][i] ELSE 0]

\* The turn of a transfer that is over, if it was a write
TurnBefore == IF turn = 0 THEN ScratchSize ELSE turn - 1

BusRests ==
    /\ addrFlag = "none" /\ rxReg = NoByte
    /\ IF stopFlag
       THEN IF turn = 1 THEN ~slave.write ELSE slave.write /\ HasGot(TurnBefore, WordBytes + 2)
       ELSE txReg = NoByte /\ slave.count = 0 /\ HasGot(0, 0)

BusWrites ==
    /\ ~stopFlag /\ txReg = NoByte /\ got = <<>>
    /\ addrFlag \in {"write", "none"}
    /\ addrFlag = "write" => bus.at = 0 /\ rxReg = NoByte
    /\ addrFlag = "none" => slave.write
    /\ bus.at <= Len(Transfer)
    /\ IF rxReg = NoByte THEN slave.count = bus.at /\ HasGot(turn, bus.at)
       ELSE /\ bus.at > 0 /\ rxReg = Transfer[bus.at]
            /\ slave.count = bus.at - 1 /\ HasGot(turn, bus.at - 1)

BusReads ==
    /\ turn = 0 /\ ~stopFlag /\ rxReg = NoByte
    /\ slave.hi = 0 /\ slave.lo = 0
    /\ addrFlag \in {"read", "none"}
    /\ addrFlag = "read" => got = <<>> /\ txReg = NoByte
    /\ addrFlag = "none" => ~slave.write
    /\ slave.count = 2 + Len(got) + (IF txReg = NoByte THEN 0 ELSE 1)
    /\ slave.count > 2 => slave.txdata \in LiveWords
    /\ \A i \in 1..Len(got) : got[i] = slave.txdata[i - 1]
    /\ txReg # NoByte /\ Len(got) < WordBytes => txReg = slave.txdata[Len(got)]

InStepWithBus ==
    /\ bus.phase = "idle" => BusRests
    /\ bus.phase = "write" => BusWrites
    /\ bus.phase = "read" => BusReads

\* What a STOP would write is the begin of the word of the register.
Harmless == slave.hi = 1 /\ slave.lo \in Scratch => Prefix(slave.rxdata, Info[slave.lo])

\* After a cut the next transfer is the read, and the slave has no word to write.
CutShort ==
    /\ turn = 0 \/ (turn = 1 /\ stopFlag /\ ~slave.write /\ rxReg = NoByte)
    /\ stopFlag => bus.phase = "idle" /\ addrFlag = "none" /\ (slave.write => Harmless)
    /\ ~stopFlag /\ bus.phase # "read" => slave.lo = 0 /\ slave.rxdata = Zero
    /\ bus.phase = "idle" => addrFlag = "none" /\ (~stopFlag /\ rxReg # NoByte => slave.count = 0)
    /\ bus.phase = "write" => addrFlag # "read" /\ rxReg \in {NoByte, 0}
    /\ bus.phase = "read" => /\ rxReg = NoByte /\ addrFlag # "write"
                             /\ addrFlag = "none" => ~slave.write

SlaveInv ==
    /\ SlaveTypeOK
    /\ disturbed = {} => InStepWithBus
    /\ disturbed = {"cut"} => CutShort

\* Words and the registers that hold them
LEMMA SlaveWords ==
    /\ Zero \in Word
    /\ WordBytes \in Nat /\ 0 < WordBytes /\ ScratchSize \in Nat /\ 0 < ScratchSize
    /\ 0 \in SlaveBytes /\ 1 \in SlaveBytes
    /\ \A t \in 1..ScratchSize : t - 1 \in Scratch /\ t - 1 \in SlaveBytes /\ Info[t - 1] \in Word
<1>1. WordBytes \in Nat /\ 0 < WordBytes /\ ScratchSize \in Nat /\ 0 < ScratchSize
  BY SlaveAssumption
<1>2. 0 \in SlaveBytes /\ 1 \in SlaveBytes
  BY SlaveAssumption
<1>3. \A t \in 1..ScratchSize : t - 1 \in Scratch
  BY <1>1 DEF Scratch
<1>4. \A t \in 1..ScratchSize : t - 1 \in SlaveBytes /\ Info[t - 1] \in Word
  BY <1>3, SlaveAssumption
<1>5. Zero \in Word
  BY <1>2 DEF Zero, Word
<1> QED BY <1>1, <1>2, <1>3, <1>4, <1>5

\* A transfer has its header, and a write the bytes of its word after it.
LEMMA TransferBytes ==
    ASSUME turn \in 0..ScratchSize
    PROVE  /\ Transfer \in Seq(SlaveBytes)
           /\ Len(Transfer) = (IF turn = 0 THEN 2 ELSE 2 + WordBytes)
           /\ turn = 0 => Transfer[1] = 0 /\ Transfer[2] = 0
           /\ turn # 0 => /\ Transfer[1] = 1 /\ Transfer[2] = turn - 1
                          /\ \A i \in 0..WordBytes - 1 : Transfer[i + 3] = Info[turn - 1][i]
<1>1. CASE turn = 0
  <2>1. Transfer = <<0, 0>>
    BY <1>1 DEF Transfer, Header, Reading
  <2> QED BY <1>1, <2>1, SlaveWords
<1>2. CASE turn # 0
  <2> DEFINE word == [i \in 1..WordBytes |-> Info[turn - 1][i - 1]]
  <2>1. Transfer = <<1, turn - 1>> \o word
    BY <1>2 DEF Transfer, Header, Reading
  <2>2. turn \in 1..ScratchSize
    BY <1>2, SlaveWords
  <2>3. \A i \in 1..WordBytes : i - 1 \in 0..WordBytes - 1
    BY SlaveWords
  <2>4. \A i \in 1..WordBytes : word[i] = Info[turn - 1][i - 1] /\ word[i] \in SlaveBytes
    BY <2>2, <2>3, SlaveWords DEF Word
  <2>5. word \in Seq(SlaveBytes) /\ Len(word) = WordBytes
    BY <2>4, SlaveWords
  <2> HIDE DEF word
  <2>6. <<1, turn - 1>> \in Seq(SlaveBytes) /\ Len(<<1, turn - 1>>) = 2
    BY <2>2, SlaveWords
  <2>7. Transfer \in Seq(SlaveBytes) /\ Len(Transfer) = 2 + WordBytes
    BY <2>1, <2>5, <2>6
  <2>8. Transfer[1] = 1 /\ Transfer[2] = turn - 1
    BY <2>1, <2>5, <2>6
  <2>9. \A i \in 0..WordBytes - 1 : Transfer[i + 3] = Info[turn - 1][i]
    <3>1. ASSUME NEW i \in 0..WordBytes - 1 PROVE Transfer[i + 3] = Info[turn - 1][i]
      <4>1. i + 1 \in 1..WordBytes /\ (i + 1) - 1 = i /\ i + 3 > 2 /\ (i + 3) - 2 = i + 1
            /\ i + 3 \in 1..2 + WordBytes
        BY SlaveWords
      <4>2. Transfer[i + 3] = word[i + 1]
        BY <2>1, <2>5, <2>6, <4>1
      <4> QED BY <2>4, <4>1, <4>2
    <3> QED BY <3>1
  <2> QED BY <1>2, <2>7, <2>8, <2>9
<1> QED BY <1>1, <1>2

\* No transfer is longer than a write.
LEMMA TransferLength ==
    ASSUME turn \in 0..ScratchSize
    PROVE  Len(Transfer) \in Nat /\ Len(Transfer) <= 2 + WordBytes /\ Transfer \in Seq(SlaveBytes)
<1> DEFINE n == Len(Transfer)
<1>1. WordBytes \in Nat
  BY SlaveWords
<1>2. n = 2 \/ n = 2 + WordBytes
  BY TransferBytes
<1>3. Transfer \in Seq(SlaveBytes) /\ n \in Nat
  BY TransferBytes
<1> HIDE DEF n
<1>4. n <= 2 + WordBytes
  BY <1>1, <1>2
<1> QED BY <1>3, <1>4 DEF n

\* What is read from a register is a word, and a byte that goes out is a byte.
LEMMA TxTypes ==
    ASSUME SlaveTypeOK
    PROVE  /\ TxWord(slave) \in Word
           /\ \A b \in ShiftedOut(slave, TxWord(slave)) : b \in SlaveBytes
<1>1. live \in Word
  BY SlaveAssumption DEF SlaveTypeOK
<1>2. TxWord(slave) \in Word
  BY <1>1, SlaveWords DEF TxWord, Register, SlaveTypeOK
<1> QED BY <1>2 DEF ShiftedOut, Word

\* The count saturates past the word and the byte that is prefetched after it.
LEMMA CountedType ==
    ASSUME NEW s \in [write : BOOLEAN, hi : SlaveBytes, lo : SlaveBytes, rxdata : Word,
                      txdata : Word, count : 0..WordBytes + 3]
    PROVE  Counted(s) \in [write : BOOLEAN, hi : SlaveBytes, lo : SlaveBytes, rxdata : Word,
                           txdata : Word, count : 0..WordBytes + 3]
<1> DEFINE n == IF s.count > WordBytes + 2 THEN s.count ELSE s.count + 1
<1>1. n \in 0..WordBytes + 3
  BY SlaveWords
<1>2. Counted(s) = [s EXCEPT !.count = n]
  BY DEF Counted
<1> HIDE DEF n
<1> QED BY <1>1, <1>2

\* A byte that comes in has its place.
LEMMA RxTypes ==
    ASSUME SlaveTypeOK, NEW b \in SlaveBytes
    PROVE  /\ Counted(Received(slave, b)) \in
                  [write : BOOLEAN, hi : SlaveBytes, lo : SlaveBytes, rxdata : Word,
                   txdata : Word, count : 0..WordBytes + 3]
           /\ Received(slave, b) \in
                  [write : BOOLEAN, hi : SlaveBytes, lo : SlaveBytes, rxdata : Word,
                   txdata : Word, count : 0..WordBytes + 3]
           /\ Received(slave, b).write = slave.write
<1> DEFINE Slave == [write : BOOLEAN, hi : SlaveBytes, lo : SlaveBytes, rxdata : Word,
                     txdata : Word, count : 0..WordBytes + 3]
<1>1. slave \in Slave
  BY DEF SlaveTypeOK
<1>0. slave.count - 2 \in DOMAIN slave.rxdata => slave.count \notin {0, 1}
  <2>1. DOMAIN slave.rxdata = 0..WordBytes - 1
    BY <1>1 DEF Word
  <2> QED BY <1>1, <2>1, SlaveWords
<1>2. CASE slave.count = 0
  <2>1. Received(slave, b) = [slave EXCEPT !.hi = b, !.lo = 0, !.rxdata = Zero]
    BY <1>0, <1>2 DEF Received
  <2>2. Received(slave, b) \in Slave
    BY <1>1, <2>1, SlaveWords
  <2>3. Received(slave, b).write = slave.write /\ Received(slave, b).count = 0
    BY <1>1, <1>2, <2>1
  <2> QED BY <2>2, <2>3, CountedType
<1>3. CASE slave.count = 1
  <2>1. Received(slave, b) = [slave EXCEPT !.lo = b]
    BY <1>0, <1>3 DEF Received
  <2>2. Received(slave, b) \in Slave /\ Received(slave, b).write = slave.write
    BY <1>1, <2>1
  <2> QED BY <2>2, CountedType
<1>4. CASE slave.count > 1 /\ slave.count - 2 \in DOMAIN slave.rxdata
  <2>1. [slave.rxdata EXCEPT ![slave.count - 2] = b] \in Word
    BY <1>1 DEF Word
  <2>2. Received(slave, b) = [slave EXCEPT !.rxdata = [slave.rxdata EXCEPT ![slave.count - 2] = b]]
    BY <1>1, <1>4 DEF Received
  <2>3. Received(slave, b) \in Slave /\ Received(slave, b).write = slave.write
    BY <1>1, <2>1, <2>2
  <2> QED BY <2>3, CountedType
<1>5. CASE slave.count > 1 /\ slave.count - 2 \notin DOMAIN slave.rxdata
  <2>1. Received(slave, b) = slave
    BY <1>0, <1>1, <1>5 DEF Received
  <2> QED BY <1>1, <2>1, CountedType
<1> QED BY <1>1, <1>2, <1>3, <1>4, <1>5, SlaveWords

\* An event in time disturbs nothing, and one that is late is remembered.
LEMMA EventDisturbs ==
    ASSUME Event
    PROVE  /\ \/ ~stopFlag /\ rxReg = NoByte /\ disturbed' = disturbed
              \/ "late" \in disturbed'
           /\ disturbed' \subseteq disturbed \cup {"late"} /\ (SlaveTypeOK => faults' \in 0..MaxFaults)
           /\ UNCHANGED <<txReg, slave, scratch, live, pollVars>>
<1>1. MaxFaults \in Nat
  BY SlaveAssumption
<1> QED BY <1>1 DEF Event, Late, Fault, SlaveTypeOK

\* The interrupts keep the types.
LEMMA InterruptTypes == ASSUME SlaveTypeOK, SlaveInterrupt PROVE SlaveTypeOK'
<1> DEFINE Slave == [write : BOOLEAN, hi : SlaveBytes, lo : SlaveBytes, rxdata : Word,
                     txdata : Word, count : 0..WordBytes + 3]
<1>1. slave \in Slave /\ scratch \in [Scratch -> Word]
  BY DEF SlaveTypeOK
<1>2. CASE ServeAddr
  <2>1. (addrFlag = "write") \in BOOLEAN
    OBVIOUS
  <2>2. slave' \in Slave
    BY <1>1, <1>2, <2>1 DEF ServeAddr
  <2> QED BY <1>2, <2>2 DEF ServeAddr, SlaveTypeOK, master, pollVars
<1>3. CASE ServeStop
  <2>1. 0 \in 0..WordBytes + 3
    BY SlaveWords
  <2>2. slave' \in Slave
    BY <1>1, <1>3, <2>1, SlaveWords DEF ServeStop, AfterStop
  <2>3. scratch' \in [Scratch -> Word]
    BY <1>1, <1>3 DEF ServeStop, ScratchAfter
  <2>4. stopFlag' = FALSE /\ txReg' = NoByte /\ disturbed' \subseteq disturbed
    BY <1>3 DEF ServeStop
  <2>5. UNCHANGED <<master, addrFlag, rxReg, live, pollVars, faults>>
    BY <1>3 DEF ServeStop
  <2> QED BY <2>2, <2>3, <2>4, <2>5 DEF SlaveTypeOK, master, pollVars
<1>4. CASE ServeTx
  <2>1. txReg' \in SlaveBytes
    BY <1>4, TxTypes DEF ServeTx
  <2>2. slave' = [Counted(slave) EXCEPT !.txdata = TxWord(slave)]
    BY <1>4 DEF ServeTx
  <2>3. slave' \in Slave
    BY <1>1, <2>2, CountedType, TxTypes
  <2> QED BY <1>4, <2>1, <2>3 DEF ServeTx, SlaveTypeOK, master, pollVars
<1>5. CASE ServeRx
  <2>1. rxReg \in SlaveBytes
    BY <1>5 DEF ServeRx, SlaveTypeOK
  <2>2. slave' \in Slave
    BY <1>5, <2>1, RxTypes DEF ServeRx
  <2> QED BY <1>5, <2>2 DEF ServeRx, SlaveTypeOK, master, pollVars
<1> QED BY <1>2, <1>3, <1>4, <1>5 DEF SlaveInterrupt

\* So do the bus, the tasks of the board and the faults.
LEMMA BusTypes ==
    ASSUME SlaveTypeOK, BusStep \/ Cut \/ Vanish \/ LiveChanges \/ Poll \/ UNCHANGED slaveVars
    PROVE  SlaveTypeOK'
<1> USE DEF SlaveTypeOK
<1>0. turn \in 0..ScratchSize /\ ScratchSize \in Nat /\ MaxFaults \in Nat
      /\ WordBytes \in Nat /\ 0 \in 0..2 + WordBytes
  BY SlaveAssumption
<1>1. CASE StartTransfer
  <2>1. got' \in Seq(SlaveBytes) /\ Len(got') = 0
    BY <1>1 DEF StartTransfer
  <2>2. bus' \in [phase : {"idle", "write", "read"}, at : 0..2 + WordBytes]
    BY <1>0, <1>1 DEF StartTransfer
  <2>3. Event /\ addrFlag' = "write" /\ UNCHANGED <<turn, stopFlag, rxReg>>
    BY <1>1 DEF StartTransfer
  <2>4. Len(got') <= WordBytes
    BY <1>0, <2>1
  <2> QED BY <2>1, <2>2, <2>3, <2>4, EventDisturbs DEF pollVars
<1>2. CASE SendByte
  <2>1. Len(Transfer) <= 2 + WordBytes /\ Transfer \in Seq(SlaveBytes)
    BY <1>0, TransferLength
  <2>2. bus.at + 1 \in 1..Len(Transfer)
    BY <1>2, <2>1 DEF SendByte
  <2>3. rxReg' \in SlaveBytes
    BY <1>2, <2>1, <2>2 DEF SendByte
  <2>4. bus'.at \in 0..2 + WordBytes /\ bus' = [bus EXCEPT !.at = bus.at + 1]
    BY <1>0, <1>2, <2>1, <2>2 DEF SendByte
  <2>5. bus' \in [phase : {"idle", "write", "read"}, at : 0..2 + WordBytes]
    BY <2>4
  <2> QED BY <1>2, <2>3, <2>5, EventDisturbs DEF SendByte, pollVars
<1>3. CASE RestartToRead
  BY <1>0, <1>3, EventDisturbs DEF RestartToRead, pollVars
<1>4. CASE ReceiveByte
  <2>1. got' \in Seq(SlaveBytes) /\ Len(got') <= WordBytes
    BY <1>0, <1>4 DEF ReceiveByte
  <2> QED BY <1>4, <2>1 DEF ReceiveByte, pollVars
<1>5. ASSUME NEW complete \in BOOLEAN, TransferEnds(complete)
      PROVE  /\ bus' \in [phase : {"idle", "write", "read"}, at : 0..2 + WordBytes]
             /\ turn' \in 0..ScratchSize /\ UNCHANGED <<got, addrFlag, rxReg>>
  <2>1. (turn + 1) % (1 + ScratchSize) \in 0..ScratchSize
    BY <1>0
  <2> QED BY <1>0, <1>5, <2>1 DEF TransferEnds
<1>6. CASE Stop
  BY <1>5, <1>6, EventDisturbs DEF Stop, pollVars
<1>7. \A kind \in {"cut", "vanish"} : Fault(kind)
         => faults' \in 0..MaxFaults /\ disturbed' \subseteq {"cut", "vanish", "late"}
  BY <1>0 DEF Fault
<1>8. CASE Cut \/ Vanish
  <2>1. TransferEnds(FALSE) /\ (Fault("cut") \/ Fault("vanish"))
    BY <1>8 DEF Cut, Vanish
  <2>2. stopFlag' \in BOOLEAN /\ UNCHANGED <<txReg, slave, scratch, live, pollVars>>
    BY <1>8 DEF Cut, Vanish
  <2> QED BY <1>5, <1>7, <2>1, <2>2 DEF pollVars
<1>9. CASE LiveChanges
  BY <1>9 DEF LiveChanges, master, periph, pollVars
<1>10. CASE Poll
  <2>1. (pollAt + 1) % ScratchSize \in Scratch
    BY SlaveWords DEF Scratch
  <2>2. polled' \in [Scratch -> Word]
    BY <1>10 DEF Poll
  <2> QED BY <1>10, <2>1, <2>2 DEF Poll, master, periph
<1>11. CASE UNCHANGED slaveVars
  BY <1>11 DEF slaveVars, master, periph, pollVars
<1> QED BY <1>1, <1>2, <1>3, <1>4, <1>6, <1>8, <1>9, <1>10, <1>11 DEF BusStep

\* Every variable of the slave and of its bus stays in its type, for registers of any size
\* and any words; in particular every byte has a place, and no count runs over.
THEOREM SlaveTypeCorrect == SlaveSpec => []SlaveTypeOK
<1>1. SlaveInit => SlaveTypeOK
  <2>1. 0 \in Scratch /\ 0 \in 0..WordBytes + 3 /\ 0 \in 0..MaxFaults
    BY SlaveWords, SlaveAssumption DEF Scratch
  <2> QED BY <2>1, SlaveWords DEF SlaveInit, SlaveTypeOK
<1>2. SlaveTypeOK /\ [SlaveNext]_slaveVars => SlaveTypeOK'
  BY InterruptTypes, BusTypes DEF SlaveNext
<1> QED BY <1>1, <1>2, PTL DEF SlaveSpec

\* A byte that is received is the next of the transfer.
LEMMA GotOneMore ==
    ASSUME SlaveTypeOK, NEW n \in Nat, n < Len(Transfer), slave.count = n, HasGot(turn, n),
           turn' = turn, slave' = Counted(Received(slave, Transfer[n + 1]))
    PROVE  /\ slave'.count = n + 1 /\ slave'.write = slave.write
           /\ slave'.hi = IF turn # 0 THEN 1 ELSE 0
           /\ slave'.lo = IF n + 1 >= 2 /\ turn # 0 THEN turn - 1 ELSE 0
           /\ slave'.rxdata = [i \in 0..WordBytes - 1 |->
                                   IF i + 2 < n + 1 /\ turn # 0 THEN Info[turn - 1][i] ELSE 0]
<1> DEFINE b == Transfer[n + 1]
           next == [i \in 0..WordBytes - 1 |->
                        IF i + 2 < n + 1 /\ turn # 0 THEN Info[turn - 1][i] ELSE 0]
           len == Len(Transfer)
<1>0. /\ turn \in 0..ScratchSize /\ WordBytes \in Nat /\ 0 < WordBytes
      /\ slave.rxdata \in [0..WordBytes - 1 -> SlaveBytes]
      /\ slave \in [write : BOOLEAN, hi : SlaveBytes, lo : SlaveBytes, rxdata : Word,
                    txdata : Word, count : 0..WordBytes + 3]
  BY SlaveWords DEF SlaveTypeOK, Word
<1>1. len = IF turn = 0 THEN 2 ELSE 2 + WordBytes
  BY <1>0, TransferBytes
<1>2. n < len
  OBVIOUS
<1> HIDE DEF b, len
<1>3. slave' = Counted(Received(slave, b))
  BY DEF b
<1>4. /\ turn = 0 => (n = 0 => b = 0) /\ (n = 1 => b = 0)
      /\ turn # 0 => /\ n = 0 => b = 1
                     /\ n = 1 => b = turn - 1
                     /\ n >= 2 => b = Info[turn - 1][n - 2]
  <2>1. turn # 0 /\ n >= 2 => n - 2 \in 0..WordBytes - 1 /\ (n - 2) + 3 = n + 1
    BY <1>0, <1>1, <1>2
  <2> QED BY <1>0, <2>1, TransferBytes DEF b
<1>5. n < WordBytes + 2
  BY <1>0, <1>1, <1>2
<1> DEFINE s == Received(slave, b)
<1>6. s \in [write : BOOLEAN, hi : SlaveBytes, lo : SlaveBytes,
                                 rxdata : Word, txdata : Word, count : 0..WordBytes + 3]
  <2>1. b \in SlaveBytes
    BY <1>0, TransferBytes DEF b
  <2> QED BY <2>1, RxTypes
<1>7. s.count = n => /\ slave'.count = n + 1 /\ slave'.write = s.write /\ slave'.hi = s.hi
                     /\ slave'.lo = s.lo /\ slave'.rxdata = s.rxdata
  <2> HAVE s.count = n
  <2> HIDE DEF s
  <2>1. ~(n > WordBytes + 2)
    BY <1>0, <1>5
  <2>2. slave' = [s EXCEPT !.count = n + 1]
    BY <1>3, <2>1 DEF Counted, s
  <2>3. s \in [write : BOOLEAN, hi : SlaveBytes, lo : SlaveBytes, rxdata : Word,
              txdata : Word, count : 0..WordBytes + 3]
    BY <1>0, <1>6 DEF s
  <2> QED BY <2>2, <2>3
<1>8. CASE n = 0
  <2>1. -2 \notin DOMAIN slave.rxdata
    BY <1>0
  <2>2. Received(slave, b) = [slave EXCEPT !.hi = b, !.lo = 0, !.rxdata = Zero]
    BY <1>0, <1>8, <2>1 DEF Received
  <2>3. next = Zero
    BY <1>0, <1>8 DEF Zero
  <2>4. b = IF turn # 0 THEN 1 ELSE 0
    BY <1>4, <1>8
  <2>5. /\ slave'.count = n + 1 /\ slave'.write = slave.write
        /\ slave'.hi = b /\ slave'.lo = 0 /\ slave'.rxdata = Zero
    <3>1. s.count = n /\ s.write = slave.write /\ s.hi = b /\ s.lo = 0 /\ s.rxdata = Zero
      BY <1>0, <2>2
    <3> QED BY <1>7, <3>1
  <2> HIDE DEF next
  <2>6. slave'.rxdata = next
    BY <2>3, <2>5
  <2> QED BY <1>8, <2>4, <2>5, <2>6 DEF next
<1>9. CASE n = 1
  <2>1. -1 \notin DOMAIN slave.rxdata
    BY <1>0
  <2>2. Received(slave, b) = [slave EXCEPT !.lo = b]
    BY <1>0, <1>9, <2>1 DEF Received
  <2>4. slave.rxdata = next
    BY <1>0, <1>9 DEF HasGot
  <2>5. slave.hi = (IF turn # 0 THEN 1 ELSE 0) /\ b = (IF turn # 0 THEN turn - 1 ELSE 0)
    BY <1>4, <1>9 DEF HasGot
  <2>6. /\ slave'.count = n + 1 /\ slave'.write = slave.write
        /\ slave'.hi = slave.hi /\ slave'.lo = b /\ slave'.rxdata = slave.rxdata
    <3>1. /\ s.count = n /\ s.write = slave.write /\ s.hi = slave.hi /\ s.lo = b
          /\ s.rxdata = slave.rxdata
      BY <1>0, <2>2
    <3> QED BY <1>7, <3>1
  <2> HIDE DEF next
  <2>7. slave'.rxdata = next
    BY <2>4, <2>6
  <2> QED BY <1>9, <2>5, <2>6, <2>7 DEF next
<1>10. CASE n > 1
  <2>1. turn # 0 /\ n - 2 \in 0..WordBytes - 1
    BY <1>0, <1>1, <1>2, <1>10
  <2>2. Received(slave, b) = [slave EXCEPT !.rxdata = [slave.rxdata EXCEPT ![n - 2] = b]]
    BY <1>0, <1>10, <2>1 DEF Received
  <2>4. [slave.rxdata EXCEPT ![n - 2] = b] = next
    <3>1. ASSUME NEW i \in 0..WordBytes - 1
          PROVE  [slave.rxdata EXCEPT ![n - 2] = b][i] = next[i]
      <4>1. CASE i = n - 2
        BY <1>0, <1>4, <1>10, <2>1, <4>1
      <4>2. CASE i # n - 2
        <5>1. (i + 2 < n + 1) <=> (i + 2 < n)
          BY <4>2
        <5> QED BY <1>0, <2>1, <4>2, <5>1 DEF HasGot
      <4> QED BY <4>1, <4>2
    <3>2. [slave.rxdata EXCEPT ![n - 2] = b] \in [0..WordBytes - 1 -> SlaveBytes \cup {b}]
      BY <1>0
    <3> QED BY <3>1, <3>2
  <2>5. slave.hi = 1 /\ slave.lo = turn - 1
    BY <1>10, <2>1 DEF HasGot
  <2>6. /\ slave'.count = n + 1 /\ slave'.write = slave.write
        /\ slave'.hi = slave.hi /\ slave'.lo = slave.lo
        /\ slave'.rxdata = [slave.rxdata EXCEPT ![n - 2] = b]
    <3>1. /\ s.count = n /\ s.write = slave.write /\ s.hi = slave.hi /\ s.lo = slave.lo
          /\ s.rxdata = [slave.rxdata EXCEPT ![n - 2] = b]
      BY <1>0, <2>2
    <3> QED BY <1>7, <3>1
  <2> HIDE DEF next
  <2>7. slave'.rxdata = next
    BY <2>4, <2>6
  <2> QED BY <1>10, <2>1, <2>5, <2>6, <2>7 DEF next
<1> QED BY <1>8, <1>9, <1>10 DEF len

\* What a STOP leaves is a slave at rest.
LEMMA StopServed ==
    ASSUME SlaveInv, ServeStop
    PROVE  /\ disturbed' = {} => InStepWithBus'
           /\ disturbed' = {"cut"} => CutShort'
<1>1. /\ slave' = [slave EXCEPT !.hi = 0, !.lo = 0, !.rxdata = Zero, !.count = 0]
      /\ slave \in [write : BOOLEAN, hi : SlaveBytes, lo : SlaveBytes, rxdata : Word,
                    txdata : Word, count : 0..WordBytes + 3]
  BY DEF ServeStop, AfterStop, SlaveInv, SlaveTypeOK
<1>2. slave'.hi = 0 /\ slave'.lo = 0 /\ slave'.rxdata = Zero /\ slave'.count = 0
  BY <1>1
<1>3. /\ addrFlag' = "none" /\ stopFlag' = FALSE /\ txReg' = NoByte
      /\ UNCHANGED <<bus, turn, got, addrFlag, rxReg>>
      /\ stopFlag /\ addrFlag = "none"
      /\ disturbed' = IF AtRest THEN {} ELSE disturbed
  BY DEF ServeStop, master
<1>4. CASE AtRest
  <2>1. bus'.phase = "idle" /\ rxReg' = NoByte
    BY <1>3, <1>4 DEF AtRest
  <2>2. HasGot(0, 0)'
    BY <1>2, SlaveWords DEF HasGot, Zero
  <2> QED BY <1>2, <1>3, <1>4, <2>1, <2>2 DEF InStepWithBus, BusRests
<1>5. CASE ~AtRest
  <2>1. disturbed' = disturbed
    BY <1>3, <1>5
  <2>2. disturbed # {}
    <3>1. disturbed = {} => bus.phase = "idle" /\ rxReg = NoByte
      BY <1>3 DEF SlaveInv, InStepWithBus, BusRests, BusWrites, BusReads, SlaveTypeOK
    <3> QED BY <1>3, <1>5, <3>1 DEF AtRest
  <2>3. disturbed = {"cut"} => bus.phase = "idle" /\ rxReg # NoByte /\ turn = 0
    BY <1>3, <1>5 DEF SlaveInv, CutShort, AtRest
  <2> QED BY <1>2, <1>3, <2>1, <2>2, <2>3 DEF CutShort
<1> QED BY <1>4, <1>5

\* The other interrupts take what the bus has brought.
LEMMA AddrServed ==
    ASSUME SlaveInv, ServeAddr
    PROVE  /\ disturbed' = {} => InStepWithBus'
           /\ disturbed' = {"cut"} => CutShort'
<1>1. /\ slave' = [slave EXCEPT !.write = (addrFlag = "write")]
      /\ slave \in [write : BOOLEAN, hi : SlaveBytes, lo : SlaveBytes, rxdata : Word,
                    txdata : Word, count : 0..WordBytes + 3]
  BY DEF ServeAddr, SlaveInv, SlaveTypeOK
<1>2. /\ slave'.write <=> addrFlag = "write"
      /\ slave'.hi = slave.hi /\ slave'.lo = slave.lo /\ slave'.rxdata = slave.rxdata
      /\ slave'.count = slave.count /\ slave'.txdata = slave.txdata
  BY <1>1
<1>3. /\ addrFlag # "none" /\ addrFlag' = "none"
      /\ UNCHANGED <<bus, turn, got, stopFlag, rxReg, txReg, disturbed>>
  BY DEF ServeAddr, master
<1>4. ASSUME disturbed = {} PROVE InStepWithBus'
  <2>1. \A t, n : HasGot(t, n) => slave'.hi = slave.hi /\ slave'.lo = slave.lo
    BY <1>2
  <2>2. CASE bus.phase = "idle"
    BY <1>3, <1>4, <2>2 DEF SlaveInv, InStepWithBus, BusRests
  <2>3. CASE bus.phase = "write"
    <3>1. BusWrites /\ addrFlag = "write"
      BY <1>3, <1>4, <2>3 DEF SlaveInv, InStepWithBus, BusWrites
    <3>2. HasGot(turn, bus.at)'
      BY <1>2, <1>3, <3>1 DEF HasGot, BusWrites
    <3>3. Transfer' = Transfer
      BY <1>3 DEF Transfer, Header, Reading
    <3> QED BY <1>2, <1>3, <2>3, <3>1, <3>2, <3>3 DEF InStepWithBus, BusWrites
  <2>4. CASE bus.phase = "read"
    <3>1. BusReads
      BY <1>4, <2>4 DEF SlaveInv, InStepWithBus
    <3> QED BY <1>2, <1>3, <2>4, <3>1 DEF InStepWithBus, BusReads
  <2> QED BY <2>2, <2>3, <2>4 DEF SlaveInv, SlaveTypeOK
<1>5. ASSUME disturbed = {"cut"} PROVE CutShort'
  <2>1. CutShort
    BY <1>5 DEF SlaveInv
  <2>2. ~stopFlag /\ bus.phase # "idle" /\ (bus.phase = "read" => addrFlag # "write")
    BY <1>3, <2>1 DEF CutShort
  <2> QED BY <1>2, <1>3, <2>1, <2>2 DEF CutShort
<1> QED BY <1>3, <1>4, <1>5

LEMMA RxServed ==
    ASSUME SlaveInv, ServeRx
    PROVE  /\ disturbed' = {} => InStepWithBus'
           /\ disturbed' = {"cut"} => CutShort'
<1>1. /\ addrFlag = "none" /\ ~stopFlag /\ rxReg # NoByte /\ rxReg' = NoByte
      /\ UNCHANGED <<bus, turn, got, addrFlag, stopFlag, txReg, disturbed>>
      /\ slave' = Counted(Received(slave, rxReg))
  BY DEF ServeRx, master
<1>2. SlaveTypeOK /\ SlaveTypeOK'
  BY InterruptTypes DEF SlaveInv, SlaveInterrupt
<1>3. ASSUME disturbed = {} PROVE InStepWithBus'
  <2>1. bus.phase = "write" /\ BusWrites
    BY <1>1, <1>2, <1>3 DEF SlaveInv, InStepWithBus, BusRests, BusReads, SlaveTypeOK
  <2>2. /\ bus.at > 0 /\ rxReg = Transfer[bus.at] /\ bus.at <= Len(Transfer)
        /\ slave.count = bus.at - 1 /\ HasGot(turn, bus.at - 1) /\ slave.write
    BY <1>1, <2>1 DEF BusWrites
  <2>3. bus.at \in Nat /\ bus.at - 1 \in Nat /\ (bus.at - 1) + 1 = bus.at
    BY <1>2, <2>2 DEF SlaveTypeOK
  <2>4. Len(Transfer) \in Nat
    BY <1>2, TransferLength DEF SlaveTypeOK
  <2>5. /\ slave'.count = bus.at /\ slave'.write = slave.write
        /\ slave'.hi = IF turn # 0 THEN 1 ELSE 0
        /\ slave'.lo = IF bus.at >= 2 /\ turn # 0 THEN turn - 1 ELSE 0
        /\ slave'.rxdata = [i \in 0..WordBytes - 1 |->
                               IF i + 2 < bus.at /\ turn # 0 THEN Info[turn - 1][i] ELSE 0]
    <3> DEFINE n == bus.at - 1
    <3>1. n \in Nat /\ n < Len(Transfer) /\ slave.count = n /\ HasGot(turn, n)
          /\ slave' = Counted(Received(slave, Transfer[n + 1])) /\ n + 1 = bus.at
      BY <1>1, <2>2, <2>3, <2>4
    <3> HIDE DEF n
    <3> QED BY <1>1, <1>2, <3>1, GotOneMore
  <2>6. HasGot(turn, bus.at)'
    <3>1. bus.at >= 1 /\ bus'.at = bus.at /\ turn' = turn
      BY <1>1, <2>2, <2>3
    <3> QED BY <2>5, <3>1 DEF HasGot
  <2>7. Transfer' = Transfer
    BY <1>1 DEF Transfer, Header, Reading
  <2> QED BY <1>1, <2>1, <2>2, <2>5, <2>6, <2>7 DEF InStepWithBus, BusWrites
<1>4. ASSUME disturbed = {"cut"} PROVE CutShort'
  <2>1. CutShort /\ bus.phase # "read"
    BY <1>1, <1>4 DEF SlaveInv, CutShort
  <2>2. /\ slave.lo = 0 /\ slave.rxdata = Zero /\ turn = 0
        /\ slave.count = 0 \/ rxReg = 0
    BY <1>1, <1>2, <2>1 DEF CutShort, SlaveTypeOK
  <2>3. slave'.lo = 0 /\ slave'.rxdata = Zero
    <3> DEFINE Slave == [write : BOOLEAN, hi : SlaveBytes, lo : SlaveBytes, rxdata : Word,
                         txdata : Word, count : 0..WordBytes + 3]
               s == Received(slave, rxReg)
    <3>1. slave \in Slave /\ rxReg \in SlaveBytes
      BY <1>1, <1>2 DEF SlaveTypeOK
    <3>2. s \in Slave
      BY <1>2, <3>1, RxTypes
    <3>3. slave'.lo = s.lo /\ slave'.rxdata = s.rxdata
      BY <1>1, <3>2 DEF Counted
    <3>4. DOMAIN slave.rxdata = 0..WordBytes - 1 /\ WordBytes \in Nat
      BY <3>1, SlaveWords DEF Word
    <3>5. CASE slave.count = 0
      <4>1. -2 \notin DOMAIN slave.rxdata
        BY <3>4
      <4>2. s = [slave EXCEPT !.hi = rxReg, !.lo = 0, !.rxdata = Zero]
        BY <3>1, <3>5, <4>1 DEF Received
      <4> QED BY <3>1, <3>3, <4>2
    <3>6. CASE slave.count = 1
      <4>1. -1 \notin DOMAIN slave.rxdata
        BY <3>4
      <4>2. s = [slave EXCEPT !.lo = rxReg]
        BY <3>1, <3>6, <4>1 DEF Received
      <4> QED BY <2>2, <3>1, <3>3, <3>6, <4>2
    <3>7. CASE slave.count > 1 /\ slave.count - 2 \in DOMAIN slave.rxdata
      <4>1. s = [slave EXCEPT !.rxdata = [slave.rxdata EXCEPT ![slave.count - 2] = rxReg]]
        BY <3>1, <3>7 DEF Received
      <4>2. [slave.rxdata EXCEPT ![slave.count - 2] = rxReg] = Zero
        BY <2>2, <3>4, <3>7 DEF Zero
      <4> QED BY <2>2, <3>1, <3>3, <4>1, <4>2
    <3>8. CASE slave.count > 1 /\ slave.count - 2 \notin DOMAIN slave.rxdata
      <4>1. s = slave
        BY <3>1, <3>8 DEF Received
      <4> QED BY <2>2, <3>3, <4>1
    <3> QED BY <3>1, <3>5, <3>6, <3>7, <3>8
  <2> QED BY <1>1, <2>1, <2>2, <2>3 DEF CutShort
<1> QED BY <1>1, <1>3, <1>4

LEMMA TxServed ==
    ASSUME SlaveInv, ServeTx
    PROVE  /\ disturbed' = {} => InStepWithBus'
           /\ disturbed' = {"cut"} => CutShort'
<1>1. /\ addrFlag = "none" /\ ~stopFlag /\ bus.phase = "read" /\ txReg = NoByte
      /\ txReg' \in ShiftedOut(slave, TxWord(slave))
      /\ slave' = [Counted(slave) EXCEPT !.txdata = TxWord(slave)]
      /\ UNCHANGED <<bus, turn, got, addrFlag, stopFlag, rxReg, disturbed>>
  BY DEF ServeTx, TxEmpty, master
<1>2. SlaveTypeOK
  BY DEF SlaveInv
<1> DEFINE Slave == [write : BOOLEAN, hi : SlaveBytes, lo : SlaveBytes, rxdata : Word,
                     txdata : Word, count : 0..WordBytes + 3]
           word == TxWord(slave)
<1>3. slave \in Slave /\ Counted(slave) \in Slave /\ word \in Word
  BY <1>2, CountedType, TxTypes DEF SlaveTypeOK
<1>4. Counted(slave) = [slave EXCEPT !.count = Counted(slave).count]
  BY <1>3 DEF Counted
<1>5. /\ slave'.write = slave.write /\ slave'.hi = slave.hi /\ slave'.lo = slave.lo
      /\ slave'.rxdata = slave.rxdata /\ slave'.txdata = word
      /\ slave'.count = IF slave.count > WordBytes + 2 THEN slave.count ELSE slave.count + 1
  <2> HIDE DEF word
  <2>1. slave' = [Counted(slave) EXCEPT !.txdata = word]
    BY <1>1 DEF word
  <2>2. Counted(slave) = [slave EXCEPT !.count = IF slave.count > WordBytes + 2
                                                 THEN slave.count ELSE slave.count + 1]
    BY <1>3 DEF Counted
  <2> QED BY <1>3, <2>1, <2>2
<1>6. ASSUME disturbed = {} PROVE InStepWithBus'
  <2>1. BusReads
    BY <1>1, <1>6 DEF SlaveInv, InStepWithBus
  <2> DEFINE k == Len(got)
  <2>2. k \in Nat /\ k <= WordBytes /\ WordBytes \in Nat
    BY <1>2, SlaveWords DEF SlaveTypeOK
  <2>3. slave.count = 2 + k
    BY <1>1, <2>1 DEF BusReads
  <2> HIDE DEF k, word
  <2>4. slave'.count = 2 + k + 1
    BY <1>5, <2>2, <2>3
  <2>5. word \in LiveWords /\ (k > 0 => word = slave.txdata)
    <3>1. CASE k = 0
      <4>1. word = live
        BY <2>1, <2>3, <3>1 DEF word, TxWord, Register, BusReads
      <4> QED BY <1>2, <3>1, <4>1 DEF SlaveTypeOK
    <3>2. CASE k > 0
      <4>1. word = slave.txdata
        BY <2>2, <2>3, <3>2 DEF word, TxWord
      <4> QED BY <2>1, <2>2, <2>3, <3>2, <4>1 DEF BusReads
    <3> QED BY <2>2, <3>1, <3>2
  <2>6. \A i \in 1..k : got[i] = word[i - 1]
    BY <2>1, <2>2, <2>5 DEF BusReads, k
  <2>7. k < WordBytes => txReg' = word[k]
    <3>1. k < WordBytes => slave.count - 2 \in DOMAIN word /\ slave.count >= 2
                           /\ slave.count - 2 = k
      BY <1>3, <2>2, <2>3 DEF Word, word
    <3> QED BY <1>1, <3>1 DEF ShiftedOut, word
  <2>8. txReg' # NoByte
    BY <1>1, <1>2, TxTypes, SlaveAssumption
  <2>9. got' = got /\ Len(got') = k
    BY <1>1 DEF k
  <2> QED BY <1>1, <1>5, <2>1, <2>2, <2>4, <2>5, <2>6, <2>7, <2>8, <2>9
          DEF InStepWithBus, BusReads
<1>7. ASSUME disturbed = {"cut"} PROVE CutShort'
  <2>1. CutShort
    BY <1>7 DEF SlaveInv
  <2> QED BY <1>1, <1>5, <2>1 DEF CutShort
<1> QED BY <1>1, <1>6, <1>7

\* The master and the bus go on.
LEMMA TransferStarts ==
    ASSUME SlaveInv, StartTransfer
    PROVE  /\ disturbed' = {} => InStepWithBus'
           /\ disturbed' = {"cut"} => CutShort'
<1>1. /\ bus.phase = "idle" /\ addrFlag = "none" /\ addrFlag' = "write"
      /\ bus'.phase = "write" /\ bus'.at = 0 /\ got' = <<>>
      /\ UNCHANGED <<turn, stopFlag, rxReg, txReg, slave>>
      /\ (~stopFlag /\ rxReg = NoByte /\ disturbed' = disturbed) \/ "late" \in disturbed'
  BY EventDisturbs DEF StartTransfer
<1>2. ASSUME disturbed' = {} PROVE InStepWithBus'
  <2>1. ~stopFlag /\ rxReg = NoByte /\ disturbed = {}
    BY <1>1, <1>2
  <2>2. txReg = NoByte /\ slave.count = 0 /\ HasGot(0, 0)
    BY <1>1, <2>1 DEF SlaveInv, InStepWithBus, BusRests
  <2>3. HasGot(turn, 0)
    BY <2>2, SlaveWords DEF HasGot
  <2>4. HasGot(turn, bus.at)'
    BY <1>1, <2>3 DEF HasGot
  <2>5. Len(Transfer') \in Nat
    BY <1>1, TransferLength DEF Transfer, Header, Reading, SlaveInv, SlaveTypeOK
  <2> QED BY <1>1, <2>1, <2>2, <2>4, <2>5 DEF InStepWithBus, BusWrites
<1>3. ASSUME disturbed' = {"cut"} PROVE CutShort'
  <2>1. ~stopFlag /\ rxReg = NoByte /\ CutShort
    BY <1>1, <1>3 DEF SlaveInv
  <2> QED BY <1>1, <2>1 DEF CutShort
<1> QED BY <1>2, <1>3

LEMMA ByteSent ==
    ASSUME SlaveInv, SendByte
    PROVE  /\ disturbed' = {} => InStepWithBus'
           /\ disturbed' = {"cut"} => CutShort'
<1>1. /\ bus.phase = "write" /\ addrFlag = "none" /\ rxReg = NoByte /\ bus.at < Len(Transfer)
      /\ rxReg' = Transfer[bus.at + 1] /\ bus' = [bus EXCEPT !.at = @ + 1]
      /\ UNCHANGED <<turn, got, addrFlag, stopFlag, txReg, slave>>
      /\ (~stopFlag /\ disturbed' = disturbed) \/ "late" \in disturbed'
  BY EventDisturbs DEF SendByte
<1>2. /\ bus \in [phase : {"idle", "write", "read"}, at : 0..2 + WordBytes]
      /\ Len(Transfer) \in Nat /\ Transfer \in Seq(SlaveBytes)
  BY TransferLength DEF SlaveInv, SlaveTypeOK
<1>3. bus'.phase = "write" /\ bus'.at = bus.at + 1 /\ bus.at \in Nat
  BY <1>1, <1>2
<1>4. Transfer' = Transfer
  BY <1>1 DEF Transfer, Header, Reading
<1>5. rxReg' # NoByte
  <2>1. bus.at + 1 \in 1..Len(Transfer)
    BY <1>1, <1>2, <1>3
  <2> QED BY <1>1, <1>2, <2>1, SlaveAssumption
<1>6. ASSUME disturbed' = {} PROVE InStepWithBus'
  <2>1. BusWrites
    BY <1>1, <1>6 DEF SlaveInv, InStepWithBus
  <2>2. slave.count = bus.at /\ HasGot(turn, bus.at)
    BY <1>1, <2>1 DEF BusWrites
  <2>3. bus'.at - 1 = bus.at /\ bus'.at > 0 /\ bus'.at <= Len(Transfer)
    BY <1>1, <1>2, <1>3
  <2>4. HasGot(turn, bus.at - 1)'
    BY <1>1, <2>2, <2>3 DEF HasGot
  <2> QED BY <1>1, <1>3, <1>4, <1>5, <2>1, <2>2, <2>3, <2>4 DEF InStepWithBus, BusWrites
<1>7. ASSUME disturbed' = {"cut"} PROVE CutShort'
  <2>1. CutShort /\ turn = 0
    BY <1>1, <1>7 DEF SlaveInv, CutShort
  <2>2. rxReg' = 0
    <3>1. Len(Transfer) = 2
      BY <2>1, TransferBytes DEF SlaveInv, SlaveTypeOK
    <3>2. bus.at \in {0, 1}
      BY <1>1, <1>3, <3>1
    <3> QED BY <1>1, <2>1, <3>2, TransferBytes DEF SlaveInv, SlaveTypeOK
  <2> QED BY <1>1, <1>3, <2>1, <2>2 DEF CutShort
<1> QED BY <1>6, <1>7

LEMMA ReadRestarts ==
    ASSUME SlaveInv, RestartToRead
    PROVE  /\ disturbed' = {} => InStepWithBus'
           /\ disturbed' = {"cut"} => CutShort'
<1>1. /\ bus.phase = "write" /\ addrFlag = "none" /\ turn = 0 /\ bus.at = Len(Transfer)
      /\ addrFlag' = "read" /\ bus'.phase = "read"
      /\ UNCHANGED <<turn, got, stopFlag, rxReg, txReg, slave>>
      /\ (~stopFlag /\ rxReg = NoByte /\ disturbed' = disturbed) \/ "late" \in disturbed'
  BY EventDisturbs DEF RestartToRead, Reading
<1>2. ASSUME disturbed' = {} PROVE InStepWithBus'
  <2>1. BusWrites /\ rxReg = NoByte
    BY <1>1, <1>2 DEF SlaveInv, InStepWithBus
  <2>2. bus.at = 2
    BY <1>1, TransferBytes DEF SlaveInv, SlaveTypeOK
  <2>3. slave.count = 2 /\ HasGot(0, 2) /\ got = <<>> /\ txReg = NoByte
    BY <1>1, <2>1, <2>2 DEF BusWrites
  <2>4. slave.hi = 0 /\ slave.lo = 0 /\ Len(got) = 0
    BY <2>3 DEF HasGot
  <2> QED BY <1>1, <2>1, <2>3, <2>4 DEF InStepWithBus, BusReads, BusWrites
<1>3. ASSUME disturbed' = {"cut"} PROVE CutShort'
  <2>1. ~stopFlag /\ rxReg = NoByte /\ CutShort
    BY <1>1, <1>3 DEF SlaveInv
  <2> QED BY <1>1, <2>1 DEF CutShort
<1> QED BY <1>2, <1>3

LEMMA ByteReceived ==
    ASSUME SlaveInv, ReceiveByte
    PROVE  /\ disturbed' = {} => InStepWithBus'
           /\ disturbed' = {"cut"} => CutShort'
<1>1. /\ bus.phase = "read" /\ addrFlag = "none" /\ txReg # NoByte /\ Len(got) < WordBytes
      /\ got' = Append(got, txReg) /\ txReg' = NoByte
      /\ UNCHANGED <<bus, turn, addrFlag, stopFlag, rxReg, slave, disturbed>>
  BY DEF ReceiveByte
<1>2. ASSUME disturbed = {} PROVE InStepWithBus'
  <2>1. BusReads /\ txReg = slave.txdata[Len(got)]
    BY <1>1, <1>2 DEF SlaveInv, InStepWithBus, BusReads
  <2> DEFINE k == Len(got)
  <2>2. got \in Seq(SlaveBytes) /\ txReg \in SlaveBytes /\ k \in Nat
    BY <1>1 DEF SlaveInv, SlaveTypeOK
  <2>3. /\ Len(got') = k + 1 /\ got'[k + 1] = txReg
        /\ \A i \in 1..k : got'[i] = got[i]
    BY <1>1, <2>2
  <2>4. slave.count = 2 + k + 1 /\ slave.txdata \in LiveWords
    BY <1>1, <2>1, <2>2 DEF BusReads
  <2>5. (\A i \in 1..k : got[i] = slave.txdata[i - 1]) /\ txReg = slave.txdata[k]
    BY <2>1 DEF BusReads
  <2> HIDE DEF k
  <2>6. \A i \in 1..k + 1 : got'[i] = slave.txdata[i - 1]
    BY <2>2, <2>3, <2>5
  <2>7. slave.count = 2 + (k + 1)
    BY <2>2, <2>4
  <2> QED BY <1>1, <2>1, <2>3, <2>4, <2>6, <2>7 DEF InStepWithBus, BusReads
<1>3. ASSUME disturbed = {"cut"} PROVE CutShort'
  <2>1. CutShort
    BY <1>3 DEF SlaveInv
  <2> QED BY <1>1, <2>1 DEF CutShort
<1> QED BY <1>1, <1>2, <1>3

\* The end of a transfer, by the master, in time
LEMMA TransferStops ==
    ASSUME SlaveInv, Stop
    PROVE  /\ disturbed' = {} => InStepWithBus'
           /\ disturbed' = {"cut"} => CutShort'
<1>1. /\ addrFlag = "none"
      /\ \/ bus.phase = "write" /\ turn # 0 /\ bus.at = Len(Transfer)
         \/ bus.phase = "read" /\ Len(got) = WordBytes
      /\ stopFlag' = TRUE /\ bus'.phase = "idle" /\ turn' = (turn + 1) % (1 + ScratchSize)
      /\ UNCHANGED <<addrFlag, rxReg, slave>>
      /\ (~stopFlag /\ rxReg = NoByte /\ disturbed' = disturbed) \/ "late" \in disturbed'
  BY EventDisturbs DEF Stop, TransferEnds, Reading
<1>2. turn \in 0..ScratchSize /\ ScratchSize \in Nat /\ 0 < ScratchSize
  BY SlaveWords DEF SlaveInv, SlaveTypeOK
<1>3. turn' = IF turn = ScratchSize THEN 0 ELSE turn + 1
  <2>1. CASE turn = ScratchSize
    <3>1. (1 + ScratchSize) % (1 + ScratchSize) = 0
      BY <1>2
    <3> QED BY <1>1, <1>2, <2>1, <3>1
  <2>2. CASE turn # ScratchSize
    <3>1. turn + 1 \in 0..ScratchSize
      BY <1>2, <2>2
    <3>2. (turn + 1) % (1 + ScratchSize) = turn + 1
      BY <1>2, <3>1
    <3> QED BY <1>1, <2>2, <3>2
  <2> QED BY <2>1, <2>2
<1>4. turn' = 1 <=> turn = 0
  BY <1>2, <1>3
<1>5. ASSUME disturbed' = {} PROVE InStepWithBus'
  <2>1. ~stopFlag /\ rxReg = NoByte /\ InStepWithBus
    BY <1>1, <1>5 DEF SlaveInv
  <2>2. CASE bus.phase = "write"
    <3>1. BusWrites /\ turn # 0 /\ bus.at = 2 + WordBytes
      BY <1>1, <1>2, <2>1, <2>2, TransferBytes DEF InStepWithBus
    <3>2. slave.write /\ HasGot(turn, WordBytes + 2)
      BY <1>1, <2>1, <3>1, SlaveWords DEF BusWrites
    <3>3. TurnBefore' = turn
      BY <1>2, <1>3, <3>1 DEF TurnBefore
    <3>4. HasGot(TurnBefore, WordBytes + 2)'
      BY <1>1, <3>2, <3>3 DEF HasGot
    <3> QED BY <1>1, <1>4, <2>1, <3>1, <3>2, <3>4 DEF InStepWithBus, BusRests
  <2>3. CASE bus.phase = "read"
    <3>1. BusReads
      BY <2>1, <2>3 DEF InStepWithBus
    <3> QED BY <1>1, <1>4, <2>1, <3>1 DEF InStepWithBus, BusReads, BusRests
  <2> QED BY <1>1, <2>2, <2>3
<1>6. ASSUME disturbed' = {"cut"} PROVE CutShort'
  <2>1. ~stopFlag /\ rxReg = NoByte /\ CutShort
    BY <1>1, <1>6 DEF SlaveInv
  <2>2. turn = 0 /\ bus.phase = "read" /\ ~slave.write
    BY <1>1, <2>1 DEF CutShort
  <2> QED BY <1>1, <1>4, <2>1, <2>2 DEF CutShort
<1> QED BY <1>5, <1>6

\* What the slave has of a transfer that is cut is the begin of its word.
LEMMA BeginIsHarmless ==
    ASSUME NEW t \in 0..ScratchSize, NEW n \in Nat, HasGot(t, n)
    PROVE  Harmless
<1> SUFFICES ASSUME slave.hi = 1, slave.lo \in Scratch
             PROVE  Prefix(slave.rxdata, Info[slave.lo])
  BY DEF Harmless
<1>1. t # 0 /\ WordBytes \in Nat
  BY SlaveWords DEF HasGot
<1>2. CASE n < 2
  <2>1. 0 \in 0..WordBytes
    BY <1>1
  <2>2. slave.rxdata = [i \in 0..WordBytes - 1 |-> IF i < 0 THEN Info[slave.lo][i] ELSE 0]
    BY <1>1, <1>2 DEF HasGot
  <2> QED BY <2>1, <2>2 DEF Prefix
<1>3. CASE n >= 2
  <2>1. slave.lo = t - 1
    BY <1>1, <1>3 DEF HasGot
  <2> DEFINE m == IF n - 2 <= WordBytes THEN n - 2 ELSE WordBytes
  <2>2. m \in 0..WordBytes
    BY <1>1, <1>3
  <2>3. \A i \in 0..WordBytes - 1 : (i + 2 < n) <=> (i < m)
    BY <1>1, <1>3
  <2> HIDE DEF m
  <2>4. slave.rxdata = [i \in 0..WordBytes - 1 |-> IF i < m THEN Info[slave.lo][i] ELSE 0]
    BY <1>1, <2>1, <2>3 DEF HasGot
  <2> QED BY <2>2, <2>4 DEF Prefix
<1> QED BY <1>2, <1>3

LEMMA TransferCut ==
    ASSUME SlaveInv, Cut
    PROVE  /\ disturbed' # {}
           /\ disturbed' = {"cut"} => CutShort'
<1>1. /\ addrFlag = "none" /\ bus.phase \in {"write", "read"}
      /\ stopFlag' = TRUE /\ disturbed' = disturbed \cup {"cut"}
      /\ bus'.phase = "idle" /\ turn' = 0
      /\ UNCHANGED <<addrFlag, rxReg, slave>>
  BY DEF Cut, Fault, TransferEnds
<1>2. ASSUME disturbed = {}, slave.write PROVE Harmless
  <2>1. BusWrites
    BY <1>1, <1>2 DEF SlaveInv, InStepWithBus, BusReads
  <2>2. turn \in 0..ScratchSize /\ bus.at \in Nat
    BY DEF SlaveInv, SlaveTypeOK
  <2>3. \E n \in Nat : HasGot(turn, n)
    <3>1. bus.at > 0 => bus.at - 1 \in Nat
      BY <2>2
    <3> QED BY <2>1, <2>2, <3>1 DEF BusWrites
  <2> QED BY <2>2, <2>3, BeginIsHarmless
<1>3. ASSUME disturbed = {"cut"}, slave.write PROVE Harmless
  <2>1. slave.lo = 0 /\ slave.rxdata = Zero
    BY <1>1, <1>3 DEF SlaveInv, CutShort
  <2>2. HasGot(0, 0) => Harmless
    BY SlaveWords, BeginIsHarmless
  <2>3. Prefix(Zero, Info[0])
    <3>1. 0 \in 0..WordBytes
      BY SlaveWords
    <3>2. Zero = [i \in 0..WordBytes - 1 |-> IF i < 0 THEN Info[0][i] ELSE 0]
      BY SlaveWords DEF Zero
    <3> QED BY <3>1, <3>2 DEF Prefix
  <2> QED BY <2>1, <2>3 DEF Harmless
<1>4. disturbed' = {"cut"} => disturbed = {} \/ disturbed = {"cut"}
  BY <1>1 DEF SlaveInv, SlaveTypeOK
<1>5. slave.write /\ disturbed' = {"cut"} => Harmless'
  BY <1>1, <1>2, <1>3, <1>4 DEF Harmless
<1> QED BY <1>1, <1>5 DEF CutShort

\* The slave keeps step with the bus.
LEMMA SlaveInvariant == SlaveSpec => []SlaveInv
<1>1. SlaveInit => InStepWithBus /\ disturbed = {}
  BY SlaveWords DEF SlaveInit, InStepWithBus, BusRests, HasGot, Zero
<1>2. ASSUME SlaveInv, [SlaveNext]_slaveVars
      PROVE  /\ disturbed' = {} => InStepWithBus'
             /\ disturbed' = {"cut"} => CutShort'
  <2>1. CASE SlaveInterrupt
    BY <1>2, <2>1, AddrServed, StopServed, TxServed, RxServed DEF SlaveInterrupt
  <2>2. CASE BusStep
    BY <1>2, <2>2, TransferStarts, ByteSent, ReadRestarts, ByteReceived, TransferStops
       DEF BusStep
  <2>3. CASE Cut
    BY <1>2, <2>3, TransferCut
  <2>4. CASE Vanish
    BY <2>4 DEF Vanish, Fault
  <2>5. CASE LiveChanges \/ Poll \/ UNCHANGED slaveVars
    <3>1. UNCHANGED <<bus, turn, got, addrFlag, stopFlag, rxReg, txReg, slave, disturbed>>
      BY <2>5 DEF LiveChanges, Poll, slaveVars, master, periph
    <3>2. InStepWithBus => InStepWithBus'
      BY <3>1 DEF InStepWithBus, BusRests, BusWrites, BusReads, HasGot, TurnBefore, Transfer,
                  Header, Reading
    <3>3. CutShort => CutShort'
      BY <3>1 DEF CutShort, Harmless
    <3> QED BY <1>2, <3>1, <3>2, <3>3 DEF SlaveInv
  <2> QED BY <1>2, <2>1, <2>2, <2>3, <2>4, <2>5 DEF SlaveNext
<1> DEFINE Keeps == /\ disturbed = {} => InStepWithBus
                    /\ disturbed = {"cut"} => CutShort
<1>3. SlaveInit => Keeps
  BY <1>1
<1>4. SlaveTypeOK /\ Keeps /\ [SlaveNext]_slaveVars => Keeps'
  BY <1>2 DEF SlaveInv
<1>5. SlaveTypeOK /\ Keeps => SlaveInv
  BY DEF SlaveInv
<1> HIDE DEF Keeps
<1> QED BY <1>3, <1>4, <1>5, SlaveTypeCorrect, PTL DEF SlaveSpec

\* From rest on, every word that the master reads is one that the register has held, and
\* never the bytes of two, although it changes under way: for registers of any size.
THEOREM ReadsAreWhole == SlaveSpec => []ReadsArriveWhole
<1>1. ASSUME SlaveInv, disturbed = {}, bus.phase = "read", Len(got) = WordBytes
      PROVE  [i \in 0..WordBytes - 1 |-> got[i + 1]] \in LiveWords
  <2>1. BusReads
    BY <1>1 DEF SlaveInv, InStepWithBus
  <2>2. WordBytes \in Nat /\ 0 < WordBytes
    BY SlaveWords
  <2>3. slave.txdata \in LiveWords
    BY <1>1, <2>1, <2>2 DEF BusReads
  <2>4. \A i \in 0..WordBytes - 1 : got[i + 1] = slave.txdata[i]
    <3>1. \A i \in 0..WordBytes - 1 : i + 1 \in 1..WordBytes /\ (i + 1) - 1 = i
      BY <2>2
    <3> QED BY <1>1, <2>1, <3>1 DEF BusReads
  <2>5. slave.txdata \in [0..WordBytes - 1 -> SlaveBytes]
    BY <1>1 DEF SlaveInv, SlaveTypeOK, Word
  <2>6. [i \in 0..WordBytes - 1 |-> got[i + 1]] = slave.txdata
    BY <2>4, <2>5
  <2> QED BY <2>3, <2>6
<1>2. SlaveInv => ReadsArriveWhole
  BY <1>1 DEF ReadsArriveWhole
<1> QED BY <1>2, SlaveInvariant, PTL

\* From rest on, a write puts its own word into its own register, whole, and nothing else
\* changes the scratch memory; and one that is cut leaves a prefix of its word, or
\* clears a register: whatever bytes it was cut after, and however often.
THEOREM WritesAreWhole == SlaveSpec => WordsArriveWhole
<1> DEFINE reg == (turn + ScratchSize - 1) % (1 + ScratchSize)
           Whole == disturbed = {} =>
               scratch' = IF stopFlag /\ ~stopFlag' /\ turn # 1
                          THEN [scratch EXCEPT ![reg] = Info[reg]] ELSE scratch
           Begin == disturbed = {"cut"} =>
               \A s \in Scratch : scratch'[s] # scratch[s] => Prefix(scratch'[s], Info[s])
<1>1. ASSUME SlaveInv, ServeStop PROVE Whole /\ Begin
  <2>1. /\ stopFlag /\ ~stopFlag'
        /\ scratch' = IF slave.write THEN ScratchAfter(slave.hi, slave.lo, slave.rxdata)
                      ELSE scratch
    BY <1>1 DEF ServeStop
  <2>2. ASSUME disturbed = {}
        PROVE  scratch' = IF turn # 1 THEN [scratch EXCEPT ![reg] = Info[reg]] ELSE scratch
    <3>1. bus.phase = "idle" /\ BusRests
      BY <1>1, <2>1, <2>2 DEF SlaveInv, SlaveTypeOK, InStepWithBus, BusWrites, BusReads
    <3>2. CASE turn = 1
      BY <2>1, <3>1, <3>2 DEF BusRests
    <3>3. CASE turn # 1
      <4>1. slave.write /\ HasGot(TurnBefore, WordBytes + 2)
        BY <2>1, <3>1, <3>3 DEF BusRests
      <4>2. /\ turn \in 0..ScratchSize /\ ScratchSize \in Nat /\ 0 < ScratchSize
            /\ WordBytes \in Nat /\ 0 < WordBytes
        BY <1>1, SlaveWords DEF SlaveInv, SlaveTypeOK
      <4>3. TurnBefore \in 1..ScratchSize /\ TurnBefore # 0
        BY <3>3, <4>2 DEF TurnBefore
      <4>4. reg = TurnBefore - 1
        <5>1. CASE turn = 0
          <6>1. turn + ScratchSize - 1 = ScratchSize - 1 /\ ScratchSize - 1 \in 0..ScratchSize
            BY <4>2, <5>1
          <6>2. (ScratchSize - 1) % (1 + ScratchSize) = ScratchSize - 1
            BY <4>2, <6>1
          <6> QED BY <5>1, <6>1, <6>2 DEF TurnBefore
        <5>2. CASE turn # 0
          <6>1. turn + ScratchSize - 1 = (turn - 2) + (1 + ScratchSize) /\ turn - 2 \in 0..ScratchSize
            BY <3>3, <4>2, <5>2
          <6>2. ((turn - 2) + (1 + ScratchSize)) % (1 + ScratchSize) = turn - 2
            BY <4>2, <6>1
          <6>3. TurnBefore - 1 = turn - 2
            BY <4>2, <5>2 DEF TurnBefore
          <6> QED BY <6>1, <6>2, <6>3
        <5> QED BY <5>1, <5>2
      <4>5. slave.hi = 1 /\ slave.lo = reg
        BY <4>1, <4>2, <4>3, <4>4 DEF HasGot
      <4>6. reg \in Scratch /\ Info[reg] \in Word
        BY <4>3, <4>4, SlaveWords
      <4>7. slave.rxdata = Info[reg]
        <5>1. \A i \in 0..WordBytes - 1 : i + 2 < WordBytes + 2
          BY <4>2
        <5>2. slave.rxdata = [i \in 0..WordBytes - 1 |-> Info[reg][i]]
          BY <4>1, <4>3, <4>4, <5>1 DEF HasGot
        <5> QED BY <4>6, <5>2 DEF Word
      <4> HIDE DEF reg
      <4> QED BY <2>1, <3>3, <4>1, <4>5, <4>6, <4>7 DEF ScratchAfter
    <3> QED BY <3>2, <3>3
  <2>3. ASSUME disturbed = {"cut"} PROVE Begin
    <3>1. slave.write => Harmless
      BY <1>1, <2>1, <2>3 DEF SlaveInv, CutShort
    <3>2. scratch \in [Scratch -> Word]
      BY <1>1 DEF SlaveInv, SlaveTypeOK
    <3> QED BY <2>1, <3>1, <3>2 DEF ScratchAfter, Harmless
  <2> QED BY <2>1, <2>2, <2>3
<1>2. ASSUME SlaveInv, [SlaveNext]_slaveVars, ~ServeStop PROVE Whole /\ Begin
  <2>1. scratch' = scratch
    BY <1>2 DEF SlaveNext, SlaveInterrupt, ServeAddr, ServeTx, ServeRx, BusStep, StartTransfer,
       SendByte, RestartToRead, ReceiveByte, Stop, Event, Cut, Vanish, LiveChanges, Poll, slaveVars
  <2>2. stopFlag => stopFlag'
    BY <1>2 DEF SlaveNext, SlaveInterrupt, ServeAddr, ServeTx, ServeRx, BusStep, StartTransfer,
       SendByte, RestartToRead, ReceiveByte, Stop, Cut, Vanish, LiveChanges, Poll, slaveVars,
       periph
  <2> QED BY <2>1, <2>2
<1>3. SlaveInv /\ [SlaveNext]_slaveVars
        => /\ [disturbed = {} =>
                 scratch' = IF stopFlag /\ ~stopFlag' /\ turn # 1
                            THEN LET r == (turn + ScratchSize - 1) % (1 + ScratchSize)
                                 IN [scratch EXCEPT ![r] = Info[r]]
                            ELSE scratch]_slaveVars
           /\ [disturbed = {"cut"} =>
                 \A r \in Scratch : scratch'[r] # scratch[r] => Prefix(scratch'[r], Info[r])]_slaveVars
  BY <1>1, <1>2
<1> QED BY <1>3, SlaveInvariant, PTL DEF SlaveSpec, WordsArriveWhole, WritesArriveWhole,
                                          CutLeavesPrefix

=============================================================================
