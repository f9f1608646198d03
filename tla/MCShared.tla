------------------------------ MODULE MCShared ------------------------------
(***************************************************************************)
(* What tasks and interrupts share: the two ends of the I2C buses, the     *)
(* log, the Ethernet interface and the serial console.  They have nothing  *)
(* in common, so that the initial state chooses one, and the others rest   *)
(* in one initial state each.                                              *)
(***************************************************************************)
EXTENDS I2cDriver, VxsSlave, LogBuffer, EthLink, EthRx, EthTx, Tty, Cli

CONSTANTS t1, t2, t3, summary, sensors

ThreeTasks == {t1, t2, t3}
TwoWords == [r \in 0..1 |-> [i \in 0..1 |-> IF i = r THEN 1 ELSE 2]]
TwoValues == {TwoWords[0], TwoWords[1]}
TwoPages == {summary, sensors}
OtherPage == [page \in TwoPages |-> IF page = summary THEN sensors ELSE summary]

VARIABLE unit   \* what runs

Units == {"i2c", "slave", "log", "link", "rx", "tx", "tty", "screen", "keys"}
keyVars == <<lineVars, ttyrx, esc, escbuf, powerKey, sizeVars>>
consoleVars == <<ttyVars, keyVars, screenVars>>
sharedVars == <<unit, vars, slaveVars, logVars, ethVars, rxVars, txVars, consoleVars>>

SharedInit ==
    /\ unit \in Units
    /\ Init /\ SlaveInit /\ LogInit /\ EthInit /\ RxInit /\ TxInit
    /\ TtyInit /\ CliInit
    /\ unit # "slave" => live = TwoWords[0]
    /\ unit # "link" => linkUp /\ pbufsLast
    /\ unit # "keys" => termSize = FirstSize

\* An assert that fails stops the firmware.
I2cMaster ==
    /\ unit = "i2c"
    /\ Next \/ ((\E t \in Tasks : pc[t] = "asserted") /\ UNCHANGED vars)
    /\ UNCHANGED <<unit, slaveVars, logVars, ethVars, rxVars, txVars, consoleVars>>
I2cSlave ==
    /\ unit = "slave" /\ SlaveNext
    /\ UNCHANGED <<unit, vars, logVars, ethVars, rxVars, txVars, consoleVars>>
Logs ==
    /\ unit = "log" /\ LogNext
    /\ UNCHANGED <<unit, vars, slaveVars, ethVars, rxVars, txVars, consoleVars>>
Link ==
    /\ unit = "link" /\ EthNext
    /\ UNCHANGED <<unit, vars, slaveVars, logVars, rxVars, txVars, consoleVars>>
Receive ==
    /\ unit = "rx" /\ RxNext
    /\ UNCHANGED <<unit, vars, slaveVars, logVars, ethVars, txVars, consoleVars>>
Send ==
    /\ unit = "tx" /\ TxNext
    /\ UNCHANGED <<unit, vars, slaveVars, logVars, ethVars, rxVars, consoleVars>>

Network == Link \/ Receive \/ Send
elsewhere == <<unit, vars, slaveVars, logVars, ethVars, rxVars, txVars>>

Prints == unit = "tty" /\ TtyNext /\ UNCHANGED <<elsewhere, keyVars, screenVars>>
Draws == unit = "screen" /\ ScreenNext /\ UNCHANGED <<elsewhere, ttyVars, keyVars>>
Keyboard == unit = "keys" /\ CliNext /\ UNCHANGED <<elsewhere, ttyVars, drawVars>>

Console == Prints \/ Draws \/ Keyboard

SharedSpec ==
    /\ SharedInit
    /\ [][I2cMaster \/ I2cSlave \/ Logs \/ Network \/ Console]_sharedVars
    /\ \A t \in Tasks : WF_vars(unit = "i2c" /\ Step(t))
    /\ WF_slaveVars(unit = "slave" /\ SlaveInterrupt)
    /\ WF_slaveVars(unit = "slave" /\ BusStep)
    /\ WF_slaveVars(unit = "slave" /\ Poll)
    /\ WF_logVars(unit = "log" /\ Display)
    /\ \A w \in LogWriters : WF_logVars(unit = "log" /\ Write(w))
    /\ WF_ethVars(unit = "link" /\ PhyThread)
    /\ WF_ethVars(unit = "link" /\ TcpipThread)
    /\ WF_screenVars(unit = "screen" /\ DisplayTask)
    /\ SF_screenVars(unit = "screen" /\ \E due \in SUBSET Kinds :
                                            "repaint" \in due /\ DisplayRuns(due))
    /\ WF_cliVars(unit = "keys" /\ Terminal)
    /\ WF_cliVars(unit = "keys" /\ CliTask)
    /\ WF_cliVars(unit = "keys" /\ DisplayAsks)
    /\ WF_cliVars(unit = "keys" /\ DisplayTimer)

-----------------------------------------------------------------------------

\* Every variable stays in its type.
SharedTypesOK ==
    /\ TypeOK /\ SlaveTypeOK /\ LogTypeOK /\ EthTypeOK /\ RxTypeOK /\ TxTypeOK
    /\ TtyTypeOK /\ ScreenTypeOK /\ CliTypeOK

\* What one task hands to another is not lost or mixed up, whatever comes in between.
\* The ring of the log holds the last messages whole, and so does the screen; the console
\* loses no character but one that an early interrupt has exposed, and waits for none in
\* vain; a screen that is wrong is known to be; each key has its effect once; the words
\* of the VXS slave are read whole; and the display agrees with the interface on the link.
SharedKeep ==
    /\ LogHoldsLatest /\ LinesWhole
    /\ OnlyExposedLost /\ FullMeansServed
    /\ unit = "screen" => WrongIsKnown
    /\ unit = "keys" => KeysHonoured
    /\ ReadsArriveWhole /\ LinkIsShown

\* No step puts a word into the scratch memory of the slave that is torn or of another
\* transfer, or ends a series of announcements.
SharedStepsKeep == WordsArriveWhole /\ NoSeriesEnds

\* Both ends of the I2C buses serve, whatever went wrong in the transfers.  Every call of
\* the master returns.  Once the faults are over (and it is the slave that runs) the
\* scratch memory and the polled copy are those of the master for good.
BusServes == CallsReturn /\ (unit = "slave" => RegistersHeal)

\* In the end the screen shows the last messages of the log and the chosen page, whatever
\* flag was lost, and the display has learnt the size of the terminal.
ConsoleServes ==
    /\ ShowsLatest
    /\ unit = "screen" => ScreenFollows
    /\ unit = "keys" => SizeLearnt
=============================================================================
