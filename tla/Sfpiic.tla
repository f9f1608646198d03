------------------------------- MODULE Sfpiic -------------------------------
(***************************************************************************)
(* The SFP and QSFP modules of a board, behind a switch that connects one  *)
(* of them at a time to the I2C bus of the power task: the state machine,  *)
(* the pass over the channels and the update of a channel (src/dev/sfpiic).*)
(*                                                                         *)
(* A user plugs modules in and out at any time, in the middle of an update *)
(* too.  What is read from a module is the module itself here: status      *)
(* fields hold the module they describe.  The temperatures and powers that *)
(* are read along with the identity are left out.                          *)
(***************************************************************************)
EXTENDS Naturals

CONSTANTS
    SfpChannels,    \* SFPIIC_CH_CNT
    Modules,        \* the modules there are
    KindOf,         \* the kind of every module, from its first byte
    NoModule,       \* an empty slot; fields that were cleared
    SfpResetDelay,  \* POWERON_DELAY_TICKS
    SfpPollDelay,   \* POLL_DELAY_TICKS
    SfpErrorDelay,  \* ERROR_DELAY_TICKS
    MaxSfpTicks,    \* saturation of the elapsed time
    MaxSwaps        \* bound: how often a module is plugged in or out

\* The first byte: SFF8024_ID_SFP; _QSFP_PLUS and _QSFP28; _QSFP; _CXP; any other
ModuleKind == {"SFP", "QSFP+", "QSFP", "CXP", "other"}

ASSUME SfpiicAssumption ==
    /\ SfpChannels \in Nat \ {0}
    /\ KindOf \in [Modules -> ModuleKind] /\ NoModule \notin Modules
    /\ {MaxSfpTicks, MaxSwaps} \subseteq Nat
    /\ {SfpResetDelay, SfpPollDelay, SfpErrorDelay} \subseteq 0..MaxSfpTicks - 1

Channels == 0..SfpChannels - 1

VARIABLES
    sfpState,   \* priv.fsm_state
    sfpTicks,   \* time since priv.stateStartTick
    sfpDevice,  \* dev.device_status
    update,     \* where dev_sfpiic_update is: the channel, the step of its update,
                \*     what the lower page was read from
    status,     \* priv.status.sfp
    switch,     \* the channel that the switch connects, or SfpChannels
    slots,      \* environment: the module in every slot
    txDisable,  \* its TX_DISABLE register: what of "lanes" and "reserved" is set
    cdr,        \* its CDR register is not 0
    sfpPower,   \* enable_power && system_power_present
    sfpHealth,  \* environment: transfers may fail; never fail; or the switch is dead
    swaps       \* environment: how often a module was plugged in or out

sfpTask == <<sfpState, sfpTicks, sfpDevice>>
sfpEnv == <<slots, sfpPower, sfpHealth, swaps>>
sfpVars == <<sfpTask, update, status, switch, txDisable, cdr, sfpEnv>>

SfpState == {"SHUTDOWN", "RESET", "RUN", "PAUSE", "ERROR"}
Step == {"select", "id", "lower", "upper", "clear", "dom", "enable"}
Slot == Modules \cup {NoModule}
ChannelStatus ==
    [present : BOOLEAN, supported : BOOLEAN, kind : ModuleKind \cup {"none"},
     vendor : Slot, dom : BOOLEAN]
Cleared == [present |-> FALSE, supported |-> FALSE, kind |-> "none",
            vendor |-> NoModule, dom |-> FALSE]
Idle == [ch |-> SfpChannels, step |-> "select", lower |-> NoModule]

-----------------------------------------------------------------------------
(* The state machine; RUN starts a pass over the channels.                 *)

SfpTicks(d) == IF sfpTicks + d > MaxSfpTicks THEN MaxSfpTicks ELSE sfpTicks + d

Go(to) ==
    /\ sfpState' = to
    /\ sfpTicks' = IF to # sfpState THEN 0 ELSE SfpTicks(1)

SwitchAnswers == CASE sfpHealth = "good" -> {TRUE}
                   [] sfpHealth = "dead" -> {FALSE}
                   [] OTHER -> BOOLEAN

\* Mutant: the loss of power leaves the status.
ShutDownKeepsStatus ==
    /\ ~sfpPower /\ sfpState # "SHUTDOWN"
    /\ Go("SHUTDOWN")
    /\ sfpDevice' = "UNKNOWN"
    /\ UNCHANGED <<update, status>>

ShutDown ==
    /\ ~sfpPower /\ sfpState # "SHUTDOWN"
    /\ Go("SHUTDOWN")
    /\ status' = [c \in Channels |-> Cleared]
    /\ sfpDevice' = "UNKNOWN"
    /\ UNCHANGED update

SfpRunShutdown ==
    /\ sfpState = "SHUTDOWN"
    /\ Go(IF sfpPower THEN "RESET" ELSE "SHUTDOWN")
    /\ sfpDevice' = "UNKNOWN"
    /\ UNCHANGED <<update, status>>

\* dev_sfpiic_detect: a switch that does not answer is tried again without end.
SfpRunReset ==
    /\ sfpState = "RESET" /\ sfpPower
    /\ \/ sfpTicks <= SfpResetDelay /\ Go("RESET") /\ UNCHANGED sfpDevice
       \/ /\ sfpTicks > SfpResetDelay
          /\ \E answers \in SwitchAnswers :
                /\ Go(IF answers THEN "RUN" ELSE "RESET")
                /\ sfpDevice' = IF answers THEN "NORMAL" ELSE "FAIL"
    /\ UNCHANGED <<update, status>>

SfpRunBegin ==
    /\ sfpState = "RUN" /\ sfpPower
    /\ update' = [Idle EXCEPT !.ch = 0]
    /\ UNCHANGED <<sfpTask, status>>

SfpRunDelay ==
    /\ sfpPower
    /\ \/ sfpState = "PAUSE" /\ Go(IF sfpTicks > SfpPollDelay THEN "RUN" ELSE "PAUSE")
       \/ sfpState = "ERROR" /\ Go(IF sfpTicks > SfpErrorDelay THEN "RESET" ELSE "ERROR")
    /\ UNCHANGED <<update, status, sfpDevice>>

\* The loop resets the switch before and after: sfpiic_switch_enable.
TaskSfpiicRun ==
    /\ update = Idle
    /\ ShutDown \/ SfpRunShutdown \/ SfpRunReset \/ SfpRunBegin \/ SfpRunDelay
    /\ switch' = SfpChannels
    /\ UNCHANGED <<txDisable, cdr, sfpEnv>>

-----------------------------------------------------------------------------
(* The update of channel update.ch, step by step (dev_sfpiic_ch_update).   *)

Ch == update.ch
Plugged == slots[Ch]

To(step) == update' = [update EXCEPT !.step = step]

\* The update has returned present: the next channel, or the pass is over.
Finish(s) ==
    /\ status' = [status EXCEPT ![Ch] = s]
    /\ IF Ch + 1 < SfpChannels
          THEN update' = [Idle EXCEPT !.ch = Ch + 1] /\ UNCHANGED <<sfpTask, switch>>
          ELSE update' = Idle /\ Go("PAUSE") /\ UNCHANGED sfpDevice /\ switch' = SfpChannels

Returns(present) == Finish([status[Ch] EXCEPT !.present = present])

\* A transfer with a module that is there may fail, one with an empty slot does.
MayFail == sfpHealth # "good" \/ Plugged = NoModule
MaySucceed == Plugged # NoModule

\* dev_sfpiic_select_ch; a failure ends the pass, the rest keeps its status.  The
\* module is looked for on the bus, in two trials.
UpdateSelect ==
    /\ update.step = "select"
    /\ \E answers \in SwitchAnswers :
          \/ /\ answers
             /\ switch' = Ch
             /\ To("id")
             /\ UNCHANGED <<sfpTask, status>>
          \/ /\ ~answers
             /\ switch' \in {switch, Ch}
             /\ update' = Idle
             /\ sfpDevice' = "FAIL" /\ Go("ERROR")
             /\ UNCHANGED status
    /\ UNCHANGED <<txDisable, cdr, sfpEnv>>

\* dev_sfpiic_parse_id: the kind is stored only when it is supported.
Identified(s, m) ==
    LET supported == KindOf[m] # "other"
    IN  [s EXCEPT !.present = supported, !.supported = supported,
                  !.kind = IF supported THEN KindOf[m] ELSE @]

UpdateId ==
    /\ update.step = "id"
    /\ \/ MayFail /\ Returns(FALSE)
       \/ /\ MaySucceed
          /\ LET s == Identified(status[Ch], Plugged)
             IN  IF s.present
                    THEN /\ status' = [status EXCEPT ![Ch] = s]
                         /\ To("lower")
                         /\ UNCHANGED <<sfpTask, switch>>
                    ELSE Finish(s)
    /\ UNCHANGED <<txDisable, cdr, sfpEnv>>

\* What follows the identity, which may not have been read: its result is dropped.
After(kind) == CASE kind \in {"QSFP", "QSFP+"} -> "clear" [] kind = "SFP" -> "dom" [] OTHER -> "enable"

HasUpperPageOfOne(kind) == kind = "QSFP"  \* mutant
HasUpperPage(kind) == kind \in {"QSFP", "QSFP+"}

\* Only an SFP is described by the lower page.
UpdateLower ==
    /\ update.step = "lower"
    /\ \/ /\ MayFail
          /\ To(After(status[Ch].kind))
          /\ UNCHANGED status
       \/ /\ MaySucceed
          /\ update' = [update EXCEPT !.lower = Plugged,
                            !.step = IF HasUpperPage(KindOf[Plugged]) THEN "upper"
                                     ELSE After(status[Ch].kind)]
          /\ status' = [status EXCEPT ![Ch].vendor =
                            IF KindOf[Plugged] = "SFP" THEN Plugged ELSE @]
    /\ UNCHANGED <<sfpTask, switch, txDisable, cdr, sfpEnv>>

\* dev_sfpiic_parse_idprom knows QSFP+ and QSFP28; both pages must tell the same kind.
UpdateUpper ==
    /\ update.step = "upper"
    /\ To(After(status[Ch].kind))
    /\ \/ MayFail /\ UNCHANGED status
       \/ /\ MaySucceed
          /\ LET parsed == KindOf[update.lower] = "QSFP+" /\ KindOf[Plugged] = "QSFP+"
             IN  status' = [status EXCEPT ![Ch] =
                    IF parsed THEN [@ EXCEPT !.vendor = Plugged, !.dom = TRUE] ELSE @]
    /\ UNCHANGED <<sfpTask, switch, txDisable, cdr, sfpEnv>>

\* TX_DISABLE is read and written back as it was read; a CDR that is not 0 is cleared.
UpdateClear ==
    /\ update.step = "clear"
    /\ \/ MayFail /\ Returns(FALSE) /\ UNCHANGED cdr
       \/ /\ MaySucceed
          /\ cdr' = [cdr EXCEPT ![Ch] = FALSE]
          /\ \/ To("enable") /\ UNCHANGED <<sfpTask, status, switch>>
             \/ sfpHealth # "good" /\ Returns(FALSE)
    /\ UNCHANGED <<txDisable, sfpEnv>>

\* An SFP may have no diagnostics at its second address.
UpdateDom ==
    /\ update.step = "dom"
    /\ \/ MayFail /\ \E present \in BOOLEAN :
             Finish([status[Ch] EXCEPT !.present = present, !.dom = FALSE])
       \/ MaySucceed /\ \E dom \in BOOLEAN :
             Finish([status[Ch] EXCEPT !.present = TRUE, !.dom = dom])
    /\ UNCHANGED <<txDisable, cdr, sfpEnv>>

WithLanes(tx) == tx \ {"lanes"}

\* dev_sfpiic_ch_enable_tx, for a QSFP
UpdateEnable ==
    /\ update.step = "enable"
    /\ IF HasUpperPage(status[Ch].kind)
          THEN \/ MayFail /\ Returns(FALSE) /\ UNCHANGED txDisable
               \/ /\ MaySucceed
                  /\ txDisable' = [txDisable EXCEPT ![Ch] = WithLanes(@)]
                  /\ \/ Returns(TRUE)
                     \/ sfpHealth # "good" /\ Returns(FALSE)
          ELSE Returns(TRUE) /\ UNCHANGED txDisable
    /\ UNCHANGED <<cdr, sfpEnv>>

Update ==
    /\ update # Idle
    /\ \/ UpdateSelect \/ UpdateId \/ UpdateLower \/ UpdateUpper
       \/ UpdateClear \/ UpdateDom \/ UpdateEnable

-----------------------------------------------------------------------------

\* A QSFP comes with any setting of its registers; those of the others are not used.
Plug(c, m) ==
    /\ swaps < MaxSwaps /\ slots[c] # m
    /\ \A d \in Channels : m = NoModule \/ slots[d] # m
    /\ slots' = [slots EXCEPT ![c] = m]
    /\ LET set == IF m # NoModule /\ HasUpperPage(KindOf[m])
                    THEN {"lanes", "reserved"} ELSE {}
       IN  /\ \E tx \in {{}, set} : txDisable' = [txDisable EXCEPT ![c] = tx]
           /\ cdr' = [cdr EXCEPT ![c] = (set # {})]
    /\ swaps' = swaps + 1
    /\ UNCHANGED <<sfpTask, update, status, switch, sfpPower, sfpHealth>>

SfpPowerSwitches ==
    /\ sfpPower' = ~sfpPower
    /\ UNCHANGED <<sfpTask, update, status, switch, slots, txDisable, cdr, sfpHealth, swaps>>

SfpHealthSettles ==
    /\ sfpHealth = "faulty"
    /\ sfpHealth' \in {"good", "dead"}
    /\ UNCHANGED <<sfpTask, update, status, switch, slots, txDisable, cdr, sfpPower, swaps>>

SfpInit ==
    /\ sfpState = "SHUTDOWN" /\ sfpTicks = 0 /\ sfpDevice = "UNKNOWN"
    /\ update = Idle
    /\ status = [c \in Channels |-> Cleared]
    /\ switch = SfpChannels
    /\ slots = [c \in Channels |-> NoModule]
    /\ txDisable = [c \in Channels |-> {}]
    /\ cdr = [c \in Channels |-> FALSE]
    /\ sfpPower = FALSE
    /\ sfpHealth = "faulty"
    /\ swaps = 0

SfpTask == TaskSfpiicRun \/ Update

SfpNext ==
    \/ SfpTask
    \/ \E c \in Channels, m \in Slot : Plug(c, m)
    \/ SfpPowerSwitches
    \/ SfpHealthSettles

\* The power task runs in a loop, and its transfers have timeouts.
SfpFairSpec == SfpInit /\ [][SfpNext]_sfpVars /\ WF_sfpVars(SfpTask)

-----------------------------------------------------------------------------
(* Properties                                                              *)

\* Every variable stays in its type.
SfpTypeOK ==
    /\ sfpState \in SfpState
    /\ sfpTicks \in 0..MaxSfpTicks
    /\ sfpDevice \in {"UNKNOWN", "NORMAL", "FAIL"}
    /\ update \in [ch : 0..SfpChannels, step : Step, lower : Slot]
    /\ status \in [Channels -> ChannelStatus]
    /\ switch \in 0..SfpChannels
    /\ slots \in [Channels -> Slot]
    /\ txDisable \in [Channels -> SUBSET {"lanes", "reserved"}]
    /\ cdr \in [Channels -> BOOLEAN]
    /\ sfpPower \in BOOLEAN
    /\ sfpHealth \in {"faulty", "good", "dead"}
    /\ swaps \in 0..MaxSwaps

\* A channel is read from and written to only while the switch connects it alone:
\* no module is taken for its neighbour when a transfer with the switch fails.
ReadsOwnSlot == update.step # "select" => switch = update.ch

\* A module that is shown as present is of a supported kind, and none is shown once
\* the driver has shut down: a status that a failing switch has left behind does not
\* outlive the power.
PresentIsSupported ==
    \A c \in Channels : status[c].present =>
        status[c].supported /\ status[c].kind # "none" /\ sfpState # "SHUTDOWN"

SfpWorks == sfpHealth = "good" /\ sfpPower

\* A plugged module is found present in the end, an empty slot or an unsupported
\* module is not, and a module is shown under its own name, not under the name of
\* the one before it: whatever failed or was swapped in the middle of an update.  Of
\* a QSFP of the first kind, or a CXP, no name is read: the old one stays.
ModulesShown ==
    <>[]SfpWorks => <>[](\A c \in Channels :
        LET supported == slots[c] # NoModule /\ KindOf[slots[c]] # "other"
        IN  /\ status[c].present = supported
            /\ supported /\ KindOf[slots[c]] \in {"SFP", "QSFP+"} => status[c].vendor = slots[c])

\* The lasers of a plugged QSFP are enabled in the end, and its CDR is off.
LanesEnabled ==
    <>[]SfpWorks => <>[](\A c \in Channels :
        slots[c] # NoModule /\ HasUpperPage(KindOf[slots[c]])
            => "lanes" \notin txDisable[c] /\ ~cdr[c])

\* A switch that does not answer shows: the modules do not count as running.
DeadSwitchShown == <>[](sfpHealth = "dead") => <>[](sfpState \notin {"RUN", "PAUSE"})

\* What is shown is of the module in the slot, whatever is swapped under way, and the
\* modules in the slots are switched on.
ModulesServed ==
    /\ ModulesShown
    /\ LanesEnabled
    /\ DeadSwitchShown

\* "reset TX_DISABLE" (dev_sfpiic_ch.c:227): an update that has done so leaves the
\* register at 0.  It writes back what it has read.
TxDisableReset == [][UpdateClear /\ update'.step = "enable" => txDisable'[Ch] = {}]_sfpVars
=============================================================================
