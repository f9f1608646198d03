---------------------------- MODULE ClockControl ----------------------------
(***************************************************************************)
(* What the FPGA task promises the PLL task of TQDC: clock_control         *)
(* (src/src/app/app_shared_data.c) is written without a lock, the valid    *)
(* sources and then the selected one, both of one reading of the FPGA, and *)
(* never bypasses the PLL again.  Module FpgaRegs implements it, module    *)
(* TqdcClkmux relies on it.                                                *)
(***************************************************************************)
EXTENDS Naturals

CONSTANT Controls   \* contents of the clock control registers: [valid, source]

VARIABLES
    fpgaOk,        \* dev.device_status of the FPGA is NORMAL
    clockControl,  \* clock_control
    pending        \* a reading that is half stored, as a set with one or no element

ccVars == <<fpgaOk, clockControl, pending>>

Booted == [bypass |-> TRUE, valid |-> {}, source |-> "AUTO"]

CcInit ==
    /\ fpgaOk = FALSE
    /\ clockControl = Booted
    /\ pending = {}

CcStoreValid ==
    /\ fpgaOk /\ pending = {}
    /\ \E c \in Controls :
          /\ pending' = {c}
          /\ clockControl' = [clockControl EXCEPT !.bypass = FALSE, !.valid = c.valid]
    /\ UNCHANGED fpgaOk

CcStoreSource ==
    /\ \E c \in pending : clockControl' = [clockControl EXCEPT !.source = c.source]
    /\ pending' = {}
    /\ UNCHANGED fpgaOk

\* The FPGA is found, fails or is lost, between the polls.
CcStatus ==
    /\ pending = {}
    /\ fpgaOk' \in BOOLEAN
    /\ UNCHANGED <<clockControl, pending>>

CcNext == CcStoreValid \/ CcStoreSource \/ CcStatus

CcSpec == CcInit /\ [][CcNext]_ccVars
=============================================================================
