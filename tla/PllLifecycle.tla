---------------------------- MODULE PllLifecycle ----------------------------
(***************************************************************************)
(* What the drivers of the clock chips (AD9545, AD9548 and AD9516) have in *)
(* common, and what the board may rely on: a chip is started, watched and, *)
(* after an error, started again, RecoveryLimit + 1 times; then the driver *)
(* gives up for a while and starts over.  A loss of power ends everything  *)
(* but the count of the recoveries.  Each driver implements it.            *)
(***************************************************************************)
EXTENDS Naturals

CONSTANT RecoveryLimit   \* 3 in all three drivers

VARIABLES
    phase,      \* what the state of the driver amounts to
    recoveries  \* priv.recoveryCount

lifeVars == <<phase, recoveries>>

LifeInit == phase = "off" /\ recoveries = 0

PowerLost == phase' = "off" /\ UNCHANGED recoveries

Begins ==
    /\ phase = "off" /\ phase' \in {"starting", "failed"}
    /\ UNCHANGED recoveries

Starts ==
    /\ phase = "starting" /\ phase' \in {"running", "failed"}
    /\ UNCHANGED recoveries

\* The recoveries are counted from 0 again once the chip has been seen to work.
Works ==
    /\ phase = "running" /\ phase' \in {"running", "starting", "failed"}
    /\ recoveries' \in {0, recoveries}

Retries ==
    /\ phase = "failed" /\ recoveries <= RecoveryLimit
    /\ phase' = "off"
    /\ recoveries' = recoveries + 1

GivesUp ==
    /\ phase = "failed" /\ recoveries > RecoveryLimit
    /\ phase' = "fatal"
    /\ UNCHANGED recoveries

StartsOver == phase = "fatal" /\ phase' = "off" /\ recoveries' = 0

LifeNext ==
    PowerLost \/ Begins \/ Starts \/ Works \/ Retries \/ GivesUp \/ StartsOver

LifeSpec == LifeInit /\ [][LifeNext]_lifeVars
=============================================================================
