---------------------------- MODULE ClockChips ----------------------------
(***************************************************************************)
(* The drivers of the three clock chips, side by side: each board has one  *)
(* of them or two, and they share nothing.                                 *)
(***************************************************************************)
EXTENDS Ad9545, AuxPll, Ad9548

ChipsSpec == PllSpec /\ AuxSpec /\ SynSpec

\* All three drivers keep to the life cycle of the clock drivers: they give up after
\* the same number of recoveries, and no loss of power makes it more or fewer.  In
\* particular the AD9545 is not given up before its recoveries have failed in a row.
ImplementLifecycle ==
    /\ []FatalNeedsFailures
    /\ PllImplementsLifecycle
    /\ AuxImplementsLifecycle
    /\ SynImplementsLifecycle

\* A chip that works, on a board that keeps its power, runs in the end, however many
\* recoveries have been used up; without power, and on a bus that is dead, no clock
\* counts as ready.
ChipsRecover == PllRecovers /\ AuxFollowsPower /\ SynRecovers /\ DeadNotReady
=============================================================================
