--------------------------- MODULE MCBoardThermal ---------------------------
(***************************************************************************)
(* Small TTVXS boards for TLC: one supply sensor, both thermometers.       *)
(***************************************************************************)
EXTENDS BoardThermal

EvenIterations == {1}
ExtremeVoltages == {"NORMAL", "CRITICAL"}

\* A thermometer that always answers its bus, or one that may fail to.
AlwaysAnswers == {TRUE}
MayFail == {TRUE, FALSE}

\* Faults of the thermometers alone: the supplies are always there when they are
\* switched on, and the power comes and goes with the operator and the detector.
ThermFaultsOnly == ~healthy' /\ \A s \in Sensors : device'[s] # "FAIL"
ThermFaultsSpec == BoardInit /\ [][BoardNext /\ ThermFaultsOnly]_boardVars
=============================================================================
