----------------------------- MODULE MCPowermon -----------------------------
(***************************************************************************)
(* Small boards for TLC.  Sensor 1 reads the input supply, the others read *)
(* supplies behind the power switches.                                     *)
(***************************************************************************)
EXTENDS Powermon

\* The classes a reading may have: all of them, or only the two extreme ones,
\* between which most tests of the code do not tell warnings apart.
AllVoltages == {"NORMAL", "WARNING", "CRITICAL"}
ExtremeVoltages == {"NORMAL", "CRITICAL"}

\* Iterations that all take one unit.
EvenIterations == {1}
=============================================================================
