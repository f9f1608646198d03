---------------------------- MODULE MCBoardClock ----------------------------
(* The clock of a board with short delays for TLC.                         *)
EXTENDS BoardClock

EvenRuns == {1}
=============================================================================
