---------------------------- MODULE MCTqdcClkmux ----------------------------
(* Two settings of the FPGA, short delays.                                 *)
EXTENDS TqdcClkmux

Settings == {[valid |-> {"VXS"}, source |-> "other"], [valid |-> {}, source |-> "LOCAL"]}
=============================================================================
