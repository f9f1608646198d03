------------------------------- MODULE DevFsm -------------------------------
(***************************************************************************)
(* The state machine that most devices share (src/dev/common/dev_fsm.c): a *)
(* record with a state and the time spent in it, next to other fields.     *)
(***************************************************************************)
EXTENDS Integers

FsmState == {"SHUTDOWN", "RESET", "RUN", "PAUSE", "ERROR"}

\* dev_fsm_change: the start tick is set only when the state is another one.
Change(t, state) ==
    IF state = t.state THEN t ELSE [t EXCEPT !.state = state, !.ticks = 0]
=============================================================================
