---------------------------- MODULE MCExecControl ----------------------------
(* TLC instances of ExecControl.  Two instructions: 0 falls through to 1 and *)
(* 1 branches back to 0 or to itself, so two breakpoints may be consecutive  *)
(* and a breakpoint may sit on a loop of one instruction.  One instruction:  *)
(* a loop, for the liveness runs.                                            *)
EXTENDS ExecControl, TLC

MCAddr == {0, 1}
MCSucc == (0 :> {1}) @@ (1 :> {0, 1})

OneAddr == {0}
OneSucc == (0 :> {0})
=============================================================================
