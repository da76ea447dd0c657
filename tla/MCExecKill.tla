----------------------------- MODULE MCExecKill -----------------------------
(* TLC instance of ExecKill: the program of MCExecControl, whose instruction *)
(* 1 is also the interrupt handler, or a program of one instruction.         *)
EXTENDS ExecKill, TLC

MCAddr == {0, 1}
MCSucc == (0 :> {1}) @@ (1 :> {0, 1})

OneAddr == {0}
OneSucc == (0 :> {0})
=============================================================================
