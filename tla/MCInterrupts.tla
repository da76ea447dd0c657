--------------------------- MODULE MCInterrupts ---------------------------
(* TLC instance of Interrupts: a stack of few words in a memory that ends    *)
(* below or above its top, a table that lacks one handler or another.        *)
EXTENDS Interrupts, TLC

MCAfter == ("main" :> "other") @@ ("other" :> "main")
MCHandler == [v \in Vector |-> "main"]

\* All, only one, and all but those of devices, which lie beyond physical memory.
MCDescriptors ==
    {[v \in Vector |-> "present"],
     [v \in Vector |-> IF v = "UNHANDLED_INTERRUPT" THEN "present" ELSE "absent"],
     [v \in Vector |-> IF v \in Device THEN "beyond" ELSE "present"]}
=============================================================================
