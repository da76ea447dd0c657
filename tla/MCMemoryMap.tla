---------------------------- MODULE MCMemoryMap ----------------------------
(* TLC instance of MemoryMap: twelve addresses, pages of two.  Low memory is *)
(* 0..5, the BIOS 6..8, the control region 9, high memory 10 and 11.         *)
EXTENDS MemoryMap

MCPortSize == [d \in Device |-> 1]
MCRAM == {<<0, 4>>, <<2, 2>>, <<8, 2>>}
=============================================================================
