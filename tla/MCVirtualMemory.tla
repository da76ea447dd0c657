-------------------------- MODULE MCVirtualMemory --------------------------
(* TLC instance of VirtualMemory: two bits per level, pages of two units (or *)
(* eight), one table of four entries at unit 2 and one at unit 4.            *)
EXTENDS VirtualMemory

LOCAL INSTANCE Bitwise

MCOr(a, b) == a | b

E(p, g, u, l, f) == [present |-> p, grants |-> g, user |-> u, lowest |-> l, frame |-> f]

MCEntry == {
    E(TRUE, Mode, TRUE, FALSE, 2),
    E(TRUE, Mode, FALSE, FALSE, 2),
    E(TRUE, Mode, TRUE, TRUE, 16),
    E(TRUE, Mode, TRUE, TRUE, 9),
    E(TRUE, {"read"}, TRUE, FALSE, 2),
    E(FALSE, Mode, TRUE, TRUE, 2)}

C(p, g, s, l) == [protected |-> p, paging |-> g, shift |-> s, levels |-> l]
MCControl == {C(TRUE, TRUE, 0, 3), C(TRUE, TRUE, 2, 4), C(FALSE, FALSE, 0, 3), C(FALSE, TRUE, 4, 5)}
=============================================================================
