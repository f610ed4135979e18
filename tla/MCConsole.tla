------------------------------ MODULE MCConsole ------------------------------
(* Small instances of Console: one page with a transaction of two            *)
(* participants, and a page beyond the last transaction.                     *)
EXTENDS Console, TLC

CONSTANTS t1, p1, p2, c1, c2

MCTransOf == [p \in Parts |-> t1]
MCPageOf == [t \in Trans |-> 1]
MCSymmetry == Permutations(Parts) \cup Permutations(Connections)
=============================================================================
