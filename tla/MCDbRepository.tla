---------------------------- MODULE MCDbRepository ----------------------------
(* Small instances of DbRepository.                                          *)
EXTENDS DbRepository, TLC

CONSTANTS t1, p1, p2, w1, w2

MCTransOf == [p \in Parts |-> t1]
MCSymmetry == Permutations(Parts) \cup Permutations(Workers)
=============================================================================
