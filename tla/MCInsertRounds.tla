--------------------------- MODULE MCInsertRounds ---------------------------
(* Instances of InsertRounds for TLC. *)
EXTENDS InsertRounds

CONSTANTS t1, t2, k1, k2, k3

MCThreads2 == {t1, t2}
MCInitKeys == {k1, k2}
MCInitKeys3 == {k1, k2, k3}
=============================================================================
