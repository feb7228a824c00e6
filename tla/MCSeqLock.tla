----------------------------- MODULE MCSeqLock ------------------------------
(* Instances of SeqLock for TLC. *)
EXTENDS SeqLock

CONSTANTS t1, t2, a, b

MCThreads2 == {t1, t2}
MCValues == {a, b}
=============================================================================
