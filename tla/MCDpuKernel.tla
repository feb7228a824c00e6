---------------------------- MODULE MCDpuKernel -----------------------------
(* Instances of DpuKernel for TLC. *)
EXTENDS DpuKernel

\* Four segments over six keys, and two levels above them.
MCLevels == << <<2, 4, 8, 10>>, <<2, 8>>, <<2>> >>

\* No entry, a few, and more than the partition has keys.
MCOverflows == {<<>>, <<3, 6>>, <<2, 3, 4, 5, 6, 7, 9>>}
=============================================================================
