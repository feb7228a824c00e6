---------------------------- MODULE MCPageMerge ----------------------------
(* Instances of PageMerge for TLC.  Even keys are loaded: odd ones are new,  *)
(* even ones are in the array.                                               *)
EXTENDS PageMerge

\* Three keys make fewer pages than threads.
MCArrays == {{2 * i : i \in 1 .. n} : n \in {3, 10, 11, 15}}
MCInserted == SUBSET {3, 5, 13, 15} \cup {{9, 17, 19}, {4}, {5, 12}, {4, 6, 9}}
=============================================================================
