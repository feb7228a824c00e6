---------------------------- MODULE MergeResult ----------------------------
(***************************************************************************)
(* What merge_and_retrain promises of its new key array: in one step, all  *)
(* keys of the array and of the pages, in order and each of them once, as  *)
(* long as no key of a page is in the array already.  If one is, the array *)
(* is still there in one step and has a slot for every key counted.        *)
(***************************************************************************)
EXTENDS Integers, FiniteSets

VARIABLES old,       \* the keys of the array
          buffered,  \* the keys of the pages
          result     \* the new array, empty until it is there

\* a, from 0, holds the keys of S in order.
IsSortingOf(a, S) ==
  /\ {a[i] : i \in DOMAIN a} = S
  /\ \A i \in DOMAIN a \ {0} : a[i - 1] < a[i]

Init == result = <<>>

Next ==
  /\ result = <<>>
  /\ DOMAIN result' = 0 .. Cardinality(old) + Cardinality(buffered) - 1
  /\ old \cap buffered = {} => IsSortingOf(result', old \cup buffered)
  /\ UNCHANGED <<old, buffered>>

Spec == Init /\ [][Next]_<<old, buffered, result>>
=============================================================================
