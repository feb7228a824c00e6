---------------------------- MODULE MCSkewInsert ----------------------------
(* One partition whose tree the seeds have split and one whose tree the     *)
(* first key splits.  Keys of the same number share a page, and three ways  *)
(* to change it between the rounds; by the last of them one key that waits  *)
(* is sent again with a single other one.                                   *)
EXTENDS SkewInsert

MCSplitAt == [p \in Part |-> p]
MCPlaces  == {<<0, 0>>, <<0, 1>>, <<1, 1>>}
MCHomes   ==
  {[k \in Key |-> place[k[3]]] : place \in [1 .. Batch -> MCPlaces]}
  \cup {[k \in Key |-> IF k[2] = r THEN <<0, k[3] % 2>> ELSE <<1, 1>>] : r \in 1 .. 2}
  \cup {[k \in Key |-> IF k[2] = 1 \/ k[3] = 1 THEN <<0, 1>> ELSE <<1, 1>>]}
=============================================================================
