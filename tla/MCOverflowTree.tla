--------------------------- MODULE MCOverflowTree ---------------------------
(* Instances of OverflowTree for TLC.  Key 1 is the sentinel of bulk_load.   *)
EXTENDS OverflowTree

CONSTANTS w1, w2, r1

MCNobody == {}
MCOneWriter == {w1}
MCOtherWriter == {w2}
MCTwoWriters == {w1, w2}
MCReader == {r1}
MCAll == {w1, w2, r1}
MCKeys == 2 .. 5
MCOneKeys == {5, 6, 8}
MCFewKeys == 2 .. 4
MCSeed == <<1, 3, 4>>
MCWideSeed == <<1, 2, 4, 7>>
MCNoSeed == <<>>

MCTwoOps == [t \in Threads |-> 2]
MCThreeFirst == [t \in Threads |-> IF t = w1 THEN 3 ELSE 2]
MCTwoFirst == [t \in Threads |-> IF t = w1 THEN 2 ELSE 1]
=============================================================================
