----------------------------- MODULE MCQueries ------------------------------
(* Small batches; new keys below the first key, in one interval, in the     *)
(* last intervals and behind them, and so few in MIX that they run out.     *)
EXTENDS Queries, TLC

MCNumQuerys  == "search" :> 3 @@ "insert" :> 4 @@ "mix" :> 4 @@ "scan" :> 3
MCBufSize    == "search" :> 1 @@ "insert" :> 2 @@ "mix" :> 1 @@ "scan" :> 1
MCSampled    == "search" :> {0, 3, 5, 7} @@ "insert" :> {} @@ "mix" :> {1, 3, 7}
                @@ "scan" :> {0, 1, 3, 4, 7}
MCNewKeySets == "search" :> {{}} @@ "scan" :> {{}}
                @@ "insert" :> {{4, 5, 7, 10}, {2, 22, 26, 28}}
                @@ "mix" :> {{4, 5}, {10, 22}}
=============================================================================
