---------------------------- MODULE MCBaseDeletes ----------------------------
(* Instances of BaseDeletes for TLC. *)
EXTENDS BaseDeletes, TLC

\* Every base on the one map, or one base on each.
CONSTANTS b1, b2, p1, p2
OneMap == [b \in Bases |-> p1]
OneQueued == b1 :> 1
BothQueued == (b1 :> 1) @@ (b2 :> 2)
TwoMaps == (b1 :> p1) @@ (b2 :> p2)

\* A map has one partition.
OwnSite == [b \in Bases |-> {Home[b]}]
=============================================================================
