--------------------------- MODULE MCReconcileSweep ---------------------------
(* ReconcileSweep with files that git tracks (t...) and files that it does   *)
(* not track (u).                                                            *)
EXTENDS ReconcileSweep, TLC

CONSTANTS t1, t2, u

TrackedOne == <<t1>>
ListedOne == <<u, t1>>
OrderOne == <<t1, u>>

TrackedTwo == <<t1, t2>>
ListedTwo == <<u, t1, t2>>
OrderTwo == <<t1, t2, u>>

=============================================================================
