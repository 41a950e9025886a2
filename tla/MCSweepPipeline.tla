--------------------------- MODULE MCSweepPipeline ---------------------------
(* Small instance of SweepPipeline: three descriptors, two of which share  *)
(* a YUV classification (so a batch can yield one tx or two), and the      *)
(* bounds below.                                                           *)
EXTENDS SweepPipeline, TLC

CONSTANTS d1, d2, d3, k1, k2

MCDesc == {d1, d2, d3}
MCClasses == {k1, k2}
MCClass == (d1 :> k1) @@ (d2 :> k1) @@ (d3 :> k2)

(* The liveness runs use two descriptors of distinct classes, to keep the *)
(* graph small enough for the fairness check.                             *)
MCDescLive == {d1, d3}
MCClassLive == (d1 :> k1) @@ (d3 :> k2)
=============================================================================
