------------------------- MODULE MCIndexerPipeline -------------------------
(***************************************************************************)
(* The blocks of the runs of IndexerPipeline.                              *)
(***************************************************************************)
EXTENDS IndexerPipeline, TLC

CONSTANTS g, a1, a2, b1, b2

\* Two branches; the node can move up, sideways and down.
TreeBlocks == {g, a1, a2, b1, b2}
TreeParent == (g :> NoBlock) @@ (a1 :> g) @@ (a2 :> a1) @@ (b1 :> g) @@ (b2 :> b1)

\* A single branch, for runs without reorganisations.
CONSTANT LineHeight
LineBlocks == 0..LineHeight
LineParent == [b \in LineBlocks |-> IF b = 0 THEN NoBlock ELSE b - 1]
=============================================================================
