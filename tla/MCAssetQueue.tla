----------------------------- MODULE MCAssetQueue -----------------------------
(***************************************************************************)
(* The blocks of the runs of AssetQueue.  Asset 1 is issued at height 0    *)
(* and reissued at height 2 of one branch and moved on the other; asset 2  *)
(* is issued at height 1 of one branch and at height 2 of the other.       *)
(***************************************************************************)
EXTENDS AssetQueue, TLC

CONSTANTS g, a1, a2, b1, b2

MCBlock == {g, a1, a2, b1, b2}
MCParent == (g :> NoBlock) @@ (a1 :> g) @@ (a2 :> a1) @@ (b1 :> g) @@ (b2 :> b1)
MCAsset == {1, 2}
MCChangedIn == (g :> {1}) @@ (a1 :> {2}) @@ (a2 :> {1}) @@ (b1 :> {}) @@ (b2 :> {2})
MCTouchedIn == (g :> {1}) @@ (a1 :> {1, 2}) @@ (a2 :> {1}) @@ (b1 :> {1}) @@ (b2 :> {2})
=============================================================================
