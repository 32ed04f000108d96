------------------------------ MODULE MCLedger ------------------------------
(***************************************************************************)
(* The blocks of the runs of Ledger and ExplorerReads.                     *)
(*                                                                         *)
(* Two branches over one genesis.  The payment p is mined at height 1 of   *)
(* one branch and at height 2 of the other; q and r spend the same output  *)
(* of p on different branches, q in the block that mines p; s is mined at  *)
(* height 3 of both, and spends an output of two addresses.  Output 4      *)
(* carries an asset and is paid to no address.                             *)
(***************************************************************************)
EXTENDS Ledger, TLC

CONSTANTS g, a1, a2, a3, b1, b2, b3, p, q, r, s, cg, c2, x, y

MCBlock == {g, a1, a2, a3, b1, b2, b3}
MCParent == (g :> NoBlock) @@ (a1 :> g) @@ (a2 :> a1) @@ (a3 :> a2)
              @@ (b1 :> g) @@ (b2 :> b1) @@ (b3 :> b2)

MCTx == {cg, c2, p, q, r, s}
MCTxsOf == (g :> {cg}) @@ (a1 :> {p, q}) @@ (a2 :> {c2}) @@ (a3 :> {s})
             @@ (b1 :> {c2}) @@ (b2 :> {p, r}) @@ (b3 :> {s})

MCOutput == 1..6
MCCreatedBy == (1 :> cg) @@ (2 :> p) @@ (3 :> p) @@ (4 :> q) @@ (5 :> c2) @@ (6 :> s)
MCOwners == (1 :> {x}) @@ (2 :> {x}) @@ (3 :> {x, y}) @@ (4 :> {}) @@ (5 :> {y}) @@ (6 :> {x})
MCSpends == (cg :> {}) @@ (c2 :> {}) @@ (p :> {1}) @@ (q :> {2}) @@ (r :> {2}) @@ (s :> {3, 5})
=============================================================================
