--------------------------- MODULE ProcessedChain ---------------------------
(***************************************************************************)
(* What the indexer promises to the readers of its database, whatever its  *)
(* workers are doing: the blocks up to best_height are one branch from     *)
(* genesis that only grows at its tip or is cut back, and "ready" is shown *)
(* only for a chain that reaches target_height and has not moved since.    *)
(***************************************************************************)
EXTENDS BlockTree

VARIABLES
  processed,   \* height -> hash, for the heights 0..best_height
  ready,       \* sync_state.status is "ready"
  goal         \* sync_state.target_height

vars == <<processed, ready, goal>>

Init == processed = NoRows /\ ready = FALSE /\ goal = -1

\* Blocks are processed on top of the tip.
Extend ==
  /\ processed' \in {c \in Chains : /\ DOMAIN processed \subseteq DOMAIN c
                                    /\ DOMAIN processed # DOMAIN c
                                    /\ \A h \in DOMAIN processed : c[h] = processed[h]}
  /\ ready' = FALSE /\ UNCHANGED goal

\* A rollback cuts the chain, possibly down to nothing.
CutBack ==
  /\ \E n \in -1..MaxHeight :
       /\ 0..n \subseteq DOMAIN processed
       /\ processed' = [h \in 0..n |-> processed[h]]
  /\ ready' = FALSE /\ UNCHANGED goal

\* A cycle sets out for a new target, or fails.
Unready ==
  /\ ready' = FALSE
  /\ goal' \in -1..MaxHeight
  /\ UNCHANGED processed

Announce ==
  /\ goal' \in 0..MaxHeight /\ DOMAIN processed = 0..goal'
  /\ ready' = TRUE
  /\ UNCHANGED processed

Next == Extend \/ CutBack \/ Unready \/ Announce

Spec == Init /\ [][Next]_vars
=============================================================================
