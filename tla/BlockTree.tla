------------------------------ MODULE BlockTree ------------------------------
(***************************************************************************)
(* The blocks the node can report, and the chains they form.               *)
(***************************************************************************)
EXTENDS Integers

CONSTANTS
  Block,         \* block hashes
  NoBlock,       \* the null hash
  Genesis,       \* the block at height 0
  Parent,        \* previousblockhash of every block
  MaxHeight      \* bound: no chain is higher

ASSUME BlockTreeAssumption ==
  /\ Genesis \in Block /\ NoBlock \notin Block
  /\ Parent \in [Block -> Block \cup {NoBlock}]
  /\ MaxHeight \in Nat

\* Genesis first, each block on its parent.
ChainsOfHeight(n) ==
  {c \in [0..n -> Block] : /\ c[0] = Genesis
                           /\ \A h \in 1..n : Parent[c[h]] = c[h - 1]}

Chains == UNION {ChainsOfHeight(n) : n \in 0..MaxHeight}

NoRows == [h \in {} |-> NoBlock]
=============================================================================
