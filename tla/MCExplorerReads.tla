-------------------------- MODULE MCExplorerReads --------------------------
(***************************************************************************)
(* ExplorerReads and ReconcileRpc over the blocks of MCLedger, without the *)
(* third height.  A page and the tool only read, so they are followed one  *)
(* at a time: the tool starts when no page is being built.                 *)
(***************************************************************************)
EXTENDS MCLedger, ExplorerReads, ReconcileRpc

\* Every list is cut short in some state and whole in another.
MCLimit == [blocks |-> 2, latest |-> 3, utxos |-> 1, history |-> 2, transfers |-> 1, ranking |-> 1]

ASSUME SampledBlocksHaveAssets == SamplesAssets

ReadersInit == ReadInit /\ ToolInit

ReadersNext ==
  \/ tool = NoTool /\ ReadNext /\ UNCHANGED toolVars
  \/ page = NoPage /\ ToolNext /\ UNCHANGED readVars

ReadersSpec == ReadersInit /\ [][ReadersNext]_<<vars, readVars, toolVars>>
=============================================================================
