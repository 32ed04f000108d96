---------------------------- MODULE MCOperations -----------------------------
(***************************************************************************)
(* Migration and Monitor in one run.  Services that start and a checkpoint *)
(* that is watched share no state, so a behaviour is one of a single part: *)
(* the states of the parts add up, and are not multiplied.                 *)
(***************************************************************************)
EXTENDS MCMigration, Monitor

VARIABLE part

\* The part a behaviour is not about has one initial state.
OperationsInit ==
  \/ part = "start" /\ Init /\ MonitorInit /\ withDatabase
  \/ part = "watch" /\ MonitorInit /\ Init /\ version = 0

OperationsNext ==
  /\ part' = part
  /\ \/ part = "start" /\ Next /\ UNCHANGED monitorVars
     \/ part = "watch" /\ MonitorNext /\ UNCHANGED vars

OperationsSpec == OperationsInit /\ [][OperationsNext]_<<part, vars, monitorVars>>
=============================================================================
