----------------------------- MODULE MCMigration -----------------------------
(***************************************************************************)
(* The services of the runs of Migration: two indexers, one of which is    *)
(* not meant to be there, and an API server.                               *)
(***************************************************************************)
EXTENDS Migration

CONSTANTS p1, p2, p3
=============================================================================
