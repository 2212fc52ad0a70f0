-------------------------- MODULE MCMessageQueries --------------------------
(***************************************************************************)
(* A small instance of MessageQueries for TLC.                             *)
(***************************************************************************)
EXTENDS MessageQueries
=============================================================================
