------------------------------ MODULE MCPyLog ------------------------------
(***************************************************************************)
(* PyLog with one Python thread that sets the handler and one that loads.  *)
(***************************************************************************)
EXTENDS PyLog

CONSTANTS main, worker, handler1, Info
=============================================================================
