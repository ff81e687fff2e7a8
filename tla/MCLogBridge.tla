---------------------------- MODULE MCLogBridge ----------------------------
(***************************************************************************)
(* LogBridge with one caller of log_set (the main thread) or two.          *)
(***************************************************************************)
EXTENDS LogBridge

CONSTANTS main, helper, worker1, worker2, cb1, cb2, Info
=============================================================================
