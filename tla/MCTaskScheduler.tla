--------------------------- MODULE MCTaskScheduler ---------------------------
(***************************************************************************)
(* TaskScheduler for TLC: its constants are plain sets and limits, which   *)
(* the cfg files choose.                                                   *)
(***************************************************************************)
EXTENDS TaskScheduler
=============================================================================
