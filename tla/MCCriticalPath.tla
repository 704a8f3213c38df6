--------------------------- MODULE MCCriticalPath ---------------------------
(***************************************************************************)
(* Small instances of TaskCompletion for TLC: every graph of four tasks.   *)
(***************************************************************************)
EXTENDS TaskCompletion

MCTasks == 1..4
=============================================================================
