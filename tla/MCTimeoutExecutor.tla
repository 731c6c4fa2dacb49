------------------------- MODULE MCTimeoutExecutor -------------------------
(* Small instances of TimeoutExecutor for TLC. *)
EXTENDS TimeoutExecutor

CONSTANTS a, b, c

ThreeTasks == <<a, b, c>>
=============================================================================
