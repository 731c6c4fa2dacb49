------------------------------- MODULE MCKclRun -------------------------------
(* KclRun with two callers and a buffer of two bytes. *)
EXTENDS KclRun
=============================================================================
