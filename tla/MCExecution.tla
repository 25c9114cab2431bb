---------------------------- MODULE MCExecution ----------------------------
(* Execution with few commands and stops: enough for brk, a resume, a race
   and another resume. *)
EXTENDS Execution
=============================================================================
