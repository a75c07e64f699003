---------------------------- MODULE MCWorkflows ----------------------------
(* The TLC instance of Workflows: a chain of three steps with a gate in    *)
(* the middle, and two members that may each be requeued once.             *)
EXTENDS Workflows
=============================================================================
