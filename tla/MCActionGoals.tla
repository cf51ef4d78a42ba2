---------------------------- MODULE MCActionGoals ----------------------------
(* A small instance of ActionGoals for TLC. *)
EXTENDS ActionGoals
=============================================================================
