---------------------------- MODULE MCControlFlow ----------------------------
(* Three blocks.                                                           *)
EXTENDS ControlFlow

MC_Task == 2 .. 4

==============================================================================
