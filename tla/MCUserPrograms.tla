---------------------------- MODULE MCUserPrograms ----------------------------
(***************************************************************************)
(* Constants of UserPrograms for TLC.                                      *)
(***************************************************************************)
EXTENDS UserPrograms

MCUserSp == [a \in AppNames |-> 1]
===============================================================================
