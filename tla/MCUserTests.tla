---------------------------- MODULE MCUserTests ----------------------------
(***************************************************************************)
(* Constants of UserTests for TLC: every program, and usertests with a     *)
(* program that waits for a child and one that the kernel kills.           *)
(***************************************************************************)
EXTENDS UserTests

MCUserSp == [a \in AppNames |-> 1]
MCApps == Tests \cup {"initproc"}
MCTESTS == <<"exit", "stack_overflow", "forktest_simple">>
=============================================================================
