---------------------------- MODULE MCTaskSystem -----------------------------
(***************************************************************************)
(* Constants of TaskSystem for TLC: the applications' stack tops differ,   *)
(* as those of programs of different sizes do.                             *)
(***************************************************************************)
EXTENDS TaskSystem

MCUserSp == [a \in AppNames |-> IF a = InitApp THEN 1 ELSE 2]

\* The blocks other than INITPROC's are interchangeable (safety only).
Blocks == Permutations(Tcb \ {INITPROC})
===============================================================================
