----------------------------- MODULE MCPageTable ------------------------------
(***************************************************************************)
(* PageTable for TLC: free frames are interchangeable.                     *)
(***************************************************************************)
EXTENDS PageTable, TLC

Frames == Permutations(Frame)
===============================================================================
