----------------------------- MODULE MCMemorySet ------------------------------
(***************************************************************************)
(* Constants of MemorySet for TLC.  A page has two bytes.  "shell" is a    *)
(* data segment whose second page is beyond its file (.bss); "small" is one*)
(* text page.                                                              *)
(***************************************************************************)
EXTENDS MemorySet

MCSegments ==
  [app \in {"shell", "small"} |->
     IF app = "shell"
     THEN <<[va |-> 2, mem_size |-> 3, file_size |-> 2, writable |-> TRUE]>>
     ELSE <<[va |-> 2, mem_size |-> 2, file_size |-> 2, writable |-> FALSE]>>]

\* The pages in ascending order get the free frames in ascending order.
Below(x, S) == Cardinality({y \in S : y < x})

MCFrames(V, S) ==
  IF Cardinality(V) > Cardinality(S) THEN {}
  ELSE {[v \in V |-> CHOOSE f \in S : Below(f, S) = Below(v, V)]}
===============================================================================
