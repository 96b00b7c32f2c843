------------------------------- MODULE MCKernel -------------------------------
(* A program of one text page and one of two data pages; a kernel stack has *)
(* one page.  Three processes fit unless two of them run the larger one and *)
(* the third calls exec.                                                    *)
EXTENDS Kernel

MC_UserSp == [a \in AppNames |-> 1]

MC_Segments ==
  [app \in {"initproc", "shell"} |->
     <<[va |-> 2, mem_size |-> IF app = "shell" THEN 3 ELSE 2, file_size |-> 2,
        writable |-> app = "shell"]>>]

MC_Below(x, S) == Cardinality({y \in S : y < x})

MC_Frames(V, S) ==
  IF Cardinality(V) > Cardinality(S) THEN {}
  ELSE {[v \in V |-> CHOOSE f \in S : MC_Below(f, S) = MC_Below(v, V)]}

\* Frames are interchangeable: two states that differ only in which frame has
\* which number count as one, and so do two that differ only in what programs
\* have in their pages: no step depends on it.  What is compared is which pages
\* every space in use has, the trap contexts and how many frames are free.
MC_Page(s, v) ==
  <<data_frames[s][v] # NoFrame, data_frames[s][v] = table[s][v],
    IF v = M!TRAP_CONTEXT /\ table[s][v] \in Frame THEN mem[table[s][v]] ELSE <<"none">> >>

MC_View ==
  <<vars, proc, areas, Cardinality(free), mm_panic,
    [s \in M!Space |-> IF s = M!Kernel \/ proc[s] = "live"
                      THEN [v \in M!Page |-> MC_Page(s, v)] ELSE <<>>]>>

\* The blocks other than INITPROC's are interchangeable too.
MC_Blocks == Permutations(Tcb \ {INITPROC})
===============================================================================
