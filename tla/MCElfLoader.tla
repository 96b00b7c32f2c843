---------------------------- MODULE MCElfLoader ----------------------------
(* Files of up to two LOAD segments, of all sizes up to a little more than *)
(* two pages, with headers that are not loaded before, between and after.  *)
EXTENDS ElfLoader

MC_Other == [type |-> "GnuStack", va |-> 0, mem_size |-> 0, offset |-> 0,
             file_size |-> 0, flags |-> {"R", "W"}]

MC_Header(va, offset, mem_size, file_size, flags) ==
  [type |-> "Load", va |-> va, mem_size |-> mem_size, offset |-> offset,
   file_size |-> file_size, flags |-> flags]

\* The text segment fills its part of the file; the data segment ends in .bss
\* and may be nothing but .bss.
MC_Text == {MC_Header(va, 10, n, n, {"R", "X"}) : va \in {0, 3}, n \in 1 .. 7}
MC_Data == {MC_Header(va, 20, n, m, {"R", "W"}) : va \in {9, 12, 15}, n \in 1 .. 7, m \in 0 .. 7}

MC_Pairs == {<<t, d>> \in MC_Text \X MC_Data :
               /\ t.va + t.mem_size =< d.va
               /\ d.file_size =< d.mem_size}

MC_Image == {<<t, MC_Other>> : t \in MC_Text}
            \cup {<<p[1], p[2], MC_Other>> : p \in MC_Pairs}
            \cup {<<MC_Other, p[1], MC_Other, p[2]>> : p \in MC_Pairs}

============================================================================
