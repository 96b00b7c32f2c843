------------------------------- MODULE PageMap --------------------------------
(***************************************************************************)
(* What a page table promises: a partial function from virtual page numbers*)
(* to leaf entries.  map adds an entry for a page that has none, unmap     *)
(* removes the entry of a page that has one; the opposite calls panic, and *)
(* so may any call when memory runs out.                                   *)
(***************************************************************************)
CONSTANTS
  Vpn,        \* virtual page numbers
  Leaf,       \* what a page can be mapped to: a frame with its flags
  Unmapped    \* the entry of a page that is not mapped

VARIABLES
  entry,      \* the entry of each page
  panic       \* why the kernel panicked, or "none"

vars == <<entry, panic>>

Init == entry = [v \in Vpn |-> Unmapped] /\ panic = "none"

Map(v, l) ==
  /\ entry[v] = Unmapped
  /\ entry' = [entry EXCEPT ![v] = l]
  /\ UNCHANGED panic

MapPanics(v) ==
  /\ entry[v] # Unmapped
  /\ panic' = "vpn is mapped before mapping"
  /\ UNCHANGED entry

Unmap(v) ==
  /\ entry[v] # Unmapped
  /\ entry' = [entry EXCEPT ![v] = Unmapped]
  /\ UNCHANGED panic

UnmapPanics(v) ==
  /\ entry[v] = Unmapped
  /\ panic' \in {"unwrap of None", "vpn is invalid before unmapping"}
  /\ UNCHANGED entry

OutOfMemory == panic' = "out of frames" /\ UNCHANGED entry

\* The table is dropped.
Clear == entry' = [v \in Vpn |-> Unmapped] /\ UNCHANGED panic

Next ==
  \/ \E v \in Vpn : \/ Unmap(v) \/ UnmapPanics(v) \/ MapPanics(v)
                    \/ \E l \in Leaf : Map(v, l)
  \/ OutOfMemory
  \/ Clear

Spec == Init /\ [][Next]_vars
===============================================================================
