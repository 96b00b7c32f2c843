------------------------------ MODULE PageTable -------------------------------
(***************************************************************************)
(* The three-level SV39 page table of os/src/mm/page_table.rs.  Its nodes  *)
(* are physical frames from the pool that all of the kernel shares: a node *)
(* is read as an array of entries, and a frame that another owner gives    *)
(* back still holds what that owner wrote.                                 *)
(*                                                                         *)
(* A virtual page number is the triple of its indexes (VirtPageNum::       *)
(* indexes).  The order in which free frames are handed out is not         *)
(* modelled: frame_alloc may answer any of them.                           *)
(***************************************************************************)
EXTENDS Naturals, FiniteSets

CONSTANTS
  Frame,      \* the physical frames of the pool
  Index,      \* the positions in a node (0..511 in the code)
  Target,     \* what map() is called with: a frame number with flags
  NoFrame     \* no frame, and the entry that is not valid

ASSUME PageTableAssumption == NoFrame \notin Frame \cup Target

VARIABLES
  mem,        \* the content of each frame, read as an array of entries
  root_ppn,   \* the root node, NoFrame while there is no table
  frames,     \* the FrameTrackers of the table: its nodes
  others,     \* the frames that belong to somebody else
  panic       \* why the kernel panicked, or "none"

vars == <<mem, root_ppn, frames, others, panic>>

Vpn == Index \X Index \X Index

\* A valid entry holds the number of the next node or, at the last level, the
\* target.  An entry with all bits 0 is not valid.
empty == NoFrame
is_valid(pte) == pte # empty

ZeroPage == [i \in Index |-> empty]

\* Whatever a frame can hold, a page full of entries that are valid as nodes
\* is the worst for a table that takes the frame over.
Garbage(f) == [i \in Index |-> f]

Free == Frame \ (frames \cup others)

-------------------------------------------------------------------------------
(* The frames.                                                             *)

Init ==
  /\ mem = [f \in Frame |-> Garbage(f)]
  /\ root_ppn = NoFrame
  /\ frames = {}
  /\ others = {}
  /\ panic = "none"

\* Mutant: the frame is handed out as it is.
FrameTracker_new_Dirty(m, f) == m

\* FrameTracker::new clears the frame.
FrameTracker_new(m, f) == [m EXCEPT ![f] = ZeroPage]

\* What frame_alloc can answer when the frames in S are free.
frame_alloc(S) == IF S = {} THEN {NoFrame} ELSE S

Panic(why) == panic' = why /\ UNCHANGED <<mem, root_ppn, frames, others>>

\* Somebody else takes a frame and fills it, or gives one back.
other_alloc(f) ==
  /\ f \in Free
  /\ others' = others \cup {f}
  /\ mem' = [FrameTracker_new(mem, f) EXCEPT ![f] = Garbage(f)]
  /\ UNCHANGED <<root_ppn, frames, panic>>

other_drop(f) ==
  /\ f \in others
  /\ others' = others \ {f}
  /\ UNCHANGED <<mem, root_ppn, frames, panic>>

-------------------------------------------------------------------------------
(* The table.                                                              *)

\* PageTable::new: a root node and nothing below it.
new ==
  /\ root_ppn = NoFrame
  /\ \E f \in frame_alloc(Free) :
        IF f = NoFrame THEN Panic("out of frames")
        ELSE /\ root_ppn' = f
             /\ frames' = {f}
             /\ mem' = FrameTracker_new(mem, f)
             /\ UNCHANGED <<others, panic>>

\* One round of the loop in find_pte_create, in which frame_alloc answers f
\* if it is called: the walk w follows entry i of its node, or puts a new
\* node there.
descend(w, i, f) ==
  LET pte == w.mem[w.ppn][i] IN
  IF w.failed THEN w
  ELSE IF is_valid(pte) THEN [w EXCEPT !.ppn = pte]
  ELSE IF f = NoFrame THEN [w EXCEPT !.failed = TRUE]
  ELSE [mem    |-> [FrameTracker_new(w.mem, f) EXCEPT ![w.ppn][i] = f],
        ppn    |-> f,
        new    |-> w.new \cup {f},
        failed |-> FALSE]

\* The walks that find_pte_create can make to the node of vpn's leaf entry.
find_pte_create(vpn) ==
  LET start == [mem |-> mem, ppn |-> root_ppn, new |-> {}, failed |-> FALSE]
      first == {descend(start, vpn[1], f) : f \in frame_alloc(Free)}
  IN UNION {{descend(w, vpn[2], f) : f \in frame_alloc(Free \ w.new)} : w \in first}

\* The walk changes the table as it goes: a node that it linked stays there,
\* and in frames, also when the next one cannot be had.
map(vpn, target) ==
  /\ root_ppn # NoFrame
  /\ \E w \in find_pte_create(vpn) :
        /\ frames' = frames \cup w.new
        /\ IF w.failed THEN mem' = w.mem /\ panic' = "out of frames"
           ELSE IF is_valid(w.mem[w.ppn][vpn[3]])
           THEN mem' = w.mem /\ panic' = "vpn is mapped before mapping"
           ELSE mem' = [w.mem EXCEPT ![w.ppn][vpn[3]] = target] /\ UNCHANGED panic
  /\ UNCHANGED <<root_ppn, others>>

\* Mutant: the second level is not checked.
find_pte_Unchecked(vpn) ==
  IF is_valid(mem[root_ppn][vpn[1]]) THEN mem[root_ppn][vpn[1]] ELSE NoFrame

\* find_pte: the node that holds vpn's leaf entry, NoFrame if there is none.
find_pte(vpn) ==
  LET e1 == mem[root_ppn][vpn[1]] IN
  IF is_valid(e1) /\ is_valid(mem[e1][vpn[2]]) THEN mem[e1][vpn[2]] ELSE NoFrame

\* The Option that translate answers: None is <<>>, Some(pte) is <<pte>>, also
\* for an entry that is not valid.
translate(vpn) ==
  IF find_pte(vpn) = NoFrame THEN <<>> ELSE <<mem[find_pte(vpn)][vpn[3]]>>

unmap(vpn) ==
  /\ root_ppn # NoFrame
  /\ IF translate(vpn) = <<>> THEN Panic("unwrap of None")
     ELSE IF is_valid(translate(vpn)[1])
     THEN /\ mem' = [mem EXCEPT ![find_pte(vpn)][vpn[3]] = empty]
          /\ UNCHANGED <<root_ppn, frames, others, panic>>
     ELSE Panic("vpn is invalid before unmapping")

\* The table goes out of scope and with it every FrameTracker it holds.
drop ==
  /\ root_ppn # NoFrame
  /\ root_ppn' = NoFrame
  /\ frames' = {}
  /\ UNCHANGED <<mem, others, panic>>

shutdown == panic # "none" /\ UNCHANGED vars

Next ==
  \/ /\ panic = "none"
     /\ \/ new
        \/ drop
        \/ \E vpn \in Vpn : unmap(vpn) \/ \E t \in Target : map(vpn, t)
        \/ \E f \in Frame : other_drop(f) \/ other_alloc(f)
  \/ shutdown

Spec == Init /\ [][Next]_vars

-------------------------------------------------------------------------------

TypeOK ==
  /\ mem \in [Frame -> [Index -> Frame \cup Target \cup {empty}]]
  /\ root_ppn \in Frame \cup {NoFrame}
  /\ frames \subseteq Frame
  /\ others \subseteq Frame \ frames
  /\ panic \in {"none", "out of frames", "vpn is mapped before mapping",
                "unwrap of None", "vpn is invalid before unmapping"}

\* The nodes below node n, and the levels of the table.
Below(n) == {mem[n][i] : i \in Index} \ {empty}
Level1 == {root_ppn}
Level2 == UNION {Below(n) : n \in Level1}
Level3 == UNION {Below(n) : n \in Level2}

(* The nodes form a tree that is made of exactly the frames the table      *)
(* owns: every node is owned, no node serves two entries or two levels,    *)
(* and dropping the table gives back all of them, also after a walk that   *)
(* ran out of frames half way.                                             *)
NodesFormATree ==
  /\ TypeOK
  /\ root_ppn # NoFrame =>
    /\ frames = Level1 \cup Level2 \cup Level3
    /\ root_ppn \notin Level2 \cup Level3
    /\ Level2 \cap Level3 = {}
    /\ \A n, m \in Level1 \cup Level2 : \A i, j \in Index :
          mem[n][i] = mem[m][j] /\ is_valid(mem[n][i]) => n = m /\ i = j

(* The table behaves as a partial map from pages to targets, whatever the  *)
(* frames it is given held before: an entry is found exactly if its page   *)
(* was mapped and not unmapped since, with what it was mapped to.          *)
Mapping == INSTANCE PageMap WITH
  Leaf     <- Target,
  Unmapped <- empty,
  entry    <- [v \in Vpn |-> IF root_ppn = NoFrame \/ translate(v) = <<>>
                             THEN empty ELSE translate(v)[1]]

MappingSpec == Mapping!Spec
===============================================================================
