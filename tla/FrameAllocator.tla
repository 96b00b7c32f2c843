---------------------------- MODULE FrameAllocator ----------------------------
(***************************************************************************)
(* The physical frame allocator of os/src/mm/frame_allocator.rs: the       *)
(* never-used frames are the interval current..end-1, the returned ones    *)
(* are kept on a stack.  A FrameTracker owns its frame and gives it back   *)
(* when it is dropped (RAII).                                              *)
(***************************************************************************)
EXTENDS Integers, SequencesExt

CONSTANTS
  Tracker,      \* the FrameTracker objects
  KernelEnd,    \* first frame above the kernel image: ceil(ekernel)
  MemoryEnd,    \* frame just past the end of memory: floor(MEMORY_END)
  NoFrame       \* the frame of a FrameTracker that does not exist

\* The kernel image lies inside memory and does not start at address 0.
ASSUME FrameRangeAssumption ==
  /\ KernelEnd \in Nat \ {0}
  /\ MemoryEnd \in Nat
  /\ KernelEnd =< MemoryEnd
  /\ NoFrame \notin Nat

VARIABLES
  current, end, recycled,   \* the fields of StackFrameAllocator
  ppn,                      \* the frame of each FrameTracker
  panicked                  \* dealloc has panicked, the machine is shut down

vars == <<current, end, recycled, ppn, panicked>>

\* Every frame the allocator manages.
Frames == KernelEnd .. MemoryEnd - 1

Live == {f \in Tracker : ppn[f] # NoFrame}

-------------------------------------------------------------------------------

(* StackFrameAllocator::new: an empty interval, so that nothing can be     *)
(* allocated before init_frame_allocator.                                  *)
Init ==
  /\ current = 0
  /\ end = 0
  /\ recycled = <<>>
  /\ ppn = [f \in Tracker |-> NoFrame]
  /\ panicked = FALSE

(* mm::init calls init_frame_allocator once, before any frame is used.     *)
init_frame_allocator ==
  /\ ~panicked
  /\ end = 0
  /\ current' = KernelEnd
  /\ end' = MemoryEnd
  /\ UNCHANGED <<recycled, ppn, panicked>>

(* Mutant of OutOfFrames: forgets that returned frames can be reused.      *)
OutOfFrames_IgnoresRecycled == current = end

(* Nothing is recycled and the interval is used up: alloc answers None.    *)
OutOfFrames == recycled = <<>> /\ current = end

(* StackFrameAllocator::alloc answers the most recently returned frame,    *)
(* else the next one that was never used.                                  *)
NextFrame == IF recycled # <<>> THEN Last(recycled) ELSE current

(* Mutant of alloc: reads the top of the stack without popping it.         *)
alloc_NoPop ==
  /\ ~OutOfFrames
  /\ current' = IF recycled # <<>> THEN current ELSE current + 1
  /\ UNCHANGED recycled

(* Mutant of alloc: consumes a never-used frame even when one is recycled. *)
alloc_AlwaysAdvances ==
  /\ ~OutOfFrames
  /\ current' = IF current < end THEN current + 1 ELSE current
  /\ recycled' = IF recycled # <<>> THEN Front(recycled) ELSE recycled

alloc ==
  /\ ~OutOfFrames
  /\ recycled' = IF recycled # <<>> THEN Front(recycled) ELSE recycled
  /\ current' = IF recycled # <<>> THEN current ELSE current + 1

(* frame_alloc: what alloc answers becomes the frame of a new tracker.     *)
frame_alloc(f) ==
  /\ ~panicked
  /\ f \notin Live
  /\ alloc
  /\ ppn' = [ppn EXCEPT ![f] = NextFrame]
  /\ UNCHANGED <<end, panicked>>

frame_alloc_none == ~panicked /\ OutOfFrames /\ UNCHANGED vars

(* dealloc's check: a frame that was never handed out, or is already back. *)
NotAllocated(p) == p >= current \/ p \in Range(recycled)

(* Drop of a FrameTracker: frame_dealloc, which panics when the check says *)
(* that the frame is not out.                                              *)
drop_tracker(f) ==
  /\ ~panicked
  /\ f \in Live
  /\ ppn' = [ppn EXCEPT ![f] = NoFrame]
  /\ panicked' = NotAllocated(ppn[f])
  /\ recycled' = IF panicked' THEN recycled ELSE Append(recycled, ppn[f])
  /\ UNCHANGED <<current, end>>

Next ==
  \/ init_frame_allocator
  \/ frame_alloc_none
  \/ \E f \in Tracker : frame_alloc(f) \/ drop_tracker(f)

Spec == Init /\ [][Next]_vars

-------------------------------------------------------------------------------

(* The fields hold page numbers of the managed range, or their value from  *)
(* before init_frame_allocator.                                            *)
TypeOK ==
  /\ current \in {0} \cup (KernelEnd .. MemoryEnd)
  /\ end \in {0, MemoryEnd}
  /\ recycled \in Seq(Frames)
  /\ ppn \in [Tracker -> Frames \cup {NoFrame}]
  /\ panicked \in BOOLEAN

Held == {ppn[f] : f \in Live}

(* Two live trackers never own the same physical frame.                    *)
ExclusiveFrames == \A f, g \in Live : ppn[f] = ppn[g] => f = g

(* Every frame that alloc has ever handed out is owned by a tracker or on  *)
(* the stack, never both and on the stack only once: no sequence of        *)
(* allocations and drops leaks a frame or duplicates one.                  *)
NoFrameLost ==
  /\ Range(recycled) \cup Held = KernelEnd .. current - 1
  /\ Range(recycled) \cap Held = {}
  /\ IsInjective(recycled)

(* The panic in dealloc is unreachable while frames are only returned by   *)
(* dropping their tracker.                                                 *)
DropNeverPanics == ~panicked

(* frame_alloc answers None (and the unwrap in its callers panics) only    *)
(* when every frame of memory really has an owner.                         *)
ExhaustionIsReal == OutOfFrames /\ end # 0 => Held = Frames

(* The inductive invariant: what is out and what is back, and where the    *)
(* interval of never-used frames stands.                                   *)
IntervalOK ==
  /\ end = 0 => current = 0
  /\ end # 0 => KernelEnd =< current /\ current =< end

Inv ==
  /\ TypeOK
  /\ IntervalOK
  /\ ExclusiveFrames
  /\ NoFrameLost
  /\ DropNeverPanics

(* StackFrameAllocator implements the abstract pool: the frame of every    *)
(* new tracker belonged to nobody.                                         *)
Pool == INSTANCE ResourcePool WITH
          Handle <- Tracker, Ids <- Frames, Nothing <- NoFrame, owns <- ppn

PoolSpec == Pool!Spec
===============================================================================
