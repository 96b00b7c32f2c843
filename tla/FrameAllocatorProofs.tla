------------------------- MODULE FrameAllocatorProofs -------------------------
(***************************************************************************)
(* Proofs that the frame allocator neither loses nor duplicates a frame,   *)
(* for every memory size and any number of trackers.                       *)
(***************************************************************************)
EXTENDS FrameAllocator, SequenceTheorems, TLAPS

-------------------------------------------------------------------------------
(* Sequences.                                                              *)

(* Pushing e: the elements are those of s and e; a new e keeps the         *)
(* sequence free of duplicates.                                            *)
LEMMA AppendLemma ==
  ASSUME NEW S, NEW s \in Seq(S), NEW e \in S
  PROVE  /\ Append(s, e) \in Seq(S)
         /\ Append(s, e) # <<>>
         /\ Range(Append(s, e)) = Range(s) \cup {e}
         /\ IsInjective(s) /\ e \notin Range(s) => IsInjective(Append(s, e))
<1>1. /\ Append(s, e) \in Seq(S)
      /\ Len(Append(s, e)) = Len(s) + 1
      /\ \A i \in 1 .. Len(s) : Append(s, e)[i] = s[i]
      /\ Append(s, e)[Len(s) + 1] = e
  OBVIOUS
<1>2. DOMAIN Append(s, e) = 1 .. Len(s) + 1 /\ DOMAIN s = 1 .. Len(s)
  BY <1>1
<1>3. Range(Append(s, e)) = Range(s) \cup {e}
  BY <1>1, <1>2 DEF Range
<1>4. ASSUME IsInjective(s), e \notin Range(s)
      PROVE  IsInjective(Append(s, e))
  BY <1>1, <1>2, <1>4 DEF Range, IsInjective
<1> QED BY <1>1, <1>3, <1>4

(* Popping the last element of a sequence without duplicates.              *)
LEMMA FrontLemma ==
  ASSUME NEW S, NEW s \in Seq(S), s # <<>>
  PROVE  /\ Front(s) \in Seq(S)
         /\ Last(s) \in S
         /\ Last(s) \in Range(s)
         /\ IsInjective(s) => /\ IsInjective(Front(s))
                              /\ Range(Front(s)) = Range(s) \ {Last(s)}
<1>1. Len(s) \in Nat \ {0} /\ DOMAIN s = 1 .. Len(s)
  BY EmptySeq, LenProperties
<1>2. \A i \in 1 .. Len(s) - 1 : s[i] \in S
  BY <1>1, ElementOfSeq
<1>3. /\ Front(s) \in Seq(S)
      /\ Len(Front(s)) = Len(s) - 1
      /\ \A i \in 1 .. Len(s) - 1 : Front(s)[i] = s[i]
  BY <1>1, <1>2, SubSeqProperties, Z3 DEF Front
<1>4. DOMAIN Front(s) = 1 .. Len(s) - 1
  BY <1>1, <1>3, LenProperties
<1>5. Last(s) \in S /\ Last(s) \in Range(s)
  BY <1>1, ElementOfSeq DEF Last, Range
<1>6. ASSUME IsInjective(s)
      PROVE  IsInjective(Front(s)) /\ Range(Front(s)) = Range(s) \ {Last(s)}
  BY <1>1, <1>3, <1>4, <1>6 DEF Range, IsInjective, Last
<1> QED BY <1>3, <1>5, <1>6

(* StackFrameAllocator::new establishes the invariant.                     *)
LEMMA InitInv == Init => Inv
<1> SUFFICES ASSUME Init PROVE Inv
  OBVIOUS
<1> USE FrameRangeAssumption DEF Init
<1>1. TypeOK
  <2>1. recycled \in Seq(Frames)
    BY EmptySeq
  <2>2. ppn \in [Tracker -> Frames \cup {NoFrame}]
    OBVIOUS
  <2> QED BY <2>1, <2>2 DEF TypeOK
<1>2. Live = {} /\ Held = {}
  BY DEF Live, Held
<1>3. Range(recycled) = {} /\ IsInjective(recycled)
  BY DEF Range, IsInjective
<1>4. KernelEnd .. current - 1 = {}
  OBVIOUS
<1>5. NoFrameLost
  BY <1>2, <1>3, <1>4 DEF NoFrameLost
<1> QED BY <1>1, <1>2, <1>5 DEF Inv, IntervalOK, ExclusiveFrames, DropNeverPanics

(* While nothing has been initialised nothing can be out.                  *)
LEMMA NothingBeforeInit ==
  ASSUME Inv, end = 0
  PROVE  recycled = <<>> /\ OutOfFrames /\ Live = {}
<1> USE FrameRangeAssumption
<1>1. current = 0 /\ KernelEnd .. current - 1 = {}
  BY DEF Inv, IntervalOK
<1>2. Range(recycled) = {} /\ Held = {}
  BY <1>1 DEF Inv, NoFrameLost
<1>3. recycled = <<>>
  <2>1. recycled \in Seq(Frames)
    BY DEF Inv, TypeOK
  <2>2. SUFFICES ASSUME recycled # <<>> PROVE FALSE
    OBVIOUS
  <2> QED BY <1>2, <2>1, <2>2, FrontLemma
<1> QED BY <1>1, <1>2, <1>3 DEF OutOfFrames, Held

(* A frame that alloc hands out is a managed one and belonged to nobody.   *)
LEMMA NextFrameIsFree ==
  ASSUME Inv, ~OutOfFrames
  PROVE  NextFrame \in Frames /\ NextFrame \notin Held
<1> USE FrameRangeAssumption DEF Inv
<1>1. end = MemoryEnd /\ KernelEnd =< current /\ current =< MemoryEnd
  BY NothingBeforeInit DEF TypeOK, IntervalOK
<1>2. recycled \in Seq(Frames) /\ current \in Nat
  BY <1>1 DEF TypeOK
<1>3. CASE recycled # <<>>
  <2>1. Last(recycled) \in Frames /\ Last(recycled) \in Range(recycled)
    BY <1>2, <1>3, FrontLemma
  <2> QED BY <1>3, <2>1 DEF NextFrame, NoFrameLost
<1>4. CASE recycled = <<>>
  <2>1. current # end
    BY <1>4 DEF OutOfFrames
  <2>2. current \in Frames
    BY <1>1, <1>2, <2>1 DEF Frames
  <2>3. current \notin KernelEnd .. current - 1
    BY <1>2
  <2> QED BY <1>4, <2>2, <2>3 DEF NextFrame, NoFrameLost
<1> QED BY <1>3, <1>4

(* The check in dealloc never fails for the frame of a live tracker.       *)
LEMMA HeldIsAllocated ==
  ASSUME Inv, NEW f \in Live
  PROVE  ppn[f] \in Frames /\ ~NotAllocated(ppn[f])
<1> USE FrameRangeAssumption DEF Inv
<1>1. ppn[f] \in Held /\ ppn[f] \in Frames /\ f \in Tracker
  BY DEF Held, Live, TypeOK
<1>2. ppn[f] \in KernelEnd .. current - 1 /\ ppn[f] \notin Range(recycled)
  BY <1>1 DEF NoFrameLost
<1>3. current \in Int
  BY DEF TypeOK
<1> QED BY <1>1, <1>2, <1>3 DEF NotAllocated

LEMMA frame_allocInv ==
  ASSUME Inv, NEW f \in Tracker, frame_alloc(f)
  PROVE  Inv'
<1> USE FrameRangeAssumption
<1>1. NextFrame \in Frames /\ NextFrame \notin Held /\ ~OutOfFrames
  BY NextFrameIsFree DEF frame_alloc, alloc
<1>2. end = MemoryEnd /\ end # 0 /\ KernelEnd =< current /\ current =< MemoryEnd
  BY <1>1, NothingBeforeInit DEF Inv, TypeOK, IntervalOK
<1>3. recycled \in Seq(Frames) /\ current \in Nat /\ IsInjective(recycled)
  BY <1>2 DEF Inv, TypeOK, NoFrameLost
<1>4. ppn' = [ppn EXCEPT ![f] = NextFrame] /\ f \notin Live
  BY DEF frame_alloc
<1>5. ppn \in [Tracker -> Frames \cup {NoFrame}] /\ NoFrame \notin Frames
  BY DEF Inv, TypeOK, Frames
<1>6. Live' = Live \cup {f} /\ Held' = Held \cup {NextFrame}
  BY <1>1, <1>4, <1>5 DEF Live, Held
<1>7. ExclusiveFrames'
  BY <1>1, <1>4, <1>5, <1>6 DEF ExclusiveFrames, Held, Live, Inv
<1>8. UNCHANGED <<end, panicked>>
  BY DEF frame_alloc
<1>9. CASE recycled # <<>>
  <2>1. recycled' = Front(recycled) /\ current' = current /\ NextFrame = Last(recycled)
    BY <1>9 DEF frame_alloc, alloc, NextFrame
  <2>2. /\ recycled' \in Seq(Frames) /\ IsInjective(recycled')
        /\ Range(recycled') = Range(recycled) \ {NextFrame}
        /\ NextFrame \in Range(recycled)
    BY <1>3, <1>9, <2>1, FrontLemma
  <2>3. TypeOK'
    BY <1>1, <1>4, <1>5, <1>8, <2>1, <2>2 DEF Inv, TypeOK
  <2>4. NoFrameLost'
    BY <1>1, <1>6, <2>1, <2>2 DEF Inv, NoFrameLost
  <2> QED BY <1>7, <1>8, <2>1, <2>3, <2>4 DEF Inv, IntervalOK, DropNeverPanics
<1>10. CASE recycled = <<>>
  <2>1. recycled' = recycled /\ current' = current + 1 /\ NextFrame = current
    BY <1>10 DEF frame_alloc, alloc, NextFrame
  <2>2. current < MemoryEnd
    BY <1>1, <1>2, <1>3, <1>10 DEF OutOfFrames
  <2>3. TypeOK'
    BY <1>1, <1>2, <1>3, <1>4, <1>5, <1>8, <2>1, <2>2 DEF Inv, TypeOK
  <2>4. KernelEnd .. current' - 1 = (KernelEnd .. current - 1) \cup {current}
    BY <1>2, <1>3, <2>1
  <2>5. NoFrameLost'
    BY <1>1, <1>6, <2>1, <2>4, <1>10 DEF Inv, NoFrameLost, Range
  <2> QED BY <1>2, <1>3, <1>7, <1>8, <2>1, <2>2, <2>3, <2>5
          DEF Inv, IntervalOK, DropNeverPanics
<1> QED BY <1>9, <1>10

LEMMA drop_trackerInv ==
  ASSUME Inv, NEW f \in Tracker, drop_tracker(f)
  PROVE  Inv'
<1> USE FrameRangeAssumption
<1>1. f \in Live /\ ppn[f] \in Frames /\ ~NotAllocated(ppn[f])
  BY HeldIsAllocated DEF drop_tracker
<1>2. /\ ppn' = [ppn EXCEPT ![f] = NoFrame]
      /\ panicked' = FALSE
      /\ recycled' = Append(recycled, ppn[f])
      /\ UNCHANGED <<current, end>>
  BY <1>1 DEF drop_tracker
<1>3. ppn \in [Tracker -> Frames \cup {NoFrame}] /\ NoFrame \notin Frames
  BY DEF Inv, TypeOK, Frames
<1>4. Live' = Live \ {f} /\ Held' = Held \ {ppn[f]} /\ ppn[f] \in Held
  BY <1>1, <1>2, <1>3 DEF Live, Held, Inv, ExclusiveFrames
<1>5. ppn[f] \notin Range(recycled) /\ recycled \in Seq(Frames) /\ IsInjective(recycled)
  BY <1>1, <1>4 DEF Inv, TypeOK, NoFrameLost
<1>6. /\ recycled' \in Seq(Frames) /\ IsInjective(recycled')
      /\ Range(recycled') = Range(recycled) \cup {ppn[f]}
  BY <1>1, <1>2, <1>5, AppendLemma
<1>7. TypeOK'
  BY <1>2, <1>3, <1>6 DEF Inv, TypeOK
<1>8. ExclusiveFrames'
  BY <1>2, <1>3, <1>4 DEF Inv, ExclusiveFrames, Live
<1>9. NoFrameLost'
  BY <1>2, <1>4, <1>6 DEF Inv, NoFrameLost
<1> QED BY <1>2, <1>7, <1>8, <1>9 DEF Inv, IntervalOK, DropNeverPanics

(* Every operation preserves the invariant.                                *)
LEMMA NextInv == Inv /\ [Next]_vars => Inv'
<1> SUFFICES ASSUME Inv, [Next]_vars PROVE Inv'
  OBVIOUS
<1>1. CASE init_frame_allocator
  <2> USE FrameRangeAssumption
  <2>1. /\ current' = KernelEnd /\ end' = MemoryEnd
        /\ UNCHANGED <<recycled, ppn, panicked>>
    BY <1>1 DEF init_frame_allocator
  <2>2. recycled = <<>> /\ Live = {}
    BY <1>1, NothingBeforeInit DEF init_frame_allocator
  <2>3. Live' = {} /\ Held' = {} /\ Range(recycled') = {} /\ IsInjective(recycled')
    BY <2>1, <2>2 DEF Live, Held, Range, IsInjective
  <2>4. KernelEnd .. current' - 1 = {}
    BY <2>1
  <2>5. TypeOK' /\ NoFrameLost' /\ IntervalOK'
    BY <2>1, <2>3, <2>4 DEF Inv, TypeOK, NoFrameLost, IntervalOK
  <2> QED BY <2>1, <2>3, <2>5 DEF Inv, ExclusiveFrames, DropNeverPanics
<1>2. CASE frame_alloc_none
  BY <1>2 DEF frame_alloc_none, vars, Inv, TypeOK, IntervalOK, ExclusiveFrames,
              NoFrameLost, DropNeverPanics, Held, Live
<1>3. ASSUME NEW f \in Tracker, frame_alloc(f) PROVE Inv'
  BY <1>3, frame_allocInv
<1>4. ASSUME NEW f \in Tracker, drop_tracker(f) PROVE Inv'
  BY <1>4, drop_trackerInv
<1>5. CASE UNCHANGED vars
  BY <1>5 DEF vars, Inv, TypeOK, IntervalOK, ExclusiveFrames, NoFrameLost,
              DropNeverPanics, Held, Live
<1> QED BY <1>1, <1>2, <1>3, <1>4, <1>5 DEF Next

(* The invariant holds in every reachable state: no frame is lost or owned *)
(* twice, whatever the order of allocations and drops.                     *)
THEOREM FrameInvariant == Spec => []Inv
BY InitInv, NextInv, PTL DEF Spec

(* Fields of StackFrameAllocator stay in their ranges.                     *)
THEOREM FrameTypeCorrect == Spec => []TypeOK
BY FrameInvariant, PTL DEF Inv

(* Each frame that was handed out has one owner or is on the stack once.   *)
THEOREM FramesConserved == Spec => []NoFrameLost
BY FrameInvariant, PTL DEF Inv

(* The panic in StackFrameAllocator::dealloc is unreachable.               *)
THEOREM DeallocNeverPanics == Spec => []DropNeverPanics
BY FrameInvariant, PTL DEF Inv

(* frame_alloc answers None only when every frame has an owner.            *)
THEOREM NoneMeansExhausted == Spec => []ExhaustionIsReal
<1>1. Inv => ExhaustionIsReal
  <2> SUFFICES ASSUME Inv, recycled = <<>>, current = end, end # 0
               PROVE  Held = Frames
    BY DEF ExhaustionIsReal, OutOfFrames
  <2>1. end = MemoryEnd
    BY DEF Inv, TypeOK
  <2>2. Range(recycled) = {}
    BY DEF Range
  <2> QED BY <2>1, <2>2 DEF Inv, NoFrameLost, Frames
<1> QED BY <1>1, FrameInvariant, PTL

(* The stack allocator implements the abstract pool of frames: a tracker   *)
(* only ever receives a frame that no other tracker owns.                  *)
THEOREM AllocatorImplementsPool == Spec => PoolSpec
<1>1. Init => Pool!Init
  BY DEF Init, Pool!Init
<1>2. Inv /\ [Next]_vars => [Pool!Next]_ppn
  <2> SUFFICES ASSUME Inv, [Next]_vars PROVE [Pool!Next]_ppn
    OBVIOUS
  <2>1. CASE init_frame_allocator \/ frame_alloc_none \/ UNCHANGED vars
    BY <2>1 DEF init_frame_allocator, frame_alloc_none, vars
  <2>2. ASSUME NEW f \in Tracker, frame_alloc(f) PROVE Pool!Next
    <3>1. NextFrame \in Frames /\ NextFrame \notin Held
      BY <2>2, NextFrameIsFree DEF frame_alloc, alloc
    <3>2. ppn' = [ppn EXCEPT ![f] = NextFrame] /\ ppn[f] = NoFrame
      BY <2>2 DEF frame_alloc, Live
    <3>3. NoFrame \notin Frames
      BY FrameRangeAssumption DEF Frames
    <3>4. Pool!Acquire(f, NextFrame)
      BY <3>1, <3>2, <3>3 DEF Pool!Acquire, Held, Live
    <3> QED BY <3>1, <3>4 DEF Pool!Next
  <2>3. ASSUME NEW f \in Tracker, drop_tracker(f) PROVE Pool!Next
    BY <2>3 DEF drop_tracker, Live, Pool!Next, Pool!Release
  <2> QED BY <2>1, <2>2, <2>3 DEF Next
<1> QED BY <1>1, <1>2, FrameInvariant, PTL DEF Spec, PoolSpec, Pool!Spec
===============================================================================
