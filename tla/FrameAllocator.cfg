\* Four frames of memory and five trackers, so that memory runs out.
CONSTANTS
  Tracker = {f1, f2, f3, f4, f5}
  KernelEnd = 2
  MemoryEnd = 6
  NoFrame = NoFrame
SPECIFICATION Spec
INVARIANTS
  NoFrameLost
  ExhaustionIsReal
PROPERTY
  PoolSpec
