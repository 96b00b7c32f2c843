\* Two programs of three and four pages and one kernel stack page per process:
\* two processes can live at a time, and the larger exec can run out of frames.
CONSTANTS
  Frame = {1, 2, 3, 4, 5, 6, 7, 8, 9, 10, 11, 12}
  MaxPid = 1
  App = {"shell", "small"}
  Segments <- MCSegments
  Data = {1}
  PAGE_SIZE = 2
  USER_STACK_SIZE = 2
  KERNEL_STACK_SIZE = 2
  TRAMPOLINE = 7
  NoFrame = NoFrame
  TrampolineFrame = TrampolineFrame
  frames_for <- MCFrames
SPECIFICATION Spec
INVARIANTS
  FramesOwnedOnce
  TablesMatchAreas
  TrapContextIsCurrent
  GuardPagesUnmapped
PROPERTY
  PrivateMemorySpec
