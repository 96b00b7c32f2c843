\* Three blocks: a child can be orphaned and adopted, and pids are reused.
CONSTANTS
  Tcb = {init, t1, t2}
  INITPROC = init
  None = None
  Path = {"initproc", "shell", "nosuch"}
  AppNames = {"initproc", "shell"}
  InitApp = "initproc"
  UserSp <- MC_UserSp
  UserCode = {0}
  NoRet = NoRet
  Frame = {1, 2, 3, 4, 5, 6, 7, 8, 9, 10, 11, 12, 13, 14, 15, 16}
  MaxPid = 2
  Segments <- MC_Segments
  Data = {1}
  PAGE_SIZE = 2
  USER_STACK_SIZE = 2
  KERNEL_STACK_SIZE = 2
  TRAMPOLINE = 8
  NoFrame = NoFrame
  TrampolineFrame = TrampolineFrame
  frames_for <- MC_Frames
SPECIFICATION KSpec
SYMMETRY MC_Blocks
VIEW MC_View
INVARIANTS MemoryFollowsTasks NoFrameLeaks ContextIsOfTheProgram
