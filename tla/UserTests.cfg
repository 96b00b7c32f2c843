\* Blocks for INITPROC, a test and its children, and one to spare.
CONSTANTS
  Tcb = {init, t1, t2, t3, t4, t5}
  INITPROC = init
  None = None
  Path <- MCApps
  AppNames <- MCApps
  InitApp = "initproc"
  UserSp <- MCUserSp
  UserCode = {0}
  NoRet = NoRet
  NUM = 3
  YIELDS = 3
  DEPTH = 1
  TESTS <- MCTESTS
SPECIFICATION SpecTests
INVARIANT TestsPass
PROPERTY TestsFinish
