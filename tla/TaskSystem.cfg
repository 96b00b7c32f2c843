\* Three blocks besides INITPROC: room for orphans, adoption and pid reuse.  The
\* exit code of programs and the two fault codes tell the children apart.
CONSTANTS
  Tcb = {init, t1, t2, t3}
  INITPROC = init
  None = None
  Path = {initproc, nosuch}
  AppNames = {initproc}
  InitApp = initproc
  UserSp <- MCUserSp
  UserCode = {7}
  NoRet = NoRet
SPECIFICATION Spec
SYMMETRY Blocks
INVARIANTS
  ScheduledExactlyOnce
  ParentsMatchChildren
  StrongCountExact
  PidsExact
  NoInternalPanic
  IdleFindsATask
  NeverBorrowedTwice
PROPERTY
  TreeSpec
