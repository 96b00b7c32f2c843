\* Besides INITPROC: the shell, its child, and a grandchild to be orphaned.
CONSTANTS
  Tcb = {init, t1, t2, t3}
  INITPROC = init
  None = None
  Path = {prog}
  AppNames = {prog}
  InitApp = prog
  ShellApp = prog
  UserSp <- MCUserSp
  UserCode = {0}
  NoRet = NoRet
SPECIFICATION SpecPrograms
INVARIANT ShellAssertHolds
PROPERTIES ReadyEventuallyRuns OrphansAreReaped ShellComesBack
