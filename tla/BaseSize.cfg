\* Two applications of different sizes.
CONSTANTS
  Tcb = {init, t1, t2}
  INITPROC = init
  None = None
  Path = {initproc, user_shell}
  AppNames = {initproc, user_shell}
  InitApp = initproc
  UserSp <- MCUserSp
  UserCode = {0}
  NoRet = NoRet
SPECIFICATION Spec
INVARIANT
  BaseSizeIsTopOfImage
