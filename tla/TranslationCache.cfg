CONSTANTS
  MaxPid = 1
  Frame <- MC_Frame
  Program <- MC_Program
  KERNEL_STACK_PAGES = 2
  NoFrame = 0
SPECIFICATION Spec
INVARIANTS UsedTranslationsAreCurrent InstructionsAreCurrent
