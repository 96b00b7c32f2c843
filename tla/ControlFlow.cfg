CONSTANTS
  Task <- MC_Task
  InitTask = 2
  Idle = Idle
  None = None
  CodeSize = 3
SPECIFICATION Spec
INVARIANTS HartIsConsistent ContextsAreSaved
PROPERTY VirtualCpuSpec
