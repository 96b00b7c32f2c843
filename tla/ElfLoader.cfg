CONSTANTS
  Image <- MC_Image
  PAGE_SIZE = 3
  VA_SIZE = 33
  ENTRIES = 3
  USER_STACK_SIZE = 6
  Frames = {2, 7, 10, 16}
SPECIFICATION Spec
INVARIANTS ImageIsLoaded StackAboveEverySegment FailsOnlyForLackOfRoom
