\* Two entries per node; a full table would need seven frames, so memory can
\* run out in the middle of a walk.
CONSTANTS
  Frame = {f1, f2, f3, f4, f5}
  Index = {0, 1}
  Target = {leaf}
  NoFrame = NoFrame
SPECIFICATION Spec
SYMMETRY Frames
INVARIANTS
  NodesFormATree
PROPERTY
  MappingSpec
