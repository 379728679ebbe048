CONSTANTS
  ImageSize = 6
  Got = 2
  NumGot = 4
  NumRel = 4
  BssSize = 2
  Offset = 10
  Word <- MCWord
SPECIFICATION Spec
INVARIANTS RelocationSound
PROPERTY ReachesMain
CHECK_DEADLOCK FALSE
