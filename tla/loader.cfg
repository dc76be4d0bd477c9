SPECIFICATION Spec
CONSTANTS
  Space = 64
  PageSize = 4
  StackPages = 3
  Elfs <- MCElfs
INVARIANTS
  Accounted
  FreedOnReturn
  SegmentsMapped
  ImageFaithful
CONSTRAINT FewChunks
