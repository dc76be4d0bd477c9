SPECIFICATION Spec
CONSTANTS
  Space = 64
  PageSize = 4
  StackPages = 3
  Elfs <- NotedElfs
INVARIANT ImageFaithful
