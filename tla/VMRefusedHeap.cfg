CONSTANTS
  HeapBase = 512
  FrameBase = 768
  HeapExtra = 64
  Page = 16
  Files <- MCFiles
  NoName = ""
  Builds = {"debug", "release"}
  MaxCalls = 2
  FrameSizes = {0, 24}
SPECIFICATION Spec
CHECK_DEADLOCK FALSE
INVARIANT RefusedHeapIsNoticed
