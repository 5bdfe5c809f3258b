CONSTANTS
  HeapBase = 512
  DataSize = 12
  HeapSize = 116
  MapSize = 160
  Types = {1, 2}
  TypeSize <- MCSmallSize
  Maps <- MCMaps
  ProbeOffset = 4
  MaxI32 = 1023
  USize = 4194304
  Builds = {"debug", "release"}
  Producers = {"nested"}
  Offsets = {0, 4}
  Lengths = {0, 1, 3}
  Indexes = {0, 1}
  MaxItems <- MCMaxItems
SPECIFICATION Spec
CHECK_DEADLOCK FALSE
INVARIANT HeapWithinSize
