CONSTANTS
  Modules <- MCModules
  Damage <- MCDamage
  DamagedBytes = {0, 1, 16, 255}
  Layout <- MCLayout
  HeapBase = 512
  HeapSize = 400
  MapSize = 512
  ProbeOffset = 4
  MaxI32 = 536870911
  USize = 1073741824
  Builds = {"debug", "release"}
SPECIFICATION LoadedSpec
CHECK_DEADLOCK FALSE
INVARIANTS
  LoadedTypeOK
  DataArrives
  InitialisersLoad
  
PROPERTY LoaderSpec
