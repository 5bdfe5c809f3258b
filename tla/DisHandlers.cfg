CONSTANTS
  Modules <- Handling
  Damage <- MCDamageNone
  DamagedBytes = {0}
SPECIFICATION Spec
CHECK_DEADLOCK FALSE
INVARIANT HandlersLoad
