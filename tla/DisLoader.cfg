CONSTANTS
  Modules <- MCModules
  Damage <- MCDamage
  DamagedBytes = {0, 1, 97, 127, 159, 255}
SPECIFICATION Spec
CHECK_DEADLOCK FALSE
INVARIANTS
  TypeOK
  RoundTrip
  WholeLoads
  
  Coherent
PROPERTY Terminates
