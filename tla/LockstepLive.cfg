SPECIFICATION FairSpec
CONSTANTS
  r1 = r1
  r2 = r2
  Remote <- One
  Limits = {1}
  MaxTick = 2
  MaxInput = 1
  MaxHostInput = 1
PROPERTIES
  LoginSettles
  DeparturesNoticed
CHECK_DEADLOCK FALSE
