SPECIFICATION Spec
CONSTANTS
  r1 = r1
  r2 = r2
  Remote <- Two
  Limits = {0, 1}
  MaxTick = 2
  MaxInput = 2
  MaxHostInput = 0
SYMMETRY Symmetry
INVARIANTS
  RemotesRunTheHostsFrames
  NoBreach
  SidesAgree
  InputsOnceInOrder
  WithinClientLimit
  PlayersDistinct
CHECK_DEADLOCK FALSE
