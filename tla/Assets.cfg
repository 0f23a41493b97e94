SPECIFICATION Spec
SYMMETRY Symmetry
CONSTANTS
  Images = 1
  Shaders = 0
  Lifetime <- OneLifetime
  g1 = g1
  g2 = g2
  c1 = c1
  c2 = c2
  c3 = c3
  Group = {g1, g2}
  Preparing = {}
  Region = {1}
  Commands = {c1}
  PlacingThrows = TRUE
  PrepareThrows = FALSE
  FramesDropped = FALSE
  MaxPages = 2
  MaxTimepoint = 2
  MaxGeneration = 2
  MaxLoads = 2
INVARIANTS
  DemandCounted
  RegionsHeldOnce
  ReadsIntact
CHECK_DEADLOCK FALSE
