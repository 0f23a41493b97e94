SPECIFICATION Spec
SYMMETRY Symmetry
CONSTANTS
  Images = 2
  Shaders = 0
  Lifetime <- OneLifetime
  g1 = g1
  g2 = g2
  c1 = c1
  c2 = c2
  c3 = c3
  Group = {g1}
  Preparing = {g1}
  Region = {1, 2}
  Commands = {c1, c2, c3}
  PlacingThrows = FALSE
  PrepareThrows = TRUE
  FramesDropped = TRUE
  MaxPages = 3
  MaxTimepoint = 2
  MaxGeneration = 1
  MaxLoads = 2
INVARIANTS
  ReadyGroupServed
  OneUploaderPerPage
CHECK_DEADLOCK FALSE
