SPECIFICATION FairSpec
CONSTANTS
  Images = 1
  Shaders = 1
  Lifetime <- OneLifetime
  g1 = g1
  g2 = g2
  c1 = c1
  c2 = c2
  c3 = c3
  Group = {g1}
  Preparing = {g1}
  Region = {1, 2}
  Commands = {c1, c2, c3}
  PlacingThrows = FALSE
  PrepareThrows = TRUE
  FramesDropped = FALSE
  MaxPages = 3
  MaxTimepoint = 2
  MaxGeneration = 1
  MaxLoads = 2
PROPERTIES
  LoadingSettles
  EverythingReleased
CHECK_DEADLOCK FALSE
