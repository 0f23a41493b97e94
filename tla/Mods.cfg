SPECIFICATION Spec
CONSTANTS
  Name <- MCName
  Catalogs <- MCCatalogs
  Reserved = {"settings"}
  Installers = 2
  MaxLoads = 2
  Frames <- MCFrames
  Undecodable = {"broken"}
  Extent <- MCExtent
  FrameExtent = 9
  Padding = 2
  MipLevels = 3
  MinimumExtent = 4
  LargestFrame = 20
  LargestAtlas = 128
  BatchLimit = 400
  Workers = 2
INVARIANTS
  AllOrNothing
  DependenciesFirst
  FramesCopiedOnce
  FramesKeptApart
PROPERTIES
  ProgressNeverFalls
  LoadsFinish
