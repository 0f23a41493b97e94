SPECIFICATION Spec
CONSTANTS
  Location <- MCLocation
  FileSource <- MCFileSource
  VolumeSource <- MCVolumeSource
  Install <- MCInstall
  Appdata <- MCAppdata
  MaxMounts = 3
  Volume <- MCVolume
  Writable = {"appdata", "mod"}
  Content <- MCContent
  Written = {"new"}
  Trees <- MCTrees
  Mounts <- MCMounts
  Faults <- MCFaults
  MaxCalls = 1
INVARIANTS
  FilesVisible
  NamespaceCoherent
  WritesReadBack
  MovesAllOrFails
CHECK_DEADLOCK FALSE
