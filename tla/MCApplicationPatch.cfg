\* One edit, interference, status update and failure, in any order.
SPECIFICATION FairSpec
CONSTANTS
  Bodies <- MCBodies
  Normal <- MCNormal
  Keys = {"x", "y"}
  Values = {"v", "w"}
  Templates <- MCTemplates
  Template <- MCTemplate
  Defaults <- MCDefaults
  Sources <- MCSources
  None = None
  MaxEdits = 1
  MaxHands = 1
  MaxStatus = 1
  MaxFaults = 1
INVARIANTS
  TypeOK
  SkippedPatchIsNoOp
  MemorySound
PROPERTIES
  QuietLasts
  DriftRepaired
  EventuallyQuiet
