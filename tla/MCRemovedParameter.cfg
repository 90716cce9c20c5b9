\* A parameter besides the default, then the default alone.
SPECIFICATION Spec
CONSTANTS
  Bodies <- MCBodies
  Normal <- MCNormal
  Keys = {"x", "y"}
  Values = {"v", "w"}
  Templates <- MCTemplates
  Template <- MCTemplate
  Defaults <- MCDefaults
  Sources <- OneBody
  None = None
  MaxEdits = 1
  MaxHands = 0
  MaxStatus = 0
  MaxFaults = 0
PROPERTY RemovedParametersGo
