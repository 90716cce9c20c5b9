\* A profile edit changes the depth of a template; nothing fails.
SPECIFICATION Spec
CONSTANTS
  Clusters = {"c1"}
  Instances = {}
  Templates = {"a", "b", "c"}
  ProfileNames = {"default"}
  Names <- MCNames
  None = None
  BindingName <- MCBindingName
  ProfileSpecs <- DriftProfiles
  ClusterSpecs <- DriftClusters
  InstanceSpecs <- NoInstances
  DefaultProfiles = {"default"}
  SharedNodesProfile = "default"
  PrivateNodesProfile = "default"
  Credentials = FALSE
  HandMade <- NothingByHand
  MaxEdits = 2
  MaxHands = 0
  MaxFaults = 0
PROPERTY DependentsGoFirst
