\* One instance with credentials, a three-template chain, two edits, one interference, one failure.
SPECIFICATION Spec
CONSTANTS
  Clusters = {}
  Instances = {"v1"}
  Templates = {"a", "b", "c"}
  ProfileNames = {"default"}
  Names <- MCNames
  None = None
  BindingName <- MCBindingName
  ProfileSpecs <- ChainProfiles
  ClusterSpecs <- NoClusters
  InstanceSpecs <- ChainInstances
  DefaultProfiles = {"default"}
  SharedNodesProfile = "default"
  PrivateNodesProfile = "default"
  Credentials = TRUE
  HandMade <- ChainHandMade
  MaxEdits = 2
  MaxHands = 1
  MaxFaults = 1
INVARIANT TypeOK
INVARIANT PassSound
PROPERTY GatedCreation
PROPERTY DependentsGoFirst
