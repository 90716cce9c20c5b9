\* Liveness: a cluster and an instance converge; nothing wanted is pruned.
SPECIFICATION HFairSpec
CONSTANTS
  Clusters = {"c1"}
  Instances = {"v1"}
  Templates = {"a", "b"}
  ProfileNames = {"shared", "private"}
  Names <- MCNames
  None = None
  BindingName <- MCBindingName
  ProfileSpecs <- TurnedProfiles
  ClusterSpecs <- PairClusters
  InstanceSpecs <- PairInstances
  DefaultProfiles = {"private"}
  SharedNodesProfile = "shared"
  PrivateNodesProfile = "private"
  Credentials = TRUE
  HandMade <- NothingByHand
  MaxEdits = 1
  MaxHands = 0
  MaxFaults = 1
PROPERTY GatedCreation
PROPERTY WantedBindingsKept
PROPERTY StaysSettled
PROPERTY EventuallyConverged
