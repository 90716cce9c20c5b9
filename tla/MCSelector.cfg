\* A selector that names labels of its own.
SPECIFICATION FairSpec
CONSTANTS
  None = None
  Clusters = {"c1"}
  Instances = {}
  KeyName <- MCKeyName
  ClusterStates <- ProdCluster
  InstanceStates = {"absent"}
  DefaultSelector <- Baseline
  Settings <- LabelSettings
  Sites <- NoRefusals
  Pods = {"p1", "p2"}
  replicaCount = 1
  MaxEvents = 0
PROPERTY SelectedClustersBound
CHECK_DEADLOCK FALSE
