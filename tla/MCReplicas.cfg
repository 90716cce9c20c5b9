\* Two replicas and an instance that opts out and back in.
SPECIFICATION FairSpec
CONSTANTS
  None = None
  Clusters = {}
  Instances = {"v1"}
  KeyName <- MCKeyName
  ClusterStates <- ProdCluster
  InstanceStates = {"awake", "off"}
  DefaultSelector <- Baseline
  Settings <- ChartOnly
  Sites <- NoRefusals
  Pods = {"p1", "p2"}
  replicaCount = 2
  MaxEvents = 2
PROPERTY SecretBeforeCollector
CHECK_DEADLOCK FALSE
