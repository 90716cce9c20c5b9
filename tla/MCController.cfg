\* A cluster and an instance under changing settings, one refused.
SPECIFICATION FairSpec
CONSTANTS
  None = None
  Clusters = {"c1"}
  Instances = {"v1"}
  KeyName <- MCKeyName
  ClusterStates <- TurnedOffCluster
  InstanceStates = {"awake", "asleep", "off", "absent"}
  DefaultSelector <- Baseline
  Settings <- ToggledSettings
  Sites <- OneRefusal
  Pods = {"p1", "p2"}
  replicaCount = 1
  MaxEvents = 2
INVARIANT TypeOK
PROPERTY KeysOutliveEnrollment
PROPERTY ServiceLasts
PROPERTY CreationsReachOthers
PROPERTY EventuallyRemoved
CHECK_DEADLOCK FALSE
