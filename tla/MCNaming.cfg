\* Every two bindings, with names of at most six characters.
SPECIFICATION Spec
CONSTANTS
  Alnum <- MCAlnum
  Lower <- MCLower
  Dash = "-"
  Dot = "."
  Fallback <- MCFallback
  Infix <- MCInfix
  Prefix <- MCPrefix
  LoftNamespace <- MCLoftNamespace
  ProjectNamespace <- MCProjectNamespace
  Limit = 6
  Cut = 4
  Digest <- MCDigest
  Requests <- MCRequests
INVARIANT TypeOK
INVARIANT InstanceNamesSafe
INVARIANT ClusterNamesSafe
INVARIANT KeysSeparate
PROPERTY NothingLost
CHECK_DEADLOCK FALSE
