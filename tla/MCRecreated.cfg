\* Deleted and re-created within the sync interval.
SPECIFICATION Spec
CONSTANTS
  None = None
  States <- MCStates
  Kinds <- MCKinds
  Budgets <- RebornOnce
PROPERTY SecretBeforeBinding
