\* One instance: edits and a deletion, two failures, or the hands of others.
SPECIFICATION FairSpec
CONSTANTS
  None = None
  States <- MCStates
  Kinds <- MCKinds
  Budgets <- Separately
INVARIANT TypeOK
PROPERTY UnmanagedNotOverwritten
PROPERTY SecretBeforeFirstBinding
PROPERTY OptOutCleansFirst
PROPERTY DeliveryLasts
PROPERTY EventuallyDelivered
PROPERTY EventuallyWithdrawn
