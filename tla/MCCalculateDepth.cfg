\* Every closed graph on at most three templates.
SPECIFICATION FairSpec
CONSTANT Templates = {"a", "b", "c"}
INVARIANT SearchOK
PROPERTY ImplementsOutcome
PROPERTY Terminates
PROPERTY WorkShrinks
CHECK_DEADLOCK FALSE
