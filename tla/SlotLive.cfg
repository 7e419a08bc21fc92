CONSTANT Scenarios <- StaysOn
CONSTANT MAX_REQUESTS = 1
SPECIFICATION FairSpec
INVARIANT RestartIsHeard
PROPERTY Reconnects
PROPERTY StatusIsHeard
CHECK_DEADLOCK FALSE
