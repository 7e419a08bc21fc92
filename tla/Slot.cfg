CONSTANT Scenarios <- LifecycleAndCalls
CONSTANT MAX_REQUESTS = 2
SPECIFICATION Spec
INVARIANT StaysConnected
INVARIANT CallsAnswered
PROPERTY OrderKept
CHECK_DEADLOCK FALSE
