CONSTANT NR_TASKS = 5
SPECIFICATION Spec
INVARIANT LiveQueuesAreRings
PROPERTY ImplementsQueues
CHECK_DEADLOCK FALSE
