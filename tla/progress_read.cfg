SPECIFICATION Spec
CONSTANTS
    LastRun = 2
    MaxCount = 1
    MaxPauses = 2
CHECK_DEADLOCK FALSE
INVARIANT TypeOK
INVARIANT CountersAreTheRunsOwn
INVARIANT CountdownIsNotStale
