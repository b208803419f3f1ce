CONSTANTS
    FileLength = 3
    MaxFailures = 2

SPECIFICATION Spec
INVARIANTS
    FailedReadThrows
CHECK_DEADLOCK FALSE
