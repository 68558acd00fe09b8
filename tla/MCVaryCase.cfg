CONSTANTS
    Process = { 1, 2 }
    Jobs <- MCJobs
    Disks <- MCDisks
SPECIFICATION Spec
CHECK_DEADLOCK FALSE
INVARIANTS
    OutputIsWholeOrKept
    FailsForItsCause
