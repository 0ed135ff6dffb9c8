SPECIFICATION Spec
CONSTANT Jobs <- MCJobs
INVARIANTS ConflictsAreOrdered KernelsFindTheirState
CHECK_DEADLOCK FALSE
