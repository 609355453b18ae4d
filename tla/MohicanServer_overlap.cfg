\* An operator who does not wait for a reload: another reload, or a stop, overlaps with it.
SPECIFICATION Spec
CONSTANTS
    MaxPid = 8
    Counts = {1}
    Commands = {"start", "stop_hard", "reload_soft"}
    MaxCommands = 3
    Waits = 2
    Faults = {}
INVARIANTS TypeOK NoServiceGap SignalsOwnWorkers
\* The server may be down for good, and the operator's commands come to an end.
CHECK_DEADLOCK FALSE
